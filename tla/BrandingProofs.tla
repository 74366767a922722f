---------------------------- MODULE BrandingProofs ----------------------------
(***************************************************************************)
(* What channels.branding guarantees for every number of sessions,         *)
(* commands, jobs, saves and chunks.                                       *)
(***************************************************************************)
EXTENDS Branding, FiniteSetTheorems, TLAPS

\* Sessions that are paying for the questions of an empty chat.
Asking == {s \in Sessions : proc[s].pc = "ask" /\ proc[s].op = "chips"}

\* A generation for an empty chat is one of a session, it was begun while there were
\* no questions, and it leaves some.
PaidBySession ==
    /\ \A p \in Procs : proc[p].pc = "ask" /\ proc[p].op = "chips" => p \in Sessions
    /\ questions = "unset" => lazyBills = 0
    /\ lazyBills + Cardinality(Asking) <= Cardinality(Sessions)

\* What writes a persona back, other than an ingest, read it when it began.
ReadWhenBegun ==
    \A p \in Procs : proc[p].pc = "generate" /\ proc[p].op # "ingest" =>
        proc[p].read.settings >= proc[p].since

IInv == TypeOK /\ PaidBySession /\ ReadWhenBegun

-----------------------------------------------------------------------------
\* Lemmas.

\* Fewer sessions asking, and no new bill, keep the bound (all steps but Chips and
\* WriteQuestions).
LEMMA FewerAsking ==
    ASSUME PaidBySession, TypeOK, lazyBills' = lazyBills, NEW T, T \subseteq Asking
    PROVE  lazyBills + Cardinality(T) <= Cardinality(Sessions)
<1>1. IsFiniteSet(Asking)
    BY BrandingAssumption, FS_Subset DEF Asking
<1>2. Cardinality(T) <= Cardinality(Asking) /\ IsFiniteSet(T)
    BY <1>1, FS_Subset
<1>3. Cardinality(T) \in Nat /\ Cardinality(Asking) \in Nat /\ Cardinality(Sessions) \in Nat
    BY <1>1, <1>2, BrandingAssumption, FS_CardinalityType
<1> QED BY <1>2, <1>3 DEF PaidBySession, TypeOK

\* A generation, or its refusal, bills no page and sets the moment it began.
LEMMA GeneratingKeeps ==
    ASSUME IInv, NEW p \in Procs, NEW s \in Process, NEW force \in BOOLEAN,
           Generating(p, s, force),
           s.op = "ingest" \/ s.read = persona,
           UNCHANGED <<persona, questions, chunks, saves, lazyBills>>
    PROVE  IInv'
<1> USE BrandingAssumption
<1>1. /\ proc' \in [Procs -> Process]
      /\ \A q \in Procs : proc'[q].pc = "generate" => q # p \/ chunks > 0
      /\ \A q \in Procs \ {p} : proc'[q] = proc[q]
      /\ \/ proc'[p] = Idle
         \/ proc'[p] = [s EXCEPT !.pc = "generate", !.since = persona.settings]
    <2>1. Idle \in Process
        BY DEF Idle, Process, DefaultPersona, Persona, Ops
    <2>2. persona.settings \in 0..MaxSaves
        BY DEF IInv, TypeOK, Persona
    <2>3. [s EXCEPT !.pc = "generate", !.since = persona.settings] \in Process
        BY <2>2 DEF Process
    <2>4. chunks \in Nat
        BY DEF IInv, TypeOK
    <2> QED BY <2>1, <2>3, <2>4 DEF Generating, End, Become, IInv, TypeOK, Idle
<1>2. TypeOK'
    BY <1>1 DEF IInv, TypeOK
<1>3. /\ proc'[p].pc # "ask"
      /\ proc'[p].pc = "generate" =>
            proc'[p].op = s.op /\ proc'[p].read = s.read /\ proc'[p].since = persona.settings
    <2>1. CASE proc'[p] = Idle
        BY <2>1 DEF Idle
    <2>2. CASE proc'[p] = [s EXCEPT !.pc = "generate", !.since = persona.settings]
        BY <2>2 DEF Process
    <2> QED BY <1>1, <2>1, <2>2
<1>4. PaidBySession'
    <2>1. Asking' \subseteq Asking
        BY <1>1, <1>3 DEF Asking, Procs
    <2>2. lazyBills + Cardinality(Asking') <= Cardinality(Sessions)
        BY <2>1, FewerAsking DEF IInv
    <2> QED BY <2>2, <1>1, <1>3 DEF IInv, PaidBySession
<1>5. ReadWhenBegun'
    <2>1. persona.settings \in 0..MaxSaves
        BY DEF IInv, TypeOK, Persona
    <2>2. proc'[p].pc = "generate" /\ proc'[p].op # "ingest" => proc'[p].read.settings >= proc'[p].since
        BY <1>3, <2>1
    <2> QED BY <2>2, <1>1 DEF IInv, ReadWhenBegun
<1> QED BY <1>2, <1>4, <1>5 DEF IInv

\* A step that makes p a process neither asking for a page nor generating, and
\* writes at most settings, questions or chunks of the row (the form, the loader).
LEMMA OneProcessStep ==
    ASSUME IInv, NEW p \in Procs, NEW q \in Process, Become(p, q),
           q.pc # "generate", q.pc = "ask" => q.op # "chips",
           persona' \in Persona, questions' \in QuestionLists, chunks' \in chunks..MaxChunks,
           persona'.counted > 0 => chunks' >= persona'.counted,
           questions # "unset" => questions' # "unset",
           saves' \in 0..MaxSaves, lazyBills' = lazyBills
    PROVE  IInv'
<1> USE BrandingAssumption
<1>1. proc' \in [Procs -> Process] /\ proc'[p] = q /\ \A r \in Procs \ {p} : proc'[r] = proc[r]
    BY DEF IInv, TypeOK, Become
<1>2. chunks \in Nat /\ chunks' \in 0..MaxChunks /\ chunks' >= chunks
    BY DEF IInv, TypeOK
<1>3. TypeOK'
    BY <1>1, <1>2 DEF IInv, TypeOK
<1>4. PaidBySession'
    <2>1. Asking' \subseteq Asking
        BY <1>1 DEF Asking, Procs
    <2>2. lazyBills + Cardinality(Asking') <= Cardinality(Sessions)
        BY <2>1, FewerAsking DEF IInv
    <2> QED BY <2>2, <1>1 DEF IInv, PaidBySession
<1>5. ReadWhenBegun'
    BY <1>1 DEF IInv, ReadWhenBegun
<1> QED BY <1>3, <1>4, <1>5 DEF IInv

-----------------------------------------------------------------------------
\* The inductive invariant.

LEMMA InitInv ==
    ASSUME Init
    PROVE  IInv
<1> USE BrandingAssumption
<1>1. DefaultPersona \in Persona /\ Idle \in Process
    BY DEF DefaultPersona, Persona, Idle, Process, Ops
<1>2. TypeOK
    BY <1>1 DEF Init, TypeOK, QuestionLists, DefaultPersona, Idle
<1>3. PaidBySession
    <2>1. Asking = {}
        BY DEF Asking, Init, Idle, Procs
    <2>2. Cardinality(Asking) = 0 /\ Cardinality(Sessions) \in Nat
        BY <2>1, FS_EmptySet, FS_CardinalityType
    <2> QED BY <2>2 DEF Init, PaidBySession, Idle
<1>4. ReadWhenBegun
    BY DEF Init, ReadWhenBegun, Idle
<1> QED BY <1>2, <1>3, <1>4 DEF IInv

\* A session that asks for an empty chat is not one of those asking already, and
\* nobody was billed before it (Chips).
LEMMA ChipsInv ==
    ASSUME IInv, NEW s \in Sessions, Chips(s)
    PROVE  IInv'
<1> USE BrandingAssumption
<1> DEFINE q == [Idle EXCEPT !.pc = "ask", !.op = "chips"]
<1>1. q \in Process /\ q.pc = "ask"
    <2>1. Idle \in Process
        BY DEF Idle, Process, DefaultPersona, Persona, Ops
    <2> QED BY <2>1 DEF Process, Ops
<1>2. /\ proc' \in [Procs -> Process] /\ proc'[s] = q
      /\ \A r \in Procs \ {s} : proc'[r] = proc[r]
    BY <1>1 DEF Chips, Become, IInv, TypeOK, Procs
<1> HIDE DEF q
<1>3. TypeOK'
    BY <1>1, <1>2 DEF Chips, IInv, TypeOK
<1>4. PaidBySession'
    <2>1. Asking' \subseteq Sessions
        BY DEF Asking
    <2>2. Cardinality(Asking') <= Cardinality(Sessions)
        BY <2>1, FS_Subset
    <2>3. lazyBills' = 0
        BY DEF Chips, IInv, PaidBySession
    <2>4. Cardinality(Asking') \in Nat
        BY <2>1, FS_Subset, FS_CardinalityType
    <2> QED BY <2>2, <2>3, <2>4, <1>1, <1>2 DEF IInv, PaidBySession
<1>5. ReadWhenBegun'
    BY <1>1, <1>2 DEF IInv, ReadWhenBegun
<1> QED BY <1>3, <1>4, <1>5 DEF IInv

\* The list that comes back ends one request and, for an empty chat, is its one bill
\* (WriteQuestions).
LEMMA WriteQuestionsInv ==
    ASSUME IInv, NEW p \in Procs, WriteQuestions(p)
    PROVE  IInv'
<1> USE BrandingAssumption
<1>1. Idle \in Process
    BY DEF Idle, Process, DefaultPersona, Persona, Ops
<1>2. proc[p] \in Process /\ [proc[p] EXCEPT !.pc = "reread"] \in Process
    BY DEF IInv, TypeOK, Process
<1>3. /\ proc' \in [Procs -> Process] /\ proc'[p].pc \in {"idle", "reread"}
      /\ \A r \in Procs \ {p} : proc'[r] = proc[r]
    BY <1>1, <1>2 DEF WriteQuestions, Become, End, IInv, TypeOK, Idle, Process
<1>4. TypeOK'
    BY <1>3 DEF WriteQuestions, IInv, TypeOK, QuestionLists
<1>5. PaidBySession'
    <2>1. IsFiniteSet(Asking) /\ Cardinality(Asking) \in Nat /\ Cardinality(Sessions) \in Nat
        BY FS_Subset, FS_CardinalityType DEF Asking
    <2>2. CASE proc[p].op = "chips"
        <3>1. p \in Asking
            BY <2>2 DEF WriteQuestions, IInv, PaidBySession, Asking
        <3>2. Asking' = Asking \ {p}
            BY <1>3 DEF Asking, Procs
        <3>3. Cardinality(Asking') = Cardinality(Asking) - 1
            BY <2>1, <3>1, <3>2, FS_RemoveElement
        <3>4. lazyBills' = lazyBills + 1 /\ lazyBills \in Nat
            BY <2>2 DEF WriteQuestions, IInv, TypeOK
        <3>5. lazyBills' + Cardinality(Asking') <= Cardinality(Sessions)
            BY <3>3, <3>4, <2>1 DEF IInv, PaidBySession
        <3> QED BY <3>5, <1>3 DEF WriteQuestions, IInv, PaidBySession
    <2>3. CASE proc[p].op # "chips"
        <3>1. Asking' \subseteq Asking
            BY <1>3 DEF Asking, Procs
        <3>2. lazyBills' = lazyBills
            BY <2>3 DEF WriteQuestions
        <3>3. lazyBills + Cardinality(Asking') <= Cardinality(Sessions)
            BY <3>1, <3>2, FewerAsking DEF IInv
        <3> QED BY <3>2, <3>3, <1>3 DEF WriteQuestions, IInv, PaidBySession
    <2> QED BY <2>2, <2>3
<1>6. ReadWhenBegun'
    BY <1>3 DEF IInv, ReadWhenBegun
<1> QED BY <1>4, <1>5, <1>6 DEF IInv

\* No step of the program breaks it.
LEMMA StepInv ==
    ASSUME IInv, [Next]_vars
    PROVE  IInv'
<1> USE BrandingAssumption DEF Procs
<1>1. /\ Idle \in Process /\ persona \in Persona /\ questions \in QuestionLists
      /\ chunks \in 0..MaxChunks /\ chunks \in chunks..MaxChunks /\ saves \in 0..MaxSaves
      /\ proc \in [Procs -> Process]
      /\ persona.counted > 0 => chunks >= persona.counted
    BY DEF IInv, TypeOK, Idle, Process, DefaultPersona, Persona, Ops
<1>2. ASSUME NEW op \in Ops, NEW l \in {"idle", "form", "load"}
      PROVE  /\ Reading(op, l) \in Process /\ Reading(op, l).pc = l
             /\ Reading(op, l).op = op /\ Reading(op, l).read = persona
    BY <1>1 DEF Reading, Process, Persona
<1>3. ASSUME NEW p \in Procs, WriteProfile(p)
      PROVE  IInv'
    <2> DEFINE new == [proc[p].read EXCEPT !.profile = TRUE, !.counted = chunks]
    <2>1. new \in Persona /\ new.counted = chunks
        BY <1>1 DEF Process, Persona
    <2>2. persona' = new /\ UNCHANGED <<questions, chunks, saves, lazyBills>> /\ Become(p, Idle)
        BY <1>3 DEF WriteProfile, SetPersona, End
    <2> HIDE DEF new
    <2> QED BY <2>1, <2>2, <1>1, OneProcessStep DEF Idle
<1>4. ASSUME NEW p \in Procs, GenerationFails(p)
      PROVE  IInv'
    <2>1. PICK q \in Process : Become(p, q) /\ q.pc \in {"idle", "reread"}
        BY <1>4, <1>1 DEF GenerationFails, End, Idle, Process
    <2> QED BY <2>1, <1>4, <1>1, OneProcessStep DEF GenerationFails
<1>5. ASSUME NEW s \in Sessions, OpenForm(s)
      PROVE  IInv'
    <2>1. Reading("form", "form") \in Process /\ Reading("form", "form").pc = "form"
        BY <1>2 DEF Ops
    <2> QED BY <2>1, <1>5, <1>1, OneProcessStep DEF OpenForm
<1>6. ASSUME NEW s \in Sessions, SaveForm(s)
      PROVE  IInv'
    <2>1. PICK text \in BOOLEAN : persona' = [persona EXCEPT !.settings = saves', !.profile = text]
        BY <1>6, <1>1 DEF SaveForm, SetPersona, Persona, Process
    <2>2. saves' \in 0..MaxSaves
        BY <1>6, <1>1 DEF SaveForm
    <2>3. persona' \in Persona /\ persona'.counted = persona.counted
        BY <2>1, <2>2, <1>1 DEF Persona
    <2>4. UNCHANGED <<questions, chunks, lazyBills>> /\ Become(s, Idle)
        BY <1>6 DEF SaveForm, SetPersona, End
    <2> QED BY <2>2, <2>3, <2>4, <1>1, OneProcessStep DEF Idle
<1>7. ASSUME NEW p \in Procs, NEW force \in BOOLEAN, Regenerate(p, force)
      PROVE  IInv'
    <2>1. PICK op \in {"regenerate", "build"} : Generating(p, Reading(op, "idle"), force)
        BY <1>7 DEF Regenerate
    <2>2. Reading(op, "idle") \in Process /\ Reading(op, "idle").read = persona
        BY <1>2 DEF Ops
    <2> QED BY <2>1, <2>2, <1>7, GeneratingKeeps DEF Regenerate
<1>8. ASSUME NEW j \in Jobs, NEW op \in {"ingest", "update"}, StartJob(j, op)
      PROVE  IInv'
    <2>1. Reading(op, "load") \in Process /\ Reading(op, "load").pc = "load"
        BY <1>2 DEF Ops
    <2> QED BY <2>1, <1>8, <1>1, OneProcessStep DEF StartJob
<1>9. ASSUME NEW j \in Jobs, LoadBundle(j)
      PROVE  IInv'
    <2>1. PICK l \in {"ask", "reread"} : /\ Become(j, [proc[j] EXCEPT !.pc = l])
                                         /\ l = "ask" => proc[j].op = "update"
        BY <1>9 DEF LoadBundle
    <2>2. /\ [proc[j] EXCEPT !.pc = l] \in Process /\ [proc[j] EXCEPT !.pc = l].pc = l
          /\ [proc[j] EXCEPT !.pc = l].op = proc[j].op
        BY <1>1 DEF Process
    <2>3. /\ chunks' \in chunks..MaxChunks /\ questions' \in QuestionLists
          /\ questions # "unset" => questions' # "unset"
          /\ UNCHANGED <<persona, saves, lazyBills>>
        BY <1>9, <1>1 DEF LoadBundle, QuestionLists
    <2>4. persona'.counted > 0 => chunks' >= persona'.counted
        BY <2>3, <1>1 DEF Persona
    <2> QED BY <2>1, <2>2, <2>3, <2>4, <1>1, OneProcessStep
<1>10. ASSUME NEW j \in Jobs, RefreshVoice(j)
       PROVE  IInv'
    <2>1. CASE proc[j].op = "ingest"
        <3>1. Generating(j, proc[j], FALSE) /\ proc[j] \in Process
            BY <1>10, <2>1, <1>1 DEF RefreshVoice
        <3> QED BY <3>1, <2>1, <1>10, GeneratingKeeps DEF RefreshVoice
    <2>2. CASE Generating(j, Reading("update", "idle"), TRUE)
        <3>1. Reading("update", "idle") \in Process /\ Reading("update", "idle").read = persona
            BY <1>2 DEF Ops
        <3> QED BY <3>1, <2>2, <1>10, GeneratingKeeps DEF RefreshVoice
    <2>3. CASE End(j)
        BY <2>3, <1>10, <1>1, OneProcessStep DEF RefreshVoice, End, Idle
    <2> QED BY <2>1, <2>2, <2>3, <1>10 DEF RefreshVoice
<1>11. CASE UNCHANGED vars
    BY <1>11 DEF vars, IInv, TypeOK, PaidBySession, ReadWhenBegun, Asking
<1> QED BY <1>3, <1>4, <1>5, <1>6, <1>7, <1>8, <1>9, <1>10, <1>11, ChipsInv, WriteQuestionsInv
        DEF Next

LEMMA Invariance == Spec => []IInv
<1>1. Init => IInv
    BY InitInv
<1>2. IInv /\ [Next]_vars => IInv'
    BY StepInv
<1> QED BY <1>1, <1>2, PTL DEF Spec

-----------------------------------------------------------------------------
\* The state of the row and of its writers stays well formed: no voice is made
\* without content and none is stamped with more than there is (ensure_style_profile).
THEOREM TypeCorrectness == Spec => []TypeOK
<1>1. IInv => TypeOK
    BY DEF IInv
<1> QED BY <1>1, Invariance, PTL

\* However many pages are rendered while there are no questions, each session pays
\* for one list at most (ensure_suggested_questions).
THEOREM BilledOnce == Spec => []ChipsBilledOnce
<1>1. IInv => ChipsBilledOnce
    <2> SUFFICES ASSUME IInv PROVE ChipsBilledOnce
        OBVIOUS
    <2>1. Cardinality(Asking) \in Nat /\ Cardinality(Sessions) \in Nat
        BY BrandingAssumption, FS_Subset, FS_CardinalityType DEF Asking
    <2> QED BY <2>1 DEF IInv, TypeOK, PaidBySession, ChipsBilledOnce
<1> QED BY <1>1, Invariance, PTL

\* Nobody who writes branding beside them takes the questions away again
\* (set_channel_branding merges).
THEOREM QuestionsKept == Spec => QuestionsStay
<1>1. [Next]_vars => [questions # "unset" => questions' # "unset"]_vars
    <2> SUFFICES ASSUME Next, questions # "unset" PROVE questions' # "unset"
        OBVIOUS
    <2> QED BY DEF Next, OpenForm, SaveForm, Chips, WriteProfile, GenerationFails,
                   WriteQuestions, Regenerate, LoadBundle, RefreshVoice, StartJob, SetPersona
<1> QED BY <1>1, PTL DEF Spec, QuestionsStay

\* A generation begun by a page, a command or an update writes settings that are no
\* older than those it began with (ReadWhenBegun: what it writes back was read then).
THEOREM SettingsKept == Spec => OnlyIngestGoesBack
<1> DEFINE GoesBack(p) ==
        (proc[p].pc = "generate" /\ proc[p].op # "ingest" /\ persona' # persona
            /\ proc'[p].pc = "idle")
        => persona'.settings >= proc[p].since
<1>1. ASSUME IInv, Next, NEW p \in Procs
      PROVE  GoesBack(p)
    <2> SUFFICES ASSUME proc[p].pc = "generate", proc[p].op # "ingest", persona' # persona,
                        proc'[p].pc = "idle"
                 PROVE  persona'.settings >= proc[p].since
        OBVIOUS
    <2>1. proc \in [Procs -> Process] /\ persona \in Persona
        BY <1>1 DEF IInv, TypeOK
    <2>2. CASE WriteProfile(p)
        <3>1. persona' = [proc[p].read EXCEPT !.profile = TRUE, !.counted = chunks]
            BY <2>2 DEF WriteProfile, SetPersona
        <3>2. persona'.settings = proc[p].read.settings
            BY <3>1, <2>1 DEF Process, Persona
        <3> QED BY <3>2, <1>1 DEF IInv, ReadWhenBegun
    <2>3. ASSUME NEW q \in Procs \ {p}, Become(q, Idle)
          PROVE  FALSE
        BY <2>3, <2>1, <1>1 DEF Become
    <2>4. ASSUME NEW q \in Procs \ {p}, WriteProfile(q)
          PROVE  FALSE
        BY <2>4, <2>3 DEF WriteProfile, End
    <2>5. ASSUME NEW s \in Sessions, SaveForm(s)
          PROVE  FALSE
        <3>1. s \in Procs \ {p}
            BY <2>5 DEF SaveForm, Procs
        <3> QED BY <3>1, <2>5, <2>3 DEF SaveForm, End
    <2>6. ASSUME ~WriteProfile(p)
          PROVE  FALSE
        BY <1>1, <2>4, <2>5, <2>6
           DEF Next, OpenForm, Chips, GenerationFails, WriteQuestions, Regenerate, LoadBundle,
               RefreshVoice, StartJob
    <2> QED BY <2>2, <2>6
<1>2. IInv /\ [Next]_vars => [\A p \in Procs : GoesBack(p)]_vars
    BY <1>1
<1>3. Spec => [][\A p \in Procs : GoesBack(p)]_vars
    BY <1>2, Invariance, PTL DEF Spec
<1> QED BY <1>3 DEF OnlyIngestGoesBack
=============================================================================
