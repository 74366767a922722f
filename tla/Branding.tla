------------------------------- MODULE Branding -------------------------------
(***************************************************************************)
(* channels.branding, one JSON column with the voice of a channel          *)
(* (core/persona) and its suggested questions (core/chat/suggestions.py),  *)
(* and all who write it: the Voice form of the Channels page, `aac persona *)
(* build`, the end of an ingest or update job (core/ingest/pipeline.py),   *)
(* the bundle loader and every rendering of an empty chat.  set_channel_   *)
(* branding merges top-level keys; the whole "persona" value is written    *)
(* from what its writer read seconds (a generation) or minutes (an ingest  *)
(* job) before.                                                            *)
(*                                                                         *)
(* Settings are numbered by the save that made them, 0 for the defaults; of *)
(* a profile and of questions only what there is matters.                  *)
(***************************************************************************)
EXTENDS Integers, FiniteSets

CONSTANTS
    Sessions,   \* browser sessions: Voice form, "Regenerate voice", chat page
    Clis,       \* `aac persona build` processes
    Jobs,       \* what runs ingest and update jobs, one after the other
    MaxSaves,   \* bound: how often the form is saved
    MaxChunks   \* bound: how far the channel grows

Procs == Sessions \cup Clis \cup Jobs

ASSUME BrandingAssumption == /\ MaxSaves \in Nat /\ MaxChunks \in Nat
                             /\ IsFiniteSet(Sessions)
                             /\ Sessions \cap Clis = {} /\ Jobs \cap (Sessions \cup Clis) = {}

VARIABLES
    persona,    \* branding["persona"]
    questions,  \* branding["suggested_questions"]: "unset", "empty" or "some"
    chunks,     \* embedded chunks of the channel, in units of PERSONA_STALE_GROWTH_RATIO
    proc,       \* [Procs -> what the process holds]
    saves,      \* how often the form was saved
    lazyBills   \* history: generations paid for by a page that found no questions

vars == <<persona, questions, chunks, proc, saves, lazyBills>>

QuestionLists == {"unset", "empty", "some"}
\* settings stands for enabled, family_friendly and custom_instructions;
\* counted for profile_chunk_count (and profile_generated_at).
Persona == [settings : 0..MaxSaves, profile : BOOLEAN, counted : 0..MaxChunks]
DefaultPersona == [settings |-> 0, profile |-> FALSE, counted |-> 0]

Ops == {"form", "regenerate", "build", "chips", "ingest", "update"}
Process == [pc : {"idle", "form", "load", "generate", "ask", "reread"}, op : Ops,
            read : Persona, since : 0..MaxSaves]
Idle == [pc |-> "idle", op |-> "form", read |-> DefaultPersona, since |-> 0]

TypeOK ==
    /\ persona \in Persona
    /\ questions \in QuestionLists
    /\ chunks \in 0..MaxChunks
    /\ saves \in 0..MaxSaves
    /\ lazyBills \in Nat
    /\ proc \in [Procs -> Process]
    \* nothing generates a voice from no content, and only a generation is stamped
    /\ \A p \in Procs : proc[p].pc = "generate" => chunks > 0
    /\ persona.counted > 0 => chunks >= persona.counted

Init ==
    /\ persona = DefaultPersona /\ questions = "unset"
    /\ chunks = 0
    /\ proc = [p \in Procs |-> Idle]
    /\ saves = 0 /\ lazyBills = 0

Become(p, s) == proc' = [proc EXCEPT ![p] = s]
End(p) == Become(p, Idle)
\* The channel object a page, a command or a job is given.
Reading(op, l) == [pc |-> l, op |-> op, read |-> persona, since |-> 0]

-----------------------------------------------------------------------------
\* ensure_style_profile: from the object passed, whenever that was read.

\* Wrong variant of Generating: the model is asked though there are no samples.
GeneratingFromNothing(p, s, force) ==
    IF s.read.profile /\ ~force THEN End(p)
    ELSE Become(p, [s EXCEPT !.pc = "generate", !.since = persona.settings])

\* What is returned without a generation: a profile is there, or there is no
\* content (or no chat key) to make one from.
Generating(p, s, force) ==
    IF (s.read.profile /\ ~force) \/ chunks = 0 THEN End(p)
    ELSE Become(p, [s EXCEPT !.pc = "generate", !.since = persona.settings])

\* Wrong variant of SetPersona: the branding is replaced, not merged into.
SetBrandingWhole(new) == persona' = new /\ questions' = "unset"

SetPersona(new) == persona' = new /\ UNCHANGED questions

\* The reply comes and set_persona saves the whole persona.
WriteProfile(p) ==
    /\ proc[p].pc = "generate"
    /\ SetPersona([proc[p].read EXCEPT !.profile = TRUE, !.counted = chunks])
    /\ End(p)
    /\ UNCHANGED <<chunks, saves, lazyBills>>

\* A provider error: shown by the page, fatal to the command, logged by the job.
GenerationFails(p) ==
    /\ proc[p].pc \in {"generate", "ask"}
    /\ IF proc[p].op = "update" /\ proc[p].pc = "ask"
       THEN Become(p, [proc[p] EXCEPT !.pc = "reread"]) ELSE End(p)
    /\ UNCHANGED <<persona, questions, chunks, saves, lazyBills>>

-----------------------------------------------------------------------------
\* The Voice form.

OpenForm(s) ==
    /\ s \in Sessions /\ proc[s].pc = "idle"
    /\ Become(s, Reading("form", "form"))
    /\ UNCHANGED <<persona, questions, chunks, saves, lazyBills>>

\* The click reruns the page: the settings and the profile are the form's (the
\* text area shows what it showed, or, its default having changed, the row's),
\* the rest is the row's.
SaveForm(s) ==
    /\ proc[s].pc = "form" /\ saves < MaxSaves
    /\ saves' = saves + 1
    /\ \E text \in {proc[s].read.profile, persona.profile, TRUE} :
        SetPersona([persona EXCEPT !.settings = saves', !.profile = text])
    /\ End(s)
    /\ UNCHANGED <<chunks, lazyBills>>

\* "Regenerate voice" on a page just read, `aac persona build` with and without --force.
Regenerate(p, force) ==
    /\ proc[p].pc \in {"idle", "form"} /\ p \in Sessions \cup Clis
    /\ force \/ p \in Clis
    /\ Generating(p, Reading(IF force THEN "regenerate" ELSE "build", "idle"), force)
    /\ UNCHANGED <<persona, questions, chunks, saves, lazyBills>>

-----------------------------------------------------------------------------
\* Suggested questions.

\* An empty chat is rendered: ensure_suggested_questions, not forced.
Chips(s) ==
    /\ s \in Sessions /\ proc[s].pc = "idle"
    /\ questions = "unset" /\ chunks > 0
    /\ Become(s, [Idle EXCEPT !.pc = "ask", !.op = "chips"])
    /\ UNCHANGED <<persona, questions, chunks, saves, lazyBills>>

\* Wrong variant of WriteQuestions: nothing usable, so nothing is stored.
WriteQuestionsIfAny(p) ==
    /\ proc[p].pc = "ask"
    /\ questions' \in {questions, "some"}
    /\ lazyBills' = IF proc[p].op = "chips" THEN lazyBills + 1 ELSE lazyBills
    /\ IF proc[p].op = "update" THEN Become(p, [proc[p] EXCEPT !.pc = "reread"]) ELSE End(p)
    /\ UNCHANGED <<persona, chunks, saves>>

\* The list is stored even when the model gave nothing usable.
WriteQuestions(p) ==
    /\ proc[p].pc = "ask"
    /\ questions' \in {"empty", "some"}
    /\ lazyBills' = IF proc[p].op = "chips" THEN lazyBills + 1 ELSE lazyBills
    /\ IF proc[p].op = "update" THEN Become(p, [proc[p] EXCEPT !.pc = "reread"]) ELSE End(p)
    /\ UNCHANGED <<persona, chunks, saves>>

-----------------------------------------------------------------------------
\* Jobs: the channel is read when the job lists its videos.

StartJob(j, op) ==
    /\ j \in Jobs /\ op \in {"ingest", "update"} /\ proc[j].pc = "idle"
    /\ Become(j, Reading(op, "load"))
    /\ UNCHANGED <<persona, questions, chunks, saves, lazyBills>>

\* load_bundle_into_store: the questions of the manifest, if it has any, and new
\* chunks or the same ones again; then the refresh of the kind of job.
LoadBundle(j) ==
    /\ proc[j].pc = "load"
    /\ questions' \in {questions} \cup (IF proc[j].op = "ingest" THEN {"some"} ELSE {})
    /\ chunks' \in chunks..MaxChunks
    /\ Become(j, [proc[j] EXCEPT !.pc = IF proc[j].op = "update" /\ chunks' > 0 THEN "ask"
                                        ELSE "reread"])
    /\ UNCHANGED <<persona, saves, lazyBills>>

\* Wrong variant of RefreshVoice: the update goes by the channel it was given.
RefreshVoiceAsGiven(j) ==
    /\ proc[j].pc = "reread"
    /\ IF proc[j].op = "ingest" THEN Generating(j, proc[j], FALSE)
       ELSE IF persona.profile /\ persona.counted > 0 /\ chunks > persona.counted
       THEN Generating(j, proc[j], TRUE) ELSE End(j)
    /\ UNCHANGED <<persona, questions, chunks, saves, lazyBills>>

\* An ingest ends with _try_build_style_profile of the channel it was given; an
\* update (_post_update_refresh) reads the row again and makes a new profile
\* when the channel has grown enough since the last one.
RefreshVoice(j) ==
    /\ proc[j].pc = "reread"
    /\ IF proc[j].op = "ingest" THEN Generating(j, proc[j], FALSE)
       ELSE IF persona.profile /\ persona.counted > 0 /\ chunks > persona.counted
       THEN Generating(j, Reading("update", "idle"), TRUE) ELSE End(j)
    /\ UNCHANGED <<persona, questions, chunks, saves, lazyBills>>

Next ==
    \/ \E s \in Sessions : OpenForm(s) \/ SaveForm(s) \/ Chips(s)
    \/ \E p \in Procs : WriteProfile(p) \/ GenerationFails(p) \/ WriteQuestions(p)
    \/ \E p \in Procs, force \in BOOLEAN : Regenerate(p, force)
    \/ \E j \in Jobs : LoadBundle(j) \/ RefreshVoice(j)
    \/ \E j \in Jobs, op \in {"ingest", "update"} : StartJob(j, op)

Spec == Init /\ [][Next]_vars

-----------------------------------------------------------------------------
\* suggestions.py:84: "don't bill again on every render".  However often pages are
\* rendered beside one another and beside jobs, each session pays for one
\* generation at most.
ChipsBilledOnce == lazyBills <= Cardinality(Sessions)

\* Questions that were generated, or found impossible to generate, are never
\* forgotten, whoever saves the voice beside them (set_channel_branding).
QuestionsStay == [][questions # "unset" => questions' # "unset"]_vars

\* Settings of a voice saved before a generation began are still there after it,
\* whichever of the page, the command and the update job ran it; only the ingest
\* job, which goes by the channel it read when it began, may put older ones back
\* (pipeline.py _post_update_refresh against _try_build_style_profile).
OnlyIngestGoesBack ==
    [][\A p \in Procs :
        (proc[p].pc = "generate" /\ proc[p].op # "ingest" /\ persona' # persona
            /\ proc'[p].pc = "idle")
        => persona'.settings >= proc[p].since]_vars
=============================================================================
