------------------------- MODULE IngestPipelineProofs -------------------------
(***************************************************************************)
(* What the ingest pipeline guarantees for every set of workers, commands, *)
(* channels and videos.  The invariant is built in layers, each proved     *)
(* from the ones before it:                                                *)
(*   Shape    the types, by program counter, and the table's own invariant *)
(*   Loaded   what a load has made searchable so far stays searchable      *)
(*   Book     a run knows the row it runs for                              *)
(*   Owned    no two processes run one row, and a row has the status that  *)
(*            the process running it expects to find                       *)
(*   Plan     a video is recorded as embedded only if somebody has stored, *)
(*            or is about to store, its chunks                             *)
(***************************************************************************)
EXTENDS IngestPipeline, TLAPS

-----------------------------------------------------------------------------
\* Types, and the table: every step is a call of the store or none.

\* The lemmas of JobQueueProofs about the table this pipeline uses.
Table == INSTANCE JobQueueProofs

\* The fields of a process, before what ties them together.
State == [pc : Pcs, job : Jobs \cup {0}, input : Inputs, kind : Queue!Kinds,
          chan : Channels \cup {NoChannel}, gen : Nat, known : SUBSET Videos,
          todo : SUBSET Videos, recs : Records, video : Videos, drafts : BOOLEAN]

\* The places at which the channel is known, and those with records in hand.
Placed == {"attach", "check", "fetch", "record", "finish", "load", "embed", "mark", "create"}
HasRecs == {"fetch", "record", "load", "embed", "mark", "getJob"}
\* The videos that are ever listed for channel c.
Vids(c) == UNION Listings[c]

\* A process at its program counter.
ProcState == {s \in State :
    /\ s.pc \in RunPcs => s.job \in Jobs
    /\ s.pc \in Placed => s.chan \in Channels
    /\ s.pc \notin HasRecs \/ s.chan = NoChannel => s.recs = <<>>
    /\ s.chan \in Channels => DOMAIN s.recs \subseteq Vids(s.chan)
    /\ s.pc \in {"attach", "check", "fetch", "record"} => s.todo \subseteq Vids(s.chan)
    /\ s.pc \in {"load", "embed", "mark"} => s.todo \subseteq DOMAIN s.recs
    /\ s.pc \in {"record", "embed", "mark"} => s.video \in s.todo
    /\ s.pc \in {"nothing", "finish", "open", "getJob"} => s.todo = {}}

\* A bundle holds videos of its own channel.
Bundles == {NoBundle} \cup
           {b \in [chan : Channels, recs : Records] : DOMAIN b.recs \subseteq Vids(b.chan)}

\* The types of everything but the table.
Typed ==
    /\ proc \in [Procs -> ProcState]
    /\ gen \in [Channels -> Nat]
    /\ vstatus \in [Videos -> VStatuses]
    /\ chunks \in [Videos -> {"none", "searchable"} \cup Procs]
    /\ bundle \in [Dirs -> Bundles]
    /\ purging \subseteq Channels
    /\ spent \in [DOMAIN Budget -> Nat]
    /\ \A k \in DOMAIN Budget : spent[k] <= Budget[k]

\* What a step may do to the job table.
TableStep == Queue!Next \/ UNCHANGED queueVars

LEMMA NoRecords == <<>> \in Records /\ DOMAIN <<>> = {}
<1>1. <<>> \in [{} -> Record]
    OBVIOUS
<1> QED BY <1>1 DEF Records

LEMMA Samples == (CHOOSE i \in Inputs : TRUE) \in Inputs /\ (CHOOSE v \in Videos : TRUE) \in Videos
BY InputsAssumption

LEMMA IdleState ==
    ASSUME NEW l \in Pcs
    PROVE  /\ Idle(l) \in State
           /\ Idle(l).pc = l /\ Idle(l).job = 0 /\ Idle(l).chan = NoChannel
           /\ Idle(l).recs = <<>> /\ Idle(l).todo = {} /\ Idle(l).gen = 0
BY Samples, NoRecords DEF Idle, State, Queue!Kinds

LEMMA IdleOnJob ==
    ASSUME NEW l \in Pcs \ (Placed \cup HasRecs \cup {"open", "nothing"}), NEW j \in Jobs
    PROVE  LET s == [Idle(l) EXCEPT !.job = j] IN
           /\ s \in ProcState
           /\ s.pc = l /\ s.job = j /\ s.chan = NoChannel
           /\ s.recs = <<>> /\ s.todo = {} /\ s.gen = 0
BY IdleState DEF State, ProcState, HasRecs

LEMMA CaughtState ==
    ASSUME Typed, NEW p \in Procs, Running(p)
    PROVE  /\ Caught(p) \in ProcState
           /\ Caught(p).chan = NoChannel
           /\ \/ proc[p].pc \in BuildPcs /\ Caught(p).pc = "failBuild" /\ Caught(p).job = proc[p].job
              \/ proc[p].pc \notin BuildPcs /\ p \in Workers /\ Caught(p).pc = "fail" /\ Caught(p).job = proc[p].job
              \/ proc[p].pc \notin BuildPcs /\ Caught(p).pc = "exit"
<1>1. proc[p].job \in Jobs
    BY DEF Typed, ProcState, Running
<1>2. {"failBuild", "fail", "exit"} \subseteq Pcs
    BY DEF Pcs, RunPcs
<1>3. CASE proc[p].pc \in BuildPcs
    <2>1. Caught(p) = [Idle("failBuild") EXCEPT !.job = proc[p].job]
        BY <1>3 DEF Caught
    <2> QED BY <2>1, <1>1, <1>2, <1>3, IdleOnJob DEF Placed, HasRecs
<1>4. CASE proc[p].pc \notin BuildPcs /\ p \in Workers
    <2>1. Caught(p) = [Idle("fail") EXCEPT !.job = proc[p].job]
        BY <1>4 DEF Caught
    <2> QED BY <2>1, <1>1, <1>2, <1>4, IdleOnJob DEF Placed, HasRecs
<1>5. CASE proc[p].pc \notin BuildPcs /\ p \notin Workers
    <2>1. Caught(p) = Idle("exit")
        BY <1>5 DEF Caught
    <2> QED BY <2>1, <1>2, <1>5, IdleState DEF ProcState, Placed, HasRecs, RunPcs, BuildPcs, LoadPcs
<1> QED BY <1>3, <1>4, <1>5

LEMMA BecomeTyped ==
    ASSUME Typed, NEW p \in Procs, NEW s \in ProcState, Become(p, s)
    PROVE  proc' \in [Procs -> ProcState]
BY DEF Typed, Become

\* The steps that touch neither the tables nor the files.
LEMMA LocalTyped ==
    ASSUME Typed, proc' \in [Procs -> ProcState], UNCHANGED <<content, spent>>
    PROVE  Typed'
BY DEF Typed, content, Dirs

\* Every write of update_job is one store call or none.
LEMMA StoreUpdateTyped ==
    ASSUME Typed, NEW p \in Procs, Running(p), NEW next \in ProcState,
           NEW status \in {"keep", "running", "done", "failed"},
           StoreUpdate(p, status, next)
    PROVE  proc' \in [Procs -> ProcState] /\ TableStep
<1>1. proc[p].job \in Queue!Jobs
    BY DEF Typed, ProcState, Running, Jobs
<1>2. CASE Queue!UpdateJob(proc[p].job, status, NoChannel) /\ Become(p, next)
    BY <1>1, <1>2, BecomeTyped DEF TableStep, Queue!Next, Queue!Update
<1>3. CASE Become(p, next) /\ UNCHANGED queueVars
    BY <1>3, BecomeTyped DEF TableStep
<1>4. CASE Raise(p)
    BY <1>4, BecomeTyped, CaughtState DEF TableStep, Raise
<1> QED BY <1>2, <1>3, <1>4 DEF StoreUpdate

-----------------------------------------------------------------------------
\* One lemma for each family of steps: it keeps the types and is a store call or none.

LEMMA DaemonTyped ==
    ASSUME Typed, Queue!TypeOK, NEW w \in Procs,
           Reclaim(w) \/ Claim(w) \/ NothingToClaim(w) \/ Fail(w) \/ Log(w) \/ Restart(w)
    PROVE  Typed' /\ TableStep
<1> USE DEF At, Pcs, RunPcs, BuildPcs, LoadPcs
<1>0. proc[w] \in ProcState
    BY DEF Typed
<1>1. CASE Reclaim(w)
    <2>1. [proc[w] EXCEPT !.pc = "claim"] \in ProcState
        BY <1>0, <1>1 DEF Reclaim, ProcState, State, Placed, HasRecs
    <2>2. proc' \in [Procs -> ProcState]
        BY <1>1, <2>1, BecomeTyped DEF Reclaim, Goto
    <2> QED BY <1>1, <2>2, LocalTyped DEF Reclaim, TableStep, Queue!Next
<1>2. CASE Claim(w)
    <2>1. PICK j \in Jobs :
            /\ Queue!ClaimNextQueuedJob(j)
            /\ Become(w, [Idle(IF jobs[j].kind = "update" THEN "known" ELSE "list") EXCEPT
                    !.job = j, !.input = jobs[j].input, !.kind = jobs[j].kind,
                    !.chan = jobs[j].channel,
                    !.gen = IF jobs[j].channel = NoChannel THEN 0 ELSE gen[jobs[j].channel]])
        BY <1>2 DEF Claim
    <2>2. jobs[j] \in Queue!Row
        BY DEF Queue!TypeOK, Jobs
    <2>3. [Idle(IF jobs[j].kind = "update" THEN "known" ELSE "list") EXCEPT
                    !.job = j, !.input = jobs[j].input, !.kind = jobs[j].kind,
                    !.chan = jobs[j].channel,
                    !.gen = IF jobs[j].channel = NoChannel THEN 0 ELSE gen[jobs[j].channel]] \in ProcState
        <3>1. (IF jobs[j].channel = NoChannel THEN 0 ELSE gen[jobs[j].channel]) \in Nat
            BY <2>2 DEF Queue!Row, Typed
        <3> QED BY <2>2, <3>1, Samples, NoRecords DEF Idle, ProcState, State, Placed, HasRecs, Queue!Row, Queue!Kinds
    <2>4. proc' \in [Procs -> ProcState]
        BY <2>1, <2>3, BecomeTyped
    <2> QED BY <1>2, <2>1, <2>4, LocalTyped DEF Claim, TableStep, Queue!Next, Jobs
<1>3. CASE NothingToClaim(w)
    <2>1. [proc[w] EXCEPT !.pc = "poll"] \in ProcState
        BY <1>0, <1>3 DEF NothingToClaim, ProcState, State, Placed, HasRecs
    <2>2. proc' \in [Procs -> ProcState]
        BY <1>3, <2>1, BecomeTyped DEF NothingToClaim, Goto
    <2> QED BY <1>3, <2>2, LocalTyped DEF NothingToClaim, TableStep
<1>4. CASE Fail(w)
    <2>1. Idle("poll") \in ProcState
        BY IdleState DEF ProcState, Placed, HasRecs
    <2>2. proc' \in [Procs -> ProcState] /\ TableStep
        BY <1>4, <2>1, StoreUpdateTyped DEF Fail, Running
    <2> QED BY <1>4, <2>2, LocalTyped DEF Fail
<1>5. CASE Log(w)
    <2>1. Idle("poll") \in ProcState /\ Idle("dead") \in ProcState
        BY IdleState DEF ProcState, Placed, HasRecs
    <2>2. proc' \in [Procs -> ProcState]
        BY <1>5, <2>1, BecomeTyped DEF Log
    <2> QED BY <1>5, <2>2, LocalTyped DEF Log, TableStep
<1>6. CASE Restart(w)
    <2>1. [proc[w] EXCEPT !.pc = "poll"] \in ProcState
        BY <1>0, <1>6 DEF Restart, ProcState, State, Placed, HasRecs
    <2>2. proc' \in [Procs -> ProcState]
        BY <1>6, <2>1, BecomeTyped DEF Restart, Goto
    <2> QED BY <1>6, <2>2, LocalTyped DEF Restart, TableStep
<1> QED BY <1>1, <1>2, <1>3, <1>4, <1>5, <1>6

\* INSERT ... ON CONFLICT keeps every status that is there.
LEMMA UpsertedTyped ==
    ASSUME Typed, NEW vs
    PROVE  Upserted(vs) \in [Videos -> VStatuses]
BY DEF Typed, Upserted, VStatuses

LEMMA DirOfProc ==
    ASSUME Typed, NEW p \in Procs, Running(p)
    PROVE  Dir(p) \in Dirs
BY DEF Typed, ProcState, State, Running, Dir, Dirs

LEMMA BuildTyped ==
    ASSUME Typed, Queue!TypeOK, NEW p \in Procs,
           \/ ReadKnown(p) \/ List(p) \/ Attach(p) \/ NothingNew(p) \/ CheckBundle(p)
           \/ FetchVideo(p) \/ RecordVideo(p) \/ WriteBundle(p) \/ Finish(p) \/ FailBuild(p)
    PROVE  Typed' /\ TableStep
<1> USE DEF At, Pcs, RunPcs, BuildPcs, LoadPcs
<1>0. proc[p] \in ProcState
    BY DEF Typed
<1>1. CASE ReadKnown(p)
    <2>1. ASSUME NEW known \in SUBSET Videos
          PROVE  [proc[p] EXCEPT !.pc = "list", !.known = known] \in ProcState
        BY <1>0, <1>1 DEF ReadKnown, ProcState, State, Placed, HasRecs
    <2>2. proc' \in [Procs -> ProcState]
        BY <1>1, <2>1, BecomeTyped DEF ReadKnown
    <2> QED BY <1>1, <2>2, LocalTyped DEF ReadKnown, TableStep
<1>2. CASE List(p)
    <2> DEFINE c == Resolves[proc[p].input]
    <2>1. PICK listed \in Listings[c] :
            /\ Queue!UpsertChannel(c)
            /\ vstatus' = Upserted(listed)
            /\ \E next \in {"nothing", "check", "attach"} :
                 /\ next = "nothing" => listed \ proc[p].known = {}
                 /\ Become(p, [proc[p] EXCEPT !.pc = next, !.chan = c, !.gen = gen[c],
                                              !.todo = listed \ proc[p].known, !.known = {}])
        BY <1>2 DEF List
    <2>2. c \in Channels /\ gen[c] \in Nat
        BY <1>0, InputsAssumption DEF Typed, ProcState, State
    <2>3. listed \subseteq Videos
        BY <2>1, <2>2, InputsAssumption
    <2>4. ASSUME NEW next \in {"nothing", "check", "attach"},
                 next = "nothing" => listed \ proc[p].known = {}
          PROVE  [proc[p] EXCEPT !.pc = next, !.chan = c, !.gen = gen[c],
                                 !.todo = listed \ proc[p].known, !.known = {}] \in ProcState
        <3> DEFINE s == [proc[p] EXCEPT !.pc = next, !.chan = c, !.gen = gen[c],
                                        !.todo = listed \ proc[p].known, !.known = {}]
        <3>1. s \in State
            BY <1>0, <2>2, <2>3 DEF ProcState, State
        <3>2. /\ s.pc = next /\ s.chan = c /\ s.job = proc[p].job /\ s.recs = proc[p].recs
              /\ s.todo = listed \ proc[p].known
            BY <1>0 DEF ProcState, State
        <3>3. proc[p].job \in Jobs /\ proc[p].recs = <<>> /\ listed \subseteq Vids(c)
            BY <1>0, <1>2, <2>1 DEF List, ProcState, HasRecs, Vids
        <3>4. s \in ProcState
            <4> HIDE DEF s
            <4> QED BY <2>2, <2>4, <3>1, <3>2, <3>3, NoRecords DEF ProcState, Placed, HasRecs
        <3> QED BY <3>4
    <2>5. proc' \in [Procs -> ProcState]
        BY <2>1, <2>4, BecomeTyped
    <2>6. vstatus' \in [Videos -> VStatuses]
        BY <2>1, UpsertedTyped
    <2>7. TableStep
        BY <2>1, <2>2 DEF TableStep, Queue!Next
    <2> QED BY <1>2, <2>5, <2>6, <2>7 DEF List, Typed, Dirs
<1>3. CASE Attach(p)
    <2>1. [proc[p] EXCEPT !.pc = "check"] \in ProcState
        BY <1>0, <1>3 DEF Attach, ProcState, State, Placed, HasRecs
    <2>2. proc[p].job \in Queue!Jobs /\ proc[p].chan \in Channels
        BY <1>0, <1>3 DEF Attach, ProcState, Jobs, Placed, HasRecs
    <2>3. CASE Queue!UpdateJob(proc[p].job, "keep", proc[p].chan) /\ Goto(p, "check")
        <3>1. proc' \in [Procs -> ProcState]
            BY <2>1, <2>3, BecomeTyped DEF Goto
        <3>2. TableStep
            BY <2>2, <2>3 DEF TableStep, Queue!Next, Queue!Update
        <3> QED BY <1>3, <3>1, <3>2, LocalTyped DEF Attach
    <2>4. CASE Goto(p, "check") /\ UNCHANGED queueVars
        <3>1. proc' \in [Procs -> ProcState]
            BY <2>1, <2>4, BecomeTyped DEF Goto
        <3> QED BY <1>3, <2>4, <3>1, LocalTyped DEF Attach, TableStep
    <2>5. CASE Raise(p)
        <3>1. proc' \in [Procs -> ProcState]
            BY <1>3, <2>5, BecomeTyped, CaughtState DEF Attach, Raise, Running
        <3> QED BY <1>3, <2>5, <3>1, LocalTyped DEF Attach, Raise, TableStep
    <2> QED BY <1>3, <2>3, <2>4, <2>5 DEF Attach
<1>4. CASE NothingNew(p)
    <2>1. [proc[p] EXCEPT !.pc = "getJob"] \in ProcState
        BY <1>0, <1>4 DEF NothingNew, ProcState, State, Placed, HasRecs
    <2>2. proc' \in [Procs -> ProcState] /\ TableStep
        BY <1>4, <2>1, StoreUpdateTyped DEF NothingNew, Running
    <2> QED BY <1>4, <2>2, LocalTyped DEF NothingNew
<1>5. CASE CheckBundle(p)
    <2>1. /\ [proc[p] EXCEPT !.pc = "open", !.todo = {}] \in ProcState
          /\ [proc[p] EXCEPT !.pc = "fetch"] \in ProcState
        BY <1>0, <1>5 DEF CheckBundle, ProcState, State, Placed, HasRecs
    <2>2. proc' \in [Procs -> ProcState] /\ TableStep
        BY <1>5, <2>1, StoreUpdateTyped DEF CheckBundle, Running
    <2> QED BY <1>5, <2>2, LocalTyped DEF CheckBundle
<1>6. CASE FetchVideo(p)
    <2>1. PICK v \in proc[p].todo, out \in Outcomes :
            /\ vstatus' = IF SameChannelRow(p) THEN [vstatus EXCEPT ![v] = Fetched(out)]
                          ELSE vstatus
            /\ Become(p, [proc[p] EXCEPT !.pc = "record", !.video = v,
                                         !.drafts = out = "captions"])
        BY <1>6 DEF FetchVideo
    <2>2. Fetched(out) \in VStatuses /\ v \in Videos
        BY <1>0, InputsAssumption DEF Fetched, VStatuses, ProcState, State
    <2>3. [proc[p] EXCEPT !.pc = "record", !.video = v, !.drafts = out = "captions"] \in ProcState
        BY <1>0, <1>6, <2>2 DEF FetchVideo, ProcState, State, Placed, HasRecs
    <2>4. proc' \in [Procs -> ProcState]
        BY <2>1, <2>3, BecomeTyped
    <2>5. vstatus' \in [Videos -> VStatuses]
        BY <2>1, <2>2 DEF Typed
    <2> QED BY <1>6, <2>4, <2>5 DEF FetchVideo, Typed, TableStep, Dirs
<1>7. CASE RecordVideo(p)
    <2> DEFINE v == proc[p].video
               r == [status |-> vstatus[v], drafts |-> proc[p].drafts]
               done == proc[p].recs
               recs == [w \in DOMAIN done \cup {v} |-> IF w = v THEN r ELSE done[w]]
               next == [proc[p] EXCEPT !.pc = "fetch", !.todo = @ \ {v}, !.drafts = FALSE,
                                       !.recs = recs]
    <2>1. recs \in Records
        <3>1. v \in Videos /\ r \in Record
            BY <1>0 DEF Typed, ProcState, State, Record
        <3>2. PICK D \in SUBSET Videos : done \in [D -> Record]
            BY <1>0 DEF ProcState, State, Records
        <3>3. recs \in [D \cup {v} -> Record]
            BY <3>1, <3>2
        <3> QED BY <3>1, <3>3 DEF Records
    <2>9. DOMAIN recs = DOMAIN done \cup {v}
        OBVIOUS
    <2>2. next \in ProcState
        <3> HIDE DEF recs
        <3>1. next \in State
            BY <1>0, <2>1 DEF ProcState, State
        <3>2. /\ next.pc = "fetch" /\ next.chan = proc[p].chan /\ next.job = proc[p].job
              /\ next.recs = recs /\ next.todo = proc[p].todo \ {v}
            BY <1>0 DEF ProcState, State
        <3>3. /\ proc[p].chan \in Channels /\ proc[p].job \in Jobs
              /\ v \in Vids(proc[p].chan)
              /\ DOMAIN done \subseteq Vids(proc[p].chan)
              /\ proc[p].todo \subseteq Vids(proc[p].chan)
            BY <1>0, <1>7 DEF RecordVideo, ProcState, Placed
        <3> HIDE DEF next
        <3> QED BY <2>9, <3>1, <3>2, <3>3, TableAssumption DEF ProcState, Placed, HasRecs
    <2>3. CASE StoreUpdate(p, "keep", next)
        <3> HIDE DEF next
        <3>1. proc' \in [Procs -> ProcState] /\ TableStep
            BY <1>7, <2>2, <2>3, StoreUpdateTyped DEF RecordVideo, Running
        <3> QED BY <1>7, <3>1, LocalTyped DEF RecordVideo
    <2>4. CASE Raise(p)
        <3>1. proc' \in [Procs -> ProcState]
            BY <1>7, <2>4, BecomeTyped, CaughtState DEF RecordVideo, Raise, Running
        <3> QED BY <1>7, <2>4, <3>1, LocalTyped DEF RecordVideo, Raise, TableStep
    <2> QED BY <1>7, <2>3, <2>4 DEF RecordVideo
<1>8. CASE WriteBundle(p)
    <2>1. [proc[p] EXCEPT !.pc = "finish", !.recs = <<>>] \in ProcState
        BY <1>0, <1>8, NoRecords DEF WriteBundle, ProcState, State, Placed, HasRecs
    <2>2. proc' \in [Procs -> ProcState]
        BY <1>8, <2>1, BecomeTyped DEF WriteBundle
    <2>3. [chan |-> proc[p].chan, recs |-> proc[p].recs] \in Bundles
        BY <1>0, <1>8 DEF WriteBundle, ProcState, State, Placed, HasRecs, Bundles
    <2>4. bundle' \in [Dirs -> Bundles]
        BY <1>8, <2>3 DEF WriteBundle, Typed
    <2> QED BY <1>8, <2>2, <2>4 DEF WriteBundle, Typed, TableStep, Dirs
<1>9. CASE Finish(p)
    <2>1. [proc[p] EXCEPT !.pc = "open"] \in ProcState
        BY <1>0, <1>9 DEF Finish, ProcState, State, Placed, HasRecs
    <2>2. proc' \in [Procs -> ProcState] /\ TableStep
        BY <1>9, <2>1, StoreUpdateTyped DEF Finish, Running
    <2> QED BY <1>9, <2>2, LocalTyped DEF Finish
<1>10. CASE FailBuild(p)
    <2>1. Caught(p) \in ProcState
        BY <1>10, CaughtState DEF FailBuild, Running
    <2>2. proc' \in [Procs -> ProcState] /\ TableStep
        BY <1>10, <2>1, StoreUpdateTyped DEF FailBuild, Running
    <2> QED BY <1>10, <2>2, LocalTyped DEF FailBuild
<1> QED BY <1>1, <1>2, <1>3, <1>4, <1>5, <1>6, <1>7, <1>8, <1>9, <1>10

LEMMA LoadTyped ==
    ASSUME Typed, Queue!TypeOK, NEW p \in Procs,
           \/ OpenBundle(p) \/ LoadVideo(p) \/ EmbedChunks(p) \/ MarkEmbedded(p)
           \/ LoadDone(p) \/ GetJob(p)
    PROVE  Typed' /\ TableStep
<1> USE DEF At, Pcs, RunPcs, BuildPcs, LoadPcs
<1>0. proc[p] \in ProcState
    BY DEF Typed
<1>1. CASE OpenBundle(p)
    <2> DEFINE b == bundle[Dir(p)]
    <2>1. b \in Bundles
        BY <1>1, DirOfProc DEF OpenBundle, Running, Typed
    <2>2. CASE Raise(p)
        <3>1. proc' \in [Procs -> ProcState]
            BY <1>1, <2>2, BecomeTyped, CaughtState DEF OpenBundle, Raise, Running
        <3> QED BY <1>1, <2>2, <3>1, LocalTyped DEF OpenBundle, Raise, TableStep
    <2>3. CASE b # NoBundle /\ ~Raise(p)
        <3>1. /\ b.chan \in Channels /\ b.recs \in Records
              /\ DOMAIN b.recs \subseteq Videos /\ DOMAIN b.recs \subseteq Vids(b.chan)
            BY <2>1, <2>3 DEF Bundles, Records
        <3>2. gen[b.chan] \in Nat
            BY <3>1 DEF Typed
        <3> DEFINE s == [proc[p] EXCEPT !.pc = "load", !.chan = b.chan, !.gen = gen[b.chan],
                                        !.recs = b.recs, !.todo = DOMAIN b.recs]
        <3>6. s \in State
            BY <1>0, <3>1, <3>2 DEF ProcState, State
        <3>7. /\ s.pc = "load" /\ s.chan = b.chan /\ s.job = proc[p].job /\ s.recs = b.recs
              /\ s.todo = DOMAIN b.recs
            BY <1>0 DEF ProcState, State
        <3>8. proc[p].job \in Jobs
            BY <1>0, <1>1 DEF OpenBundle, ProcState
        <3>3. s \in ProcState
            <4> HIDE DEF s
            <4> QED BY <3>1, <3>6, <3>7, <3>8, TableAssumption DEF ProcState, Placed, HasRecs
        <3>4. proc' \in [Procs -> ProcState]
            BY <1>1, <2>3, <3>3, BecomeTyped DEF OpenBundle
        <3>5. TableStep
            BY <1>1, <2>3, <3>1 DEF OpenBundle, TableStep, Queue!Next
        <3> QED BY <1>1, <3>4, <3>5, LocalTyped DEF OpenBundle
    <2> QED BY <1>1, <2>2, <2>3 DEF OpenBundle
<1>2. CASE LoadVideo(p)
    <2>1. PICK v \in proc[p].todo :
        \/ Raise(p) /\ UNCHANGED <<vstatus, chunks>>
        \/ /\ StoreUpdate(p, "keep", [proc[p] EXCEPT !.pc = "embed", !.video = v])
           /\ vstatus' = Upserted({v})
           /\ chunks' = [chunks EXCEPT ![v] = p]
        \/ /\ StoreUpdate(p, "keep", [proc[p] EXCEPT !.todo = proc[p].todo \ {v}])
           /\ vstatus' = [vstatus EXCEPT ![v] = proc[p].recs[v].status]
           /\ UNCHANGED chunks
        BY <1>2 DEF LoadVideo
    <2>2. /\ v \in Videos /\ v \in DOMAIN proc[p].recs
          /\ proc[p].recs[v].status \in VStatuses
        <3>1. v \in proc[p].todo /\ proc[p].todo \subseteq DOMAIN proc[p].recs
            BY <1>0, <1>2 DEF LoadVideo, ProcState
        <3>2. proc[p].recs \in Records
            BY <1>0 DEF ProcState, State
        <3> HIDE DEF At
        <3> QED BY <3>1, <3>2 DEF Records, Record
    <2>3. /\ [proc[p] EXCEPT !.pc = "embed", !.video = v] \in ProcState
          /\ [proc[p] EXCEPT !.todo = proc[p].todo \ {v}] \in ProcState
        BY <1>0, <1>2, <2>2 DEF LoadVideo, ProcState, State, Placed, HasRecs
    <2>4. Running(p)
        BY <1>2 DEF LoadVideo, Running
    <2>5. proc' \in [Procs -> ProcState] /\ TableStep
        <3>1. CASE Raise(p)
            BY <2>4, <3>1, BecomeTyped, CaughtState DEF Raise, TableStep
        <3>2. CASE StoreUpdate(p, "keep", [proc[p] EXCEPT !.pc = "embed", !.video = v])
            BY <2>3, <2>4, <3>2, StoreUpdateTyped
        <3>3. CASE StoreUpdate(p, "keep", [proc[p] EXCEPT !.todo = proc[p].todo \ {v}])
            BY <2>3, <2>4, <3>3, StoreUpdateTyped
        <3> QED BY <2>1, <3>1, <3>2, <3>3
    <2>6. vstatus' \in [Videos -> VStatuses] /\ chunks' \in [Videos -> {"none", "searchable"} \cup Procs]
        BY <2>1, <2>2, UpsertedTyped DEF Typed
    <2> QED BY <1>2, <2>5, <2>6 DEF LoadVideo, Typed, Dirs
<1>3. CASE EmbedChunks(p)
    <2>1. [proc[p] EXCEPT !.pc = "mark"] \in ProcState
        BY <1>0, <1>3 DEF EmbedChunks, ProcState, State, Placed, HasRecs
    <2>2. proc' \in [Procs -> ProcState]
        BY <1>3, <2>1, BecomeTyped DEF EmbedChunks, Goto
    <2>3. chunks' \in [Videos -> {"none", "searchable"} \cup Procs]
        BY <1>3 DEF EmbedChunks, Typed
    <2> QED BY <1>3, <2>2, <2>3 DEF EmbedChunks, Typed, TableStep, Dirs
<1>4. CASE MarkEmbedded(p)
    <2>1. [proc[p] EXCEPT !.pc = "load", !.todo = @ \ {proc[p].video}] \in ProcState
        BY <1>0, <1>4 DEF MarkEmbedded, ProcState, State, Placed, HasRecs
    <2>2. proc' \in [Procs -> ProcState]
        BY <1>4, <2>1, BecomeTyped DEF MarkEmbedded
    <2>3. vstatus' \in [Videos -> VStatuses]
        BY <1>4 DEF MarkEmbedded, Typed, VStatuses
    <2> QED BY <1>4, <2>2, <2>3 DEF MarkEmbedded, Typed, TableStep, Dirs
<1>5. CASE LoadDone(p)
    <2>1. [proc[p] EXCEPT !.pc = "getJob"] \in ProcState
        BY <1>0, <1>5 DEF LoadDone, ProcState, State, Placed, HasRecs
    <2>2. proc' \in [Procs -> ProcState]
        BY <1>5, <2>1, BecomeTyped DEF LoadDone, Goto
    <2> QED BY <1>5, <2>2, LocalTyped DEF LoadDone, TableStep
<1>6. CASE GetJob(p)
    <2>1. Running(p) /\ proc[p].job \in Jobs
        BY <1>0, <1>6 DEF GetJob, Running, ProcState
    <2>2. [Idle("log") EXCEPT !.job = proc[p].job] \in ProcState
        BY <2>1, IdleOnJob DEF Placed, HasRecs
    <2>3. Idle("exit") \in ProcState
        BY IdleState DEF ProcState, Placed, HasRecs
    <2>4. proc' \in [Procs -> ProcState]
        BY <1>6, <2>1, <2>2, <2>3, CaughtState, BecomeTyped DEF GetJob
    <2> QED BY <1>6, <2>4, LocalTyped DEF GetJob, TableStep
<1> QED BY <1>1, <1>2, <1>3, <1>4, <1>5, <1>6

LEMMA SpendTyped ==
    ASSUME Typed, NEW k \in DOMAIN Budget, Spend(k)
    PROVE  /\ spent' \in [DOMAIN Budget -> Nat]
           /\ \A i \in DOMAIN Budget : spent'[i] <= Budget[i]
<1>1. Budget[k] \in Nat /\ spent[k] \in Nat
    BY BudgetAssumption DEF Typed
<1>2. spent[k] + 1 \in Nat /\ spent[k] + 1 <= Budget[k]
    BY <1>1 DEF Spend
<1>3. spent' = [spent EXCEPT ![k] = spent[k] + 1]
    BY DEF Spend
<1> QED BY <1>2, <1>3 DEF Typed

LEMMA FaultTyped ==
    ASSUME Typed, Queue!TypeOK, NEW p \in Procs, Crash(p) \/ Fault(p) \/ EmbedFault(p)
    PROVE  Typed' /\ TableStep
<1> USE DEF At, Pcs, RunPcs, BuildPcs, LoadPcs
<1>0. proc[p] \in ProcState
    BY DEF Typed
<1>a. {"crash", "fault", "retry", "delete"} = DOMAIN Budget
    BY BudgetAssumption
<1>b. Idle("dead") \in ProcState /\ Idle("exit") \in ProcState
    BY IdleState DEF ProcState, Placed, HasRecs
<1>1. CASE Crash(p)
    <2>1. proc' \in [Procs -> ProcState]
        BY <1>1, <1>b, BecomeTyped DEF Crash
    <2> QED BY <1>1, <1>a, <2>1, SpendTyped DEF Crash, content, Typed, TableStep, Dirs
<1>2. CASE Fault(p)
    <2>1. proc' \in [Procs -> ProcState]
        BY <1>2, <1>b, BecomeTyped, CaughtState DEF Fault
    <2> QED BY <1>2, <1>a, <2>1, SpendTyped DEF Fault, content, Typed, TableStep, Dirs
<1>3. CASE EmbedFault(p)
    <2>1. proc' \in [Procs -> ProcState]
        BY <1>3, BecomeTyped, CaughtState DEF EmbedFault, Running
    <2>2. vstatus' \in [Videos -> VStatuses]
        BY <1>3 DEF EmbedFault, Typed, VStatuses
    <2> QED BY <1>3, <1>a, <2>1, <2>2, SpendTyped DEF EmbedFault, Typed, TableStep, Dirs
<1> QED BY <1>1, <1>2, <1>3

LEMMA UserTyped ==
    ASSUME Typed, Queue!TypeOK,
           \/ \E i \in Inputs : EnqueueIngest(i)
           \/ \E c \in Channels : EnqueueUpdate(c) \/ DeleteChannel(c) \/ PurgeBundles(c)
           \/ \E j \in Jobs : RetryJob(j) \/ CancelJob(j) \/ HeartbeatLapses(j)
    PROVE  Typed' /\ TableStep
<1>a. {"crash", "fault", "retry", "delete"} = DOMAIN Budget
    BY BudgetAssumption
<1>1. ASSUME NEW i \in Inputs, EnqueueIngest(i)
      PROVE  Typed' /\ TableStep
    <2>1. Resolves[i] \in Channels
        BY InputsAssumption
    <2>2. TableStep
        BY <1>1, <2>1 DEF EnqueueIngest, TableStep, Queue!Next, Queue!Create, Queue!Kinds,
                          Queue!ActiveStatuses, Jobs
    <2> QED BY <1>1, <2>2, LocalTyped DEF EnqueueIngest, Typed
<1>2. ASSUME NEW c \in Channels, EnqueueUpdate(c)
      PROVE  Typed' /\ TableStep
    <2>1. Handle[c] \in Inputs
        BY InputsAssumption
    <2>2. TableStep
        BY <1>2, <2>1 DEF EnqueueUpdate, TableStep, Queue!Next, Queue!Create, Queue!Kinds,
                          Queue!ActiveStatuses, Jobs
    <2> QED BY <1>2, <2>2, LocalTyped DEF EnqueueUpdate, Typed
<1>3. ASSUME NEW c \in Channels, DeleteChannel(c)
      PROVE  Typed' /\ TableStep
    <2>1. /\ gen' \in [Channels -> Nat]
          /\ vstatus' \in [Videos -> VStatuses]
          /\ chunks' \in [Videos -> {"none", "searchable"} \cup Procs]
          /\ purging' \subseteq Channels
        BY <1>3 DEF DeleteChannel, Typed, VStatuses
    <2>2. TableStep
        BY <1>3 DEF DeleteChannel, TableStep, Queue!Next
    <2> QED BY <1>3, <1>a, <2>1, <2>2, SpendTyped DEF DeleteChannel, Typed, Dirs
<1>4. ASSUME NEW c \in Channels, PurgeBundles(c)
      PROVE  Typed' /\ TableStep
    <2>1. purging' \subseteq Channels /\ bundle' \in [Dirs -> Bundles]
        BY <1>4 DEF PurgeBundles, Typed, Bundles
    <2> QED BY <1>4, <2>1 DEF PurgeBundles, Typed, TableStep, Dirs
<1>5. ASSUME NEW j \in Jobs, RetryJob(j)
      PROVE  Typed' /\ TableStep
    <2>1. TableStep
        BY <1>5 DEF RetryJob, TableStep, Queue!Next, Jobs
    <2> QED BY <1>5, <1>a, <2>1, SpendTyped DEF RetryJob, content, Typed, Dirs
<1>6. ASSUME NEW j \in Jobs, CancelJob(j)
      PROVE  Typed' /\ TableStep
    <2>1. TableStep
        BY <1>6 DEF CancelJob, TableStep, Queue!Next, Jobs
    <2> QED BY <1>6, <2>1, LocalTyped DEF CancelJob, Typed
<1>7. ASSUME NEW j \in Jobs, HeartbeatLapses(j)
      PROVE  Typed' /\ TableStep
    <2>1. TableStep
        BY <1>7 DEF HeartbeatLapses, TableStep, Queue!Next, Jobs
    <2> QED BY <1>7, <2>1, LocalTyped DEF HeartbeatLapses, Typed
<1> QED BY <1>1, <1>2, <1>3, <1>4, <1>5, <1>6, <1>7

LEMMA InlineTyped ==
    ASSUME Typed, Queue!TypeOK, NEW p \in Procs,
           InlineCreate(p) \/ InlineRefused(p) \/ \E i \in Inputs : InlineList(p, i)
    PROVE  Typed' /\ TableStep
<1> USE DEF At, Pcs, RunPcs, BuildPcs, LoadPcs
<1>0. proc[p] \in ProcState
    BY DEF Typed
<1>1. ASSUME NEW i \in Inputs, InlineList(p, i)
      PROVE  Typed' /\ TableStep
    <2> DEFINE c == Resolves[i]
               s == [Idle("create") EXCEPT !.input = i, !.chan = c, !.gen = gen[c]]
    <2>1. c \in Channels /\ gen[c] \in Nat
        BY InputsAssumption DEF Typed
    <2>2. s \in ProcState
        BY <2>1, Samples, NoRecords, TableAssumption
           DEF Idle, ProcState, State, Placed, HasRecs, Queue!Kinds
    <2>3. proc' \in [Procs -> ProcState]
        <3> HIDE DEF s
        <3>1. Become(p, s)
            BY <1>1 DEF InlineList, s
        <3> QED BY <2>2, <3>1, BecomeTyped
    <2>4. vstatus' \in [Videos -> VStatuses]
        BY <1>1, UpsertedTyped DEF InlineList
    <2>5. TableStep
        BY <1>1, <2>1 DEF InlineList, TableStep, Queue!Next
    <2> QED BY <1>1, <2>3, <2>4, <2>5 DEF InlineList, Typed, Dirs
<1>2. CASE InlineCreate(p)
    <2>1. PICK j \in Jobs :
            /\ Queue!CreateJob(j, proc[p].chan, proc[p].input, "ingest", "running")
            /\ Become(p, [proc[p] EXCEPT !.pc = "list", !.job = j])
        BY <1>2 DEF InlineCreate
    <2>2. [proc[p] EXCEPT !.pc = "list", !.job = j] \in ProcState
        BY <1>0, <1>2 DEF InlineCreate, ProcState, State, Placed, HasRecs
    <2>3. proc' \in [Procs -> ProcState]
        BY <2>1, <2>2, BecomeTyped
    <2>4. TableStep
        BY <1>0, <2>1 DEF TableStep, Queue!Next, Queue!Create, Queue!Kinds,
                          Queue!ActiveStatuses, Jobs, ProcState, State
    <2> QED BY <1>2, <2>3, <2>4, LocalTyped DEF InlineCreate
<1>3. CASE InlineRefused(p)
    <2>1. Idle("exit") \in ProcState
        BY IdleState DEF ProcState, Placed, HasRecs
    <2>2. proc' \in [Procs -> ProcState]
        BY <1>3, <2>1, BecomeTyped DEF InlineRefused
    <2> QED BY <1>3, <2>2, LocalTyped DEF InlineRefused, TableStep
<1> QED BY <1>1, <1>2, <1>3

LEMMA NextTyped == Typed /\ Queue!TypeOK /\ Next => Typed' /\ TableStep
<1> SUFFICES ASSUME Typed, Queue!TypeOK, Next PROVE Typed' /\ TableStep
    OBVIOUS
<1>1. ASSUME NEW w \in Workers, WorkerStep(w) PROVE Typed' /\ TableStep
    <2>1. w \in Procs
        BY DEF Procs
    <2> QED BY <1>1, <2>1, DaemonTyped, BuildTyped, LoadTyped DEF WorkerStep, RunStep
<1>2. ASSUME NEW p \in Clis, CliStep(p) PROVE Typed' /\ TableStep
    <2>1. p \in Procs
        BY DEF Procs
    <2> QED BY <1>2, <2>1, InlineTyped, BuildTyped, LoadTyped DEF CliStep, RunStep
<1>3. CASE UserStep
    <2>1. ASSUME NEW p \in Clis PROVE p \in Procs
        BY DEF Procs
    <2> QED BY <1>3, <2>1, UserTyped, InlineTyped DEF UserStep
<1>4. CASE \/ \E p \in Procs : Crash(p) \/ Fault(p) \/ EmbedFault(p)
           \/ \E j \in Jobs : HeartbeatLapses(j)
           \/ \E c \in Channels : PurgeBundles(c)
    BY <1>4, FaultTyped, UserTyped
<1> QED BY <1>1, <1>2, <1>3, <1>4 DEF Next

LEMMA InitTyped == Init => Typed /\ Queue!Init
<1> SUFFICES ASSUME Init PROVE Typed
    BY DEF Init
<1>1. ASSUME NEW l \in {"poll", "idle"} PROVE Idle(l) \in ProcState
    BY IdleState DEF ProcState, Placed, HasRecs, Pcs, RunPcs, BuildPcs, LoadPcs
<1>2. proc \in [Procs -> ProcState]
    BY <1>1 DEF Init
<1>3. spent \in [DOMAIN Budget -> Nat] /\ \A k \in DOMAIN Budget : spent[k] <= Budget[k]
    BY BudgetAssumption DEF Init
<1> QED BY <1>2, <1>3 DEF Init, Typed, VStatuses, Bundles

LEMMA SameTable ==
    /\ Queue!Init <=> Table!Init
    /\ Queue!TypeOK <=> Table!TypeOK
    /\ Queue!Next <=> Table!Next
<1>1. Queue!Init <=> Table!Init
    BY DEF Queue!Init, Table!Init, Queue!Jobs, Table!Jobs
<1>2. Queue!TypeOK <=> Table!TypeOK
    BY DEF Queue!TypeOK, Table!TypeOK, Queue!Jobs, Table!Jobs, Queue!Row, Table!Row, Queue!Statuses,
       Table!Statuses, Queue!ActiveStatuses, Table!ActiveStatuses, Queue!Kinds, Table!Kinds
<1>3. Queue!Next <=> Table!Next
    BY Zenon DEF Queue!Next, Table!Next, Queue!Create, Table!Create, Queue!Update, Table!Update,
       Queue!UpsertChannel, Table!UpsertChannel, Queue!DeleteChannel, Table!DeleteChannel,
       Queue!CreateJob, Table!CreateJob, Queue!UpdateJob, Table!UpdateJob, Queue!Updated,
       Table!Updated, Queue!Collides, Table!Collides, Queue!SameKey, Table!SameKey,
       Queue!ClaimNextQueuedJob, Table!ClaimNextQueuedJob, Queue!RetryJob, Table!RetryJob,
       Queue!CancelJob, Table!CancelJob, Queue!HeartbeatLapses, Table!HeartbeatLapses,
       Queue!ReclaimStaleJobs, Table!ReclaimStaleJobs, Queue!Reclaimable, Table!Reclaimable,
       Queue!Reclaimed, Table!Reclaimed, Queue!Live, Table!Live, Queue!Jobs, Table!Jobs,
       Queue!Kinds, Table!Kinds, Queue!Statuses, Table!Statuses, Queue!ActiveStatuses,
       Table!ActiveStatuses
<1> QED BY <1>1, <1>2, <1>3

\* The first layer.
Shape == Typed /\ Table!IInv

LEMMA InitShape == Init => Shape /\ Queue!Init
BY InitTyped, SameTable, Table!InitIInv, TableAssumption DEF Shape

LEMMA NextShape == Shape /\ [Next]_vars => Shape' /\ [Queue!Next]_queueVars
<1> SUFFICES ASSUME Shape, [Next]_vars PROVE Shape' /\ [Queue!Next]_queueVars
    OBVIOUS
<1>0. Queue!TypeOK
    BY SameTable DEF Shape, Table!IInv
<1>1. CASE Next
    <2>1. Typed' /\ TableStep
        BY <1>0, <1>1, NextTyped DEF Shape
    <2>2. Table!IInv'
        BY <2>1, SameTable, Table!NextKeepsIInv, TableAssumption DEF TableStep, queueVars, Table!vars, Shape
    <2> QED BY <2>1, <2>2 DEF Shape, TableStep
<1>2. CASE UNCHANGED vars
    <2>1. Typed'
        BY <1>2 DEF Shape, Typed, vars, content, queueVars, Dirs
    <2>2. Table!IInv'
        BY <1>2, Table!NextKeepsIInv, TableAssumption DEF queueVars, Table!vars, vars, Shape
    <2> QED BY <1>2, <2>1, <2>2 DEF Shape, vars
<1> QED BY <1>1, <1>2

\* Every reachable state is well formed: the types hold at every program counter of a run
\* (core/ingest/pipeline.py), and the table of jobs satisfies the invariant of JobQueueProofs.
THEOREM ShapeInvariant == Spec => []Shape
<1>1. Init => Shape
    BY InitShape
<1>2. Shape /\ [Next]_vars => Shape'
    BY NextShape
<1> QED BY <1>1, <1>2, PTL DEF Spec

\* Type correctness of the pipeline, for all constants.
THEOREM TypeCorrectness == Spec => []TypeOK
<1>1. Shape => TypeOK
    <2> SUFFICES ASSUME Shape PROVE TypeOK
        OBVIOUS
    <2>1. Queue!TypeOK
        BY SameTable DEF Shape, Table!IInv
    <2>2. \A d \in Dirs : bundle[d].chan \in Channels \cup {NoChannel} /\ bundle[d].recs \in Records
        BY NoRecords DEF Shape, Typed, Bundles, NoBundle
    <2>3. \A p \in Procs : /\ proc[p].pc \in Pcs
                           /\ proc[p].job \in Jobs \cup {0}
                           /\ proc[p].recs \in Records
                           /\ proc[p].todo \cup proc[p].known \subseteq Videos
        BY DEF Shape, Typed, ProcState, State
    <2>4. \A k \in DOMAIN Budget : spent[k] \in 0..Budget[k]
        BY BudgetAssumption DEF Shape, Typed
    <2> QED BY <2>1, <2>2, <2>3, <2>4 DEF Shape, Typed, TypeOK
<1> QED BY <1>1, ShapeInvariant, PTL

\* The pipeline uses the table ingest_jobs only through the calls of the store (core/store/pgvector_store.py):
\* every behaviour of it is, seen at the table, a behaviour of JobQueue.
THEOREM ImplementsTable == Spec => ImplementsQueue
<1>1. Init => Queue!Init
    BY InitShape
<1>2. Shape /\ [Next]_vars => [Queue!Next]_Queue!vars
    BY NextShape DEF queueVars, Queue!vars
<1> QED BY <1>1, <1>2, ShapeInvariant, PTL DEF Spec, ImplementsQueue, Queue!Spec

-----------------------------------------------------------------------------
\* A run that completed: Loaded.

\* The row of the channel a run has seen is at most as new as the table's; while it is the same one it is there.
RowKnown(p) == proc[p].chan \in Channels =>
    /\ proc[p].gen <= gen[proc[p].chan]
    /\ proc[p].gen = gen[proc[p].chan] => proc[p].chan \in channels

\* The places between the opening of the bundle and the last look at the job.
Loading == {"load", "embed", "mark", "getJob"}
\* The chunks of v are stored, and p is not about to delete and restore them.
Safe(p, v) == chunks[v] \in {"searchable"} \cup (Procs \ {p})
\* What p has loaded of its channel is searchable, or somebody else is storing it.
LoadedSoFar(p) ==
    proc[p].pc \in Loading /\ SameChannelRow(p) =>
        /\ \A v \in DOMAIN proc[p].recs \ proc[p].todo : proc[p].recs[v].drafts => Safe(p, v)
        /\ At(p, "embed") => chunks[proc[p].video] \in {"searchable"} \cup Procs
        /\ At(p, "mark") => Safe(p, proc[p].video)

Loaded == \A p \in Procs : RowKnown(p) /\ LoadedSoFar(p)

\* What a step of somebody else leaves alone.
Undisturbed(q) ==
    /\ proc'[q] = proc[q]
    /\ \A c \in Channels : /\ gen[c] <= gen'[c]
                           /\ gen'[c] = gen[c] /\ c \in channels => c \in channels'
    /\ \A c \in channels : gen'[c] = gen[c] =>
            \A v \in Vids(c) : chunks'[v] \in {chunks[v], "searchable"} \cup (Procs \ {q})

LEMMA UndisturbedLoad ==
    ASSUME Shape, Shape', NEW q \in Procs, RowKnown(q), LoadedSoFar(q), Undisturbed(q)
    PROVE  RowKnown(q)' /\ LoadedSoFar(q)'
<1> DEFINE c == proc[q].chan
<1>0. proc[q] \in ProcState /\ gen \in [Channels -> Nat] /\ gen' \in [Channels -> Nat]
    BY DEF Shape, Typed
<1>1. RowKnown(q)'
    <2> SUFFICES ASSUME c \in Channels
                 PROVE  proc[q].gen <= gen'[c] /\ (proc[q].gen = gen'[c] => c \in channels')
        BY DEF RowKnown, Undisturbed
    <2>1. gen[c] \in Nat /\ proc[q].gen \in Nat /\ gen'[c] \in Nat
        BY <1>0 DEF ProcState, State
    <2> QED BY <2>1 DEF RowKnown, Undisturbed
<1>2. LoadedSoFar(q)'
    <2> SUFFICES ASSUME proc[q].pc \in Loading, c \in channels', proc[q].gen = gen'[c]
                 PROVE  /\ \A v \in DOMAIN proc[q].recs \ proc[q].todo :
                              proc[q].recs[v].drafts => Safe(q, v)'
                        /\ At(q, "embed") => chunks'[proc[q].video] \in {"searchable"} \cup Procs
                        /\ At(q, "mark") => Safe(q, proc[q].video)'
        BY DEF LoadedSoFar, SameChannelRow, Undisturbed, At, Safe
    <2>0. c \in Channels
        BY DEF Shape, Table!IInv, Table!TypeOK
    <2>1. gen[c] = gen'[c] /\ c \in channels /\ SameChannelRow(q)
        <3>1. gen[c] \in Nat /\ proc[q].gen \in Nat /\ gen'[c] \in Nat
            BY <1>0, <2>0 DEF ProcState, State
        <3> QED BY <2>0, <3>1 DEF RowKnown, Undisturbed, SameChannelRow
    <2>2. DOMAIN proc[q].recs \subseteq Vids(c)
        BY <1>0, <2>0 DEF ProcState
    <2>3. proc[q].pc \in {"embed", "mark"} => proc[q].video \in Vids(c)
        BY <1>0, <2>2 DEF ProcState
    <2>4. \A v \in Vids(c) : chunks'[v] \in {chunks[v], "searchable"} \cup (Procs \ {q})
        BY <2>1 DEF Undisturbed
    <2>5. \A v \in Vids(c) : Safe(q, v) => Safe(q, v)'
        BY <2>4 DEF Safe
    <2>6. \A v \in DOMAIN proc[q].recs \ proc[q].todo : proc[q].recs[v].drafts => Safe(q, v)'
        BY <2>1, <2>2, <2>5 DEF LoadedSoFar
    <2>7. At(q, "embed") => chunks'[proc[q].video] \in {"searchable"} \cup Procs
        BY <2>1, <2>3, <2>4 DEF LoadedSoFar, At
    <2>8. At(q, "mark") => Safe(q, proc[q].video)'
        BY <2>1, <2>3, <2>5 DEF LoadedSoFar, At, Undisturbed
    <2> QED BY <2>6, <2>7, <2>8
<1> QED BY <1>1, <1>2

\* The step of p keeps what is loaded: its own part, and what the others see.
Loads(p) == RowKnown(p) /\ LoadedSoFar(p)
OthersKept(p) == \A q \in Procs \ {p} : Undisturbed(q)

LEMMA OthersOfActor ==
    ASSUME Shape, NEW p \in Procs, NEW s, Become(p, s),
           gen' = gen, channels \subseteq channels',
           \A v \in Videos : chunks'[v] \in {chunks[v], "searchable", p}
    PROVE  OthersKept(p)
<1> SUFFICES ASSUME NEW q \in Procs \ {p} PROVE Undisturbed(q)
    BY DEF OthersKept
<1>1. proc'[q] = proc[q]
    BY DEF Shape, Typed, Become
<1>2. \A c \in Channels : gen[c] <= gen'[c]
    BY DEF Shape, Typed
<1>3. \A c \in channels : Vids(c) \subseteq Videos
    BY InputsAssumption DEF Vids, Shape, Table!IInv, Table!TypeOK
<1> QED BY <1>1, <1>2, <1>3 DEF Undisturbed

LEMMA MovesOn ==
    ASSUME Shape, Shape', Loaded, NEW p \in Procs, NEW s, Become(p, s),
           gen' = gen, channels \subseteq channels', s.pc \notin Loading,
           \/ s.chan = NoChannel
           \/ s.chan = proc[p].chan /\ s.gen = proc[p].gen
           \/ s.chan \in channels' /\ s.gen = gen[s.chan]
    PROVE  Loads(p)'
<1>1. proc'[p] = s
    BY DEF Shape, Typed, Become
<1>2. LoadedSoFar(p)'
    BY <1>1 DEF LoadedSoFar
<1>3. RowKnown(p)'
    <2> SUFFICES ASSUME s.chan \in Channels
                 PROVE  s.gen <= gen[s.chan] /\ (s.gen = gen[s.chan] => s.chan \in channels')
        BY <1>1 DEF RowKnown
    <2>1. gen[s.chan] \in Nat
        BY DEF Shape, Typed
    <2> QED BY <2>1, TableAssumption DEF Loaded, RowKnown
<1> QED BY <1>2, <1>3 DEF Loads

LEMMA StoreUpdateMoves ==
    ASSUME Shape, NEW p \in Procs, NEW status, NEW next, StoreUpdate(p, status, next)
    PROVE  channels' = channels /\ (Become(p, next) \/ Become(p, Caught(p)))
BY DEF StoreUpdate, Raise, queueVars, Queue!UpdateJob

LEMMA DaemonLoads ==
    ASSUME Shape, Shape', Loaded, NEW w \in Procs,
           Reclaim(w) \/ Claim(w) \/ NothingToClaim(w) \/ Fail(w) \/ Log(w) \/ Restart(w)
    PROVE  Loads(w)' /\ OthersKept(w)
<1> USE DEF content
<1>0. proc[w] \in State
    BY DEF Shape, Typed, ProcState
<1>g. ASSUME NEW l \in Pcs PROVE /\ [proc[w] EXCEPT !.pc = l].pc = l
                                 /\ [proc[w] EXCEPT !.pc = l].chan = proc[w].chan
                                 /\ [proc[w] EXCEPT !.pc = l].gen = proc[w].gen
    BY <1>0 DEF State
<1>l. "claim" \in Pcs \ Loading /\ "poll" \in Pcs \ Loading /\ "dead" \in Pcs \ Loading
    BY DEF Pcs, Loading
<1>n. \A v \in Videos : chunks[v] \in {chunks[v], "searchable", w}
    OBVIOUS
<1>1. CASE Reclaim(w)
    <2>1. channels' = channels
        BY <1>1 DEF Reclaim, queueVars, Queue!ReclaimStaleJobs
    <2> QED BY <1>1, <1>g, <1>l, <2>1, MovesOn, OthersOfActor DEF Reclaim, Goto
<1>2. CASE Claim(w)
    <2>1. PICK j \in Jobs :
            /\ Queue!ClaimNextQueuedJob(j)
            /\ Become(w, [Idle(IF jobs[j].kind = "update" THEN "known" ELSE "list") EXCEPT
                    !.job = j, !.input = jobs[j].input, !.kind = jobs[j].kind,
                    !.chan = jobs[j].channel,
                    !.gen = IF jobs[j].channel = NoChannel THEN 0 ELSE gen[jobs[j].channel]])
        BY <1>2 DEF Claim
    <2> DEFINE s == [Idle(IF jobs[j].kind = "update" THEN "known" ELSE "list") EXCEPT
                    !.job = j, !.input = jobs[j].input, !.kind = jobs[j].kind,
                    !.chan = jobs[j].channel,
                    !.gen = IF jobs[j].channel = NoChannel THEN 0 ELSE gen[jobs[j].channel]]
    <2>2. /\ s.pc \notin Loading /\ s.chan = jobs[j].channel
          /\ s.gen = IF jobs[j].channel = NoChannel THEN 0 ELSE gen[jobs[j].channel]
        BY DEF Idle, Loading
    <2>3. jobs[j].channel = NoChannel \/ jobs[j].channel \in channels
        BY <2>1 DEF Shape, Table!IInv, Table!NoOrphanJob, Table!Live, Table!Jobs, Jobs, Queue!Jobs,
               Queue!ClaimNextQueuedJob, Table!Statuses, Table!ActiveStatuses
    <2>4. Become(w, s) /\ channels' = channels
        BY <2>1 DEF Queue!ClaimNextQueuedJob
    <2> HIDE DEF s
    <2>5. Loads(w)'
        BY <1>2, <2>2, <2>3, <2>4, MovesOn DEF Claim
    <2> QED BY <1>2, <2>4, <2>5, OthersOfActor DEF Claim
<1>3. CASE NothingToClaim(w)
    BY <1>3, <1>g, <1>l, MovesOn, OthersOfActor DEF NothingToClaim, Goto, queueVars
<1>4. CASE Fail(w)
    <2>1. PICK s \in {Idle("poll"), Caught(w)} : Become(w, s) /\ channels' = channels
        BY <1>4, StoreUpdateMoves DEF Fail
    <2>2. s.pc \notin Loading /\ s.chan = NoChannel
        BY <1>4, <1>l, IdleState, CaughtState DEF Shape, Loading, Fail, Running, RunPcs, At
    <2> QED BY <1>4, <2>1, <2>2, MovesOn, OthersOfActor DEF Fail
<1>5. CASE Log(w)
    <2>1. PICK s \in {Idle("poll"), Idle("dead")} : Become(w, s)
        BY <1>5 DEF Log
    <2>2. s.pc \notin Loading /\ s.chan = NoChannel
        BY <1>l, IdleState
    <2> QED BY <1>5, <2>1, <2>2, MovesOn, OthersOfActor DEF Log, queueVars
<1>6. CASE Restart(w)
    BY <1>6, <1>g, <1>l, MovesOn, OthersOfActor DEF Restart, Goto, queueVars
<1> QED BY <1>1, <1>2, <1>3, <1>4, <1>5, <1>6

LEMMA BuildLoads ==
    ASSUME Shape, Shape', Loaded, NEW p \in Procs,
           \/ ReadKnown(p) \/ List(p) \/ Attach(p) \/ NothingNew(p) \/ CheckBundle(p)
           \/ FetchVideo(p) \/ RecordVideo(p) \/ WriteBundle(p) \/ Finish(p) \/ FailBuild(p)
    PROVE  Loads(p)' /\ OthersKept(p)
<1> USE DEF content
<1>0. proc[p] \in State
    BY DEF Shape, Typed, ProcState
<1>n. \A v \in Videos : chunks[v] \in {chunks[v], "searchable", p}
    OBVIOUS
<1>c. Running(p) => Caught(p).chan = NoChannel /\ Caught(p).pc \notin Loading
    BY CaughtState DEF Shape, Loading
<1>r. ASSUME gen' = gen, channels \subseteq channels', UNCHANGED chunks,
             NEW s, Become(p, s), s.pc \notin Loading,
             \/ s.chan = NoChannel
             \/ s.chan = proc[p].chan /\ s.gen = proc[p].gen
             \/ s.chan \in channels' /\ s.gen = gen[s.chan]
      PROVE  Loads(p)' /\ OthersKept(p)
    BY <1>r, MovesOn, OthersOfActor
<1>1. CASE ReadKnown(p)
    <2>1. ASSUME NEW known PROVE [proc[p] EXCEPT !.pc = "list", !.known = known].pc = "list"
        BY <1>0 DEF State
    <2>2. ASSUME NEW known
          PROVE  /\ [proc[p] EXCEPT !.pc = "list", !.known = known].chan = proc[p].chan
                 /\ [proc[p] EXCEPT !.pc = "list", !.known = known].gen = proc[p].gen
        BY <1>0 DEF State
    <2> QED BY <1>1, <1>r, <2>1, <2>2 DEF ReadKnown, queueVars, Loading
<1>2. CASE List(p)
    <2> DEFINE c == Resolves[proc[p].input]
    <2>1. PICK listed \in Listings[c], next \in {"nothing", "check", "attach"} :
            /\ Queue!UpsertChannel(c)
            /\ Become(p, [proc[p] EXCEPT !.pc = next, !.chan = c, !.gen = gen[c],
                                              !.todo = listed \ proc[p].known, !.known = {}])
        BY <1>2 DEF List
    <2> DEFINE s == [proc[p] EXCEPT !.pc = next, !.chan = c, !.gen = gen[c],
                                              !.todo = listed \ proc[p].known, !.known = {}]
    <2>2. s.pc = next /\ s.chan = c /\ s.gen = gen[c] /\ Become(p, s)
        BY <1>0, <2>1 DEF State
    <2>3. channels \subseteq channels' /\ c \in channels'
        BY <2>1 DEF Queue!UpsertChannel
    <2> HIDE DEF s, c
    <2> QED BY <1>2, <1>r, <2>2, <2>3 DEF List, Loading
<1>3. CASE Attach(p)
    <2>1. channels' = channels /\ (Goto(p, "check") \/ Become(p, Caught(p)))
        BY <1>3 DEF Attach, Raise, queueVars, Queue!UpdateJob
    <2>2. /\ [proc[p] EXCEPT !.pc = "check"].pc = "check"
          /\ [proc[p] EXCEPT !.pc = "check"].chan = proc[p].chan
          /\ [proc[p] EXCEPT !.pc = "check"].gen = proc[p].gen
        BY <1>0 DEF State
    <2>3. Running(p)
        BY <1>3 DEF Attach, Running, RunPcs, At
    <2> QED BY <1>3, <1>c, <1>r, <2>1, <2>2, <2>3 DEF Attach, Goto, Loading
<1>4. CASE NothingNew(p)
    <2> DEFINE s == [proc[p] EXCEPT !.pc = "getJob"]
    <2>1. channels' = channels /\ (Become(p, s) \/ Become(p, Caught(p)))
        BY <1>4, StoreUpdateMoves DEF NothingNew
    <2>2. s.pc = "getJob" /\ s.chan = proc[p].chan /\ s.gen = proc[p].gen /\ s.recs = <<>>
        BY <1>0, <1>4 DEF NothingNew, At, State, Shape, Typed, ProcState, HasRecs
    <2>3. CASE Become(p, Caught(p))
        <3>1. Running(p)
            BY <1>4 DEF NothingNew, Running, RunPcs, At
        <3> QED BY <1>4, <1>c, <1>r, <2>1, <2>3, <3>1 DEF NothingNew
    <2>4. CASE Become(p, s)
        <3> HIDE DEF s
        <3>1. proc'[p] = s
            BY <2>4 DEF Shape, Typed, Become
        <3>2. LoadedSoFar(p)'
            BY <3>1, <2>2, NoRecords DEF LoadedSoFar, At
        <3>3. RowKnown(p)'
            BY <1>4, <3>1, <2>1, <2>2 DEF RowKnown, NothingNew, Loaded
        <3>4. OthersKept(p)
            BY <1>4, <2>1, <2>4, OthersOfActor DEF NothingNew
        <3> QED BY <3>2, <3>3, <3>4 DEF Loads
    <2> QED BY <2>1, <2>3, <2>4
<1>5. CASE CheckBundle(p)
    <2>1. PICK s \in {[proc[p] EXCEPT !.pc = "open", !.todo = {}], [proc[p] EXCEPT !.pc = "fetch"],
                      Caught(p)} : channels' = channels /\ Become(p, s)
        BY <1>5, StoreUpdateMoves DEF CheckBundle
    <2>2. Running(p)
        BY <1>5 DEF CheckBundle, Running, RunPcs, At
    <2>3. /\ s.pc \notin Loading
          /\ s.chan = NoChannel \/ (s.chan = proc[p].chan /\ s.gen = proc[p].gen)
        <3>1. CASE s = Caught(p)
            BY <3>1, <1>c, <2>2
        <3>2. CASE s = [proc[p] EXCEPT !.pc = "open", !.todo = {}]
            BY <3>2, <1>0 DEF State, Loading
        <3>3. CASE s = [proc[p] EXCEPT !.pc = "fetch"]
            BY <3>3, <1>0 DEF State, Loading
        <3> QED BY <2>1, <3>1, <3>2, <3>3
    <2> QED BY <1>5, <1>r, <2>1, <2>3 DEF CheckBundle
<1>6. CASE FetchVideo(p)
    <2>1. PICK v \in proc[p].todo, out \in Outcomes :
            Become(p, [proc[p] EXCEPT !.pc = "record", !.video = v, !.drafts = out = "captions"])
        BY <1>6 DEF FetchVideo
    <2> DEFINE s == [proc[p] EXCEPT !.pc = "record", !.video = v, !.drafts = out = "captions"]
    <2>2. s.pc = "record" /\ s.chan = proc[p].chan /\ s.gen = proc[p].gen /\ Become(p, s)
        BY <1>0, <2>1 DEF State
    <2> HIDE DEF s
    <2> QED BY <1>6, <1>r, <2>2 DEF FetchVideo, Loading, queueVars
<1>7. CASE RecordVideo(p)
    <2>1. PICK recs :
        \/ StoreUpdate(p, "keep", [proc[p] EXCEPT !.pc = "fetch", !.todo = proc[p].todo \ {proc[p].video},
                                                  !.drafts = FALSE, !.recs = recs])
        \/ Raise(p)
        BY <1>7 DEF RecordVideo
    <2> DEFINE s == [proc[p] EXCEPT !.pc = "fetch", !.todo = proc[p].todo \ {proc[p].video},
                                                  !.drafts = FALSE, !.recs = recs]
    <2>2. s.pc = "fetch" /\ s.chan = proc[p].chan /\ s.gen = proc[p].gen
        BY <1>0 DEF State
    <2> HIDE DEF s
    <2>3. channels' = channels /\ (Become(p, s) \/ Become(p, Caught(p)))
        BY <2>1, StoreUpdateMoves DEF s, Raise, queueVars
    <2>4. Running(p)
        BY <1>7 DEF RecordVideo, Running, RunPcs, BuildPcs, At
    <2> QED BY <1>7, <1>c, <1>r, <2>2, <2>3, <2>4 DEF RecordVideo, Loading
<1>8. CASE WriteBundle(p)
    <2> DEFINE s == [proc[p] EXCEPT !.pc = "finish", !.recs = <<>>]
    <2>1. s.pc = "finish" /\ s.chan = proc[p].chan /\ s.gen = proc[p].gen /\ Become(p, s)
        BY <1>0, <1>8 DEF State, WriteBundle
    <2> HIDE DEF s
    <2> QED BY <1>8, <1>r, <2>1 DEF WriteBundle, Loading, queueVars
<1>9. CASE Finish(p)
    <2> DEFINE s == [proc[p] EXCEPT !.pc = "open"]
    <2>1. s.pc = "open" /\ s.chan = proc[p].chan /\ s.gen = proc[p].gen
        BY <1>0 DEF State
    <2>2. channels' = channels /\ (Become(p, s) \/ Become(p, Caught(p)))
        BY <1>9, StoreUpdateMoves DEF Finish
    <2>3. Running(p)
        BY <1>9 DEF Finish, Running, RunPcs, BuildPcs, At
    <2> HIDE DEF s
    <2> QED BY <1>9, <1>c, <1>r, <2>1, <2>2, <2>3 DEF Finish, Loading
<1>10. CASE FailBuild(p)
    <2>1. Running(p)
        BY <1>10 DEF FailBuild, Running, RunPcs, BuildPcs, At
    <2>2. channels' = channels /\ Become(p, Caught(p))
        BY <1>10, StoreUpdateMoves DEF FailBuild
    <2> QED BY <1>10, <1>c, <1>r, <2>1, <2>2 DEF FailBuild
<1> QED BY <1>1, <1>2, <1>3, <1>4, <1>5, <1>6, <1>7, <1>8, <1>9, <1>10

LEMMA LoadLoads ==
    ASSUME Shape, Shape', Loaded, NEW p \in Procs,
           \/ OpenBundle(p) \/ LoadVideo(p) \/ EmbedChunks(p) \/ MarkEmbedded(p)
           \/ LoadDone(p) \/ GetJob(p)
    PROVE  Loads(p)' /\ OthersKept(p)
<1> USE DEF content
<1>0. proc[p] \in ProcState /\ proc[p] \in State
    BY DEF Shape, Typed, ProcState
<1>c. Running(p) => Caught(p).chan = NoChannel /\ Caught(p).pc \notin Loading
    BY CaughtState DEF Shape, Loading
<1>l. LoadedSoFar(p) /\ RowKnown(p)
    BY DEF Loaded
<1>v. chunks \in [Videos -> {"none", "searchable"} \cup Procs]
    BY DEF Shape, Typed
<1>1. CASE OpenBundle(p)
    <2> DEFINE b == bundle[Dir(p)]
               s == [proc[p] EXCEPT !.pc = "load", !.chan = b.chan, !.gen = gen[b.chan],
                                    !.recs = b.recs, !.todo = DOMAIN b.recs]
    <2>1. Running(p)
        BY <1>1 DEF OpenBundle, Running, RunPcs, LoadPcs, At
    <2>2. CASE Raise(p)
        BY <1>1, <1>c, <2>1, <2>2, MovesOn, OthersOfActor DEF OpenBundle, Raise, queueVars
    <2>3. CASE ~Raise(p)
        <3>1. Queue!UpsertChannel(b.chan) /\ Become(p, s)
            BY <1>1, <2>3 DEF OpenBundle
        <3>2. /\ s.pc = "load" /\ s.chan = b.chan /\ s.gen = gen[b.chan]
              /\ s.todo = DOMAIN s.recs
            BY <1>0 DEF State
        <3> HIDE DEF s, b
        <3>3. proc'[p] = s
            BY <3>1 DEF Shape, Typed, Become
        <3>4. gen' = gen /\ chunks' = chunks
            BY <1>1 DEF OpenBundle
        <3>5. channels' = channels \cup {b.chan}
            BY <3>1 DEF Queue!UpsertChannel
        <3>6. LoadedSoFar(p)'
            BY <3>2, <3>3 DEF LoadedSoFar, At
        <3>7. RowKnown(p)'
            <4> SUFFICES ASSUME b.chan \in Channels PROVE gen[b.chan] <= gen[b.chan]
                BY <3>2, <3>3, <3>4, <3>5 DEF RowKnown
            <4> QED BY DEF Shape, Typed
        <3> QED BY <3>1, <3>4, <3>5, <3>6, <3>7, OthersOfActor DEF Loads
    <2> QED BY <2>2, <2>3
<1>2. CASE LoadVideo(p)
    <2>0. Running(p) /\ proc[p].pc = "load"
        BY <1>2 DEF LoadVideo, Running, RunPcs, LoadPcs, At
    <2>1. PICK v \in proc[p].todo :
        \/ Raise(p) /\ UNCHANGED <<vstatus, chunks>>
        \/ /\ StoreUpdate(p, "keep", [proc[p] EXCEPT !.pc = "embed", !.video = v])
           /\ chunks' = [chunks EXCEPT ![v] = p]
        \/ /\ StoreUpdate(p, "keep", [proc[p] EXCEPT !.todo = proc[p].todo \ {v}])
           /\ ~proc[p].recs[v].drafts
           /\ UNCHANGED chunks
        BY <1>2 DEF LoadVideo
    <2>2. v \in Videos
        BY <1>0 DEF State
    <2>3. gen' = gen /\ channels' = channels
        BY <1>2, <2>1, StoreUpdateMoves DEF LoadVideo, Raise, queueVars
    <2> DEFINE s == [proc[p] EXCEPT !.pc = "embed", !.video = v]
               t == [proc[p] EXCEPT !.todo = proc[p].todo \ {v}]
    <2>4. /\ s.pc = "embed" /\ s.video = v /\ s.todo = proc[p].todo /\ s.recs = proc[p].recs
          /\ s.chan = proc[p].chan /\ s.gen = proc[p].gen
        BY <1>0 DEF State
    <2>5. /\ t.pc = "load" /\ t.todo = proc[p].todo \ {v} /\ t.recs = proc[p].recs
          /\ t.chan = proc[p].chan /\ t.gen = proc[p].gen
        BY <1>0, <2>0 DEF State
    <2>6. \A w \in Videos : chunks'[w] \in {chunks[w], "searchable", p}
        BY <1>v, <2>1, <2>2
    <2>7. CASE Become(p, Caught(p))
        BY <1>c, <2>0, <2>3, <2>6, <2>7, MovesOn, OthersOfActor
    <2>8. CASE Become(p, s) /\ chunks' = [chunks EXCEPT ![v] = p]
        <3> HIDE DEF s, t
        <3>1. proc'[p] = s
            BY <2>8 DEF Shape, Typed, Become
        <3>2. LoadedSoFar(p)'
            <4> SUFFICES ASSUME SameChannelRow(p)'
                         PROVE  /\ \A w \in DOMAIN s.recs \ s.todo : s.recs[w].drafts => Safe(p, w)'
                                /\ chunks'[v] \in {"searchable"} \cup Procs
                BY <3>1, <2>4 DEF LoadedSoFar, At
            <4>1. SameChannelRow(p)
                BY <3>1, <2>3, <2>4 DEF SameChannelRow
            <4>2. \A w \in DOMAIN s.recs \ s.todo : s.recs[w].drafts => Safe(p, w)
                BY <4>1, <1>l, <2>0, <2>4 DEF LoadedSoFar, Loading
            <4>3. ASSUME NEW w \in DOMAIN s.recs \ s.todo PROVE chunks'[w] = chunks[w]
                BY <1>v, <2>4, <2>8
            <4> QED BY <1>v, <2>2, <2>8, <4>2, <4>3 DEF Safe
        <3>3. RowKnown(p)'
            BY <1>l, <2>3, <2>4, <3>1 DEF RowKnown
        <3> QED BY <2>3, <2>6, <2>8, <3>2, <3>3, OthersOfActor DEF Loads
    <2>9. CASE Become(p, t) /\ UNCHANGED chunks /\ ~proc[p].recs[v].drafts
        <3> HIDE DEF s, t
        <3>1. proc'[p] = t
            BY <2>9 DEF Shape, Typed, Become
        <3>2. LoadedSoFar(p)'
            <4> SUFFICES ASSUME SameChannelRow(p)'
                         PROVE  \A w \in DOMAIN t.recs \ t.todo : t.recs[w].drafts => Safe(p, w)'
                BY <3>1, <2>5 DEF LoadedSoFar, At
            <4>1. SameChannelRow(p)
                BY <3>1, <2>3, <2>5 DEF SameChannelRow
            <4> QED BY <4>1, <1>l, <2>0, <2>5, <2>9 DEF LoadedSoFar, Loading, Safe
        <3>3. RowKnown(p)'
            BY <1>l, <2>3, <2>5, <3>1 DEF RowKnown
        <3> QED BY <2>3, <2>6, <2>9, <3>2, <3>3, OthersOfActor DEF Loads
    <2> QED BY <2>1, <2>7, <2>8, <2>9, StoreUpdateMoves DEF Raise
<1>3. CASE EmbedChunks(p)
    <2> DEFINE s == [proc[p] EXCEPT !.pc = "mark"]
               v == proc[p].video
    <2>1. /\ Become(p, s) /\ gen' = gen /\ channels' = channels /\ proc[p].pc = "embed"
          /\ chunks' = [chunks EXCEPT ![v] = IF chunks[v] = p THEN "searchable" ELSE chunks[v]]
        BY <1>3 DEF EmbedChunks, Goto, queueVars, At
    <2>2. /\ s.pc = "mark" /\ s.video = v /\ s.todo = proc[p].todo /\ s.recs = proc[p].recs
          /\ s.chan = proc[p].chan /\ s.gen = proc[p].gen
        BY <1>0 DEF State
    <2>3. v \in Videos
        BY <1>0 DEF State
    <2> HIDE DEF s, v
    <2>4. proc'[p] = s
        BY <2>1 DEF Shape, Typed, Become
    <2>5. \A w \in Videos : chunks'[w] \in {chunks[w], "searchable", p}
        BY <1>v, <2>1
    <2>6. LoadedSoFar(p)'
        <3> SUFFICES ASSUME SameChannelRow(p)'
                     PROVE  /\ \A w \in DOMAIN s.recs \ s.todo : s.recs[w].drafts => Safe(p, w)'
                            /\ chunks'[v] \in {"searchable"} \cup (Procs \ {p})
            BY <2>2, <2>4 DEF LoadedSoFar, At, Safe
        <3>1. SameChannelRow(p)
            BY <2>1, <2>2, <2>4 DEF SameChannelRow
        <3>2. \A w \in DOMAIN s.recs \ s.todo : s.recs[w].drafts => Safe(p, w)
            BY <3>1, <1>l, <2>1, <2>2 DEF LoadedSoFar, Loading
        <3>3. chunks[v] \in {"searchable"} \cup Procs
            BY <3>1, <1>l, <2>1 DEF LoadedSoFar, Loading, At, v
        <3>4. chunks'[v] \in {"searchable"} \cup (Procs \ {p})
            BY <1>v, <2>1, <2>3, <3>3
        <3>5. ASSUME NEW w, Safe(p, w), w \in Videos PROVE Safe(p, w)'
            BY <1>v, <2>1, <3>5 DEF Safe
        <3>6. DOMAIN s.recs \subseteq Videos
            BY <1>0, <2>2 DEF State, Records
        <3> QED BY <3>2, <3>4, <3>5, <3>6
    <2>7. RowKnown(p)'
        BY <1>l, <2>1, <2>2, <2>4 DEF RowKnown
    <2> QED BY <2>1, <2>5, <2>6, <2>7, OthersOfActor DEF Loads
<1>4. CASE MarkEmbedded(p)
    <2> DEFINE v == proc[p].video
               s == [proc[p] EXCEPT !.pc = "load", !.todo = proc[p].todo \ {v}]
    <2>1. /\ Become(p, s) /\ gen' = gen /\ channels' = channels /\ proc[p].pc = "mark"
          /\ UNCHANGED chunks
        BY <1>4 DEF MarkEmbedded, queueVars, At
    <2>2. /\ s.pc = "load" /\ s.todo = proc[p].todo \ {v} /\ s.recs = proc[p].recs
          /\ s.chan = proc[p].chan /\ s.gen = proc[p].gen
        BY <1>0 DEF State
    <2> HIDE DEF s, v
    <2>3. proc'[p] = s
        BY <2>1 DEF Shape, Typed, Become
    <2>4. LoadedSoFar(p)'
        <3> SUFFICES ASSUME SameChannelRow(p)'
                     PROVE  \A w \in DOMAIN s.recs \ s.todo : s.recs[w].drafts => Safe(p, w)'
            BY <2>2, <2>3 DEF LoadedSoFar, At
        <3>1. SameChannelRow(p)
            BY <2>1, <2>2, <2>3 DEF SameChannelRow
        <3> QED BY <3>1, <1>l, <2>1, <2>2 DEF LoadedSoFar, Loading, Safe, At, v
    <2>5. RowKnown(p)'
        BY <1>l, <2>1, <2>2, <2>3 DEF RowKnown
    <2> QED BY <1>v, <2>1, <2>4, <2>5, OthersOfActor DEF Loads
<1>5. CASE LoadDone(p)
    <2> DEFINE s == [proc[p] EXCEPT !.pc = "getJob"]
    <2>1. /\ Become(p, s) /\ gen' = gen /\ channels' = channels /\ proc[p].pc = "load"
          /\ UNCHANGED chunks /\ proc[p].todo = {}
        BY <1>5 DEF LoadDone, Goto, queueVars, At
    <2>2. /\ s.pc = "getJob" /\ s.todo = {} /\ s.recs = proc[p].recs
          /\ s.chan = proc[p].chan /\ s.gen = proc[p].gen
        BY <1>0, <2>1 DEF State
    <2> HIDE DEF s
    <2>3. proc'[p] = s
        BY <2>1 DEF Shape, Typed, Become
    <2>4. LoadedSoFar(p)'
        <3> SUFFICES ASSUME SameChannelRow(p)'
                     PROVE  \A w \in DOMAIN s.recs \ s.todo : s.recs[w].drafts => Safe(p, w)'
            BY <2>2, <2>3 DEF LoadedSoFar, At
        <3>1. SameChannelRow(p)
            BY <2>1, <2>2, <2>3 DEF SameChannelRow
        <3> QED BY <3>1, <1>l, <2>1, <2>2 DEF LoadedSoFar, Loading, Safe
    <2>5. RowKnown(p)'
        BY <1>l, <2>1, <2>2, <2>3 DEF RowKnown
    <2> QED BY <1>v, <2>1, <2>4, <2>5, OthersOfActor DEF Loads
<1>6. CASE GetJob(p)
    <2>1. PICK s \in {Caught(p), [Idle("log") EXCEPT !.job = proc[p].job], Idle("exit")} :
            Become(p, s)
        BY <1>6 DEF GetJob
    <2>2. Running(p) /\ proc[p].job \in Jobs
        BY <1>0, <1>6 DEF GetJob, Running, RunPcs, At, ProcState
    <2>3. s.pc \notin Loading /\ s.chan = NoChannel
        <3>1. CASE s = Caught(p)
            BY <3>1, <1>c, <2>2
        <3>2. CASE s = [Idle("log") EXCEPT !.job = proc[p].job]
            BY <3>2, <2>2, IdleOnJob DEF Loading, Pcs, RunPcs, Placed, HasRecs
        <3>3. CASE s = Idle("exit")
            BY <3>3, IdleState DEF Loading, Pcs
        <3> QED BY <2>1, <3>1, <3>2, <3>3
    <2> QED BY <1>6, <1>v, <2>1, <2>3, MovesOn, OthersOfActor DEF GetJob, queueVars
<1> QED BY <1>1, <1>2, <1>3, <1>4, <1>5, <1>6

LEMMA FaultLoads ==
    ASSUME Shape, Shape', Loaded, NEW p \in Procs, Crash(p) \/ Fault(p) \/ EmbedFault(p)
    PROVE  Loads(p)' /\ OthersKept(p)
<1> USE DEF content
<1>c. Running(p) => Caught(p).chan = NoChannel /\ Caught(p).pc \notin Loading
    BY CaughtState DEF Shape, Loading
<1>1. PICK s : /\ Become(p, s)
               /\ (s = Caught(p) /\ Running(p)) \/ s \in {Idle("dead"), Idle("exit")}
    BY DEF Crash, Fault, EmbedFault, Running, RunPcs, BuildPcs, At
<1>2. s.pc \notin Loading /\ s.chan = NoChannel
    <2>1. {"dead", "exit"} \subseteq Pcs \ Loading
        BY DEF Pcs, Loading
    <2> QED BY <1>1, <1>c, <2>1, IdleState
<1>3. gen' = gen /\ channels' = channels /\ chunks' = chunks
    BY DEF Crash, Fault, EmbedFault, queueVars
<1> QED BY <1>1, <1>2, <1>3, MovesOn, OthersOfActor

LEMMA InlineLoads ==
    ASSUME Shape, Shape', Loaded, NEW p \in Procs,
           InlineCreate(p) \/ InlineRefused(p) \/ \E i \in Inputs : InlineList(p, i)
    PROVE  Loads(p)' /\ OthersKept(p)
<1> USE DEF content
<1>0. proc[p] \in State
    BY DEF Shape, Typed, ProcState
<1>r. ASSUME gen' = gen, channels \subseteq channels', UNCHANGED chunks,
             NEW s, Become(p, s), s.pc \notin Loading,
             \/ s.chan = NoChannel
             \/ s.chan = proc[p].chan /\ s.gen = proc[p].gen
             \/ s.chan \in channels' /\ s.gen = gen[s.chan]
      PROVE  Loads(p)' /\ OthersKept(p)
    BY <1>r, MovesOn, OthersOfActor
<1>1. ASSUME NEW i \in Inputs, InlineList(p, i)
      PROVE  Loads(p)' /\ OthersKept(p)
    <2> DEFINE c == Resolves[i]
               s == [Idle("create") EXCEPT !.input = i, !.chan = c, !.gen = gen[c]]
    <2>1. s.pc = "create" /\ s.chan = c /\ s.gen = gen[c]
        BY DEF Idle
    <2>2. Become(p, s) /\ gen' = gen /\ UNCHANGED chunks /\ channels' = channels \cup {c}
        BY <1>1 DEF InlineList, Queue!UpsertChannel
    <2> HIDE DEF s, c
    <2> QED BY <1>r, <2>1, <2>2 DEF Loading
<1>2. CASE InlineCreate(p)
    <2>1. PICK j \in Jobs :
            /\ Queue!CreateJob(j, proc[p].chan, proc[p].input, "ingest", "running")
            /\ Become(p, [proc[p] EXCEPT !.pc = "list", !.job = j])
        BY <1>2 DEF InlineCreate
    <2> DEFINE s == [proc[p] EXCEPT !.pc = "list", !.job = j]
    <2>2. s.pc = "list" /\ s.chan = proc[p].chan /\ s.gen = proc[p].gen
        BY <1>0 DEF State
    <2>3. Become(p, s) /\ channels' = channels
        BY <2>1 DEF Queue!CreateJob
    <2> HIDE DEF s
    <2> QED BY <1>2, <1>r, <2>2, <2>3 DEF InlineCreate, Loading
<1>3. CASE InlineRefused(p)
    <2>1. Idle("exit").pc \notin Loading /\ Idle("exit").chan = NoChannel
        BY IdleState DEF Pcs, Loading
    <2> QED BY <1>3, <1>r, <2>1 DEF InlineRefused, queueVars
<1> QED BY <1>1, <1>2, <1>3

LEMMA UserLoads ==
    ASSUME Shape, Shape',
           \/ \E i \in Inputs : EnqueueIngest(i)
           \/ \E c \in Channels : EnqueueUpdate(c) \/ DeleteChannel(c) \/ PurgeBundles(c)
           \/ \E j \in Jobs : RetryJob(j) \/ CancelJob(j) \/ HeartbeatLapses(j)
    PROVE  \A q \in Procs : Undisturbed(q)
<1>1. ASSUME NEW c \in Channels, DeleteChannel(c), NEW q \in Procs
      PROVE  Undisturbed(q)
    <2>1. /\ proc' = proc
          /\ gen' = [gen EXCEPT ![c] = gen[c] + 1]
          /\ channels' = channels \ {c}
          /\ chunks' = [v \in Videos |-> IF v \in Vids(c) THEN "none" ELSE chunks[v]]
        BY <1>1 DEF DeleteChannel, Queue!DeleteChannel, Vids
    <2>2. \A d \in Channels : gen[d] <= gen'[d] /\ (gen'[d] = gen[d] => d # c)
        BY <2>1 DEF Shape, Typed
    <2>3. ASSUME NEW d \in channels, gen'[d] = gen[d], NEW v \in Vids(d)
          PROVE  chunks'[v] = chunks[v]
        <3>1. d \in Channels
            BY DEF Shape, Table!IInv, Table!TypeOK
        <3>2. v \notin Vids(c) /\ v \in Videos
            BY <2>2, <2>3, <3>1, InputsAssumption DEF Vids
        <3> QED BY <2>1, <3>2
    <2> QED BY <2>1, <2>2, <2>3 DEF Undisturbed
<1>2. ASSUME proc' = proc, gen' = gen, channels' = channels, chunks' = chunks, NEW q \in Procs
      PROVE  Undisturbed(q)
    BY <1>2 DEF Undisturbed, Shape, Typed
<1>3. ASSUME ~(\E c \in Channels : DeleteChannel(c))
      PROVE  proc' = proc /\ gen' = gen /\ channels' = channels /\ chunks' = chunks
    BY <1>3 DEF EnqueueIngest, EnqueueUpdate, PurgeBundles, RetryJob, CancelJob, HeartbeatLapses,
        Queue!CreateJob, Queue!RetryJob, Queue!CancelJob, Queue!HeartbeatLapses, content, queueVars
<1> QED BY <1>1, <1>2, <1>3

LEMMA NextLoaded == Shape /\ Loaded /\ [Next]_vars => Loaded'
<1> SUFFICES ASSUME Shape, Loaded, [Next]_vars PROVE Loaded'
    OBVIOUS
<1>0. Shape'
    BY NextShape
<1>1. ASSUME NEW p \in Procs, Loads(p)', OthersKept(p) PROVE Loaded'
    BY <1>0, <1>1, UndisturbedLoad DEF Loaded, Loads, OthersKept
<1>2. ASSUME \A q \in Procs : Undisturbed(q) PROVE Loaded'
    BY <1>0, <1>2, UndisturbedLoad DEF Loaded
<1>3. ASSUME NEW w \in Workers, WorkerStep(w) PROVE Loaded'
    <2>1. w \in Procs
        BY DEF Procs
    <2> QED BY <1>0, <1>1, <1>3, <2>1, DaemonLoads, BuildLoads, LoadLoads DEF WorkerStep, RunStep
<1>4. ASSUME NEW p \in Clis, CliStep(p) PROVE Loaded'
    <2>1. p \in Procs
        BY DEF Procs
    <2> QED BY <1>0, <1>1, <1>4, <2>1, InlineLoads, BuildLoads, LoadLoads DEF CliStep, RunStep
<1>5. CASE UserStep
    <2>1. ASSUME NEW p \in Clis PROVE p \in Procs
        BY DEF Procs
    <2> QED BY <1>0, <1>1, <1>2, <1>5, <2>1, UserLoads, InlineLoads DEF UserStep
<1>6. CASE \/ \E p \in Procs : Crash(p) \/ Fault(p) \/ EmbedFault(p)
           \/ \E j \in Jobs : HeartbeatLapses(j)
           \/ \E c \in Channels : PurgeBundles(c)
    BY <1>0, <1>1, <1>2, <1>6, FaultLoads, UserLoads
<1>7. CASE UNCHANGED vars
    <2>1. \A q \in Procs : Undisturbed(q)
        BY <1>7 DEF vars, queueVars, content, Undisturbed, Shape, Typed
    <2> QED BY <1>2, <2>1
<1> QED BY <1>3, <1>4, <1>5, <1>6, <1>7 DEF Next

LEMMA InitLoaded == Init => Loaded
<1> SUFFICES ASSUME Init, NEW p \in Procs PROVE RowKnown(p) /\ LoadedSoFar(p)
    BY DEF Loaded
<1>1. PICK l \in {"poll", "idle"} : proc[p] = Idle(l)
    BY DEF Init
<1>2. proc[p].chan = NoChannel /\ proc[p].pc \notin Loading
    BY <1>1, IdleState DEF Pcs, Loading
<1> QED BY <1>2, TableAssumption DEF RowKnown, LoadedSoFar

\* A run that comes to its last look at the job has made every video of its bundle that has drafts searchable,
\* or another run is storing it again, unless the channel row it loaded for was deleted; whatever raises,
\* is killed, retried or deleted elsewhere (load_dataset in core/ingest/pipeline.py).
THEOREM CompletedRun == Spec => []CompletedRunIsSearchable
<1>1. Init => Loaded
    BY InitLoaded
<1>2. Shape /\ Loaded /\ [Next]_vars => Loaded'
    BY NextLoaded
<1>3. Shape /\ Loaded => CompletedRunIsSearchable
    <2> SUFFICES ASSUME Shape, Loaded, NEW p \in Procs, At(p, "getJob"), SameChannelRow(p),
                        NEW v \in DOMAIN proc[p].recs, proc[p].recs[v].drafts
                 PROVE  Safe(p, v)
        BY DEF CompletedRunIsSearchable, Safe
    <2>1. proc[p].todo = {}
        BY DEF Shape, Typed, ProcState, At
    <2> QED BY <2>1 DEF Loaded, LoadedSoFar, Loading, At
<1> QED BY <1>1, <1>2, <1>3, ShapeInvariant, PTL DEF Spec

-----------------------------------------------------------------------------
\* The rows of ingest_jobs, and the moves of a run.

\* Every row inserted is for its input's channel, or for none yet.
JobRows == \A j \in Jobs : jobs[j].status # "none" =>
    /\ jobs[j].channel \in {NoChannel, Resolves[jobs[j].input]}
    /\ jobs[j].kind = "update" => jobs[j].channel # NoChannel

\* The places of a build, before the job is done.
BeforeBundle == {"known", "list", "attach", "check", "fetch", "record", "finish", "nothing"}
\* A run of a job works on what the row of the job says.
Described(p) ==
    /\ proc[p].pc \in BeforeBundle =>
        /\ jobs[proc[p].job].status # "none"
        /\ jobs[proc[p].job].input = proc[p].input
        /\ jobs[proc[p].job].kind = proc[p].kind
    /\ proc[p].pc \in (BeforeBundle \ {"known", "list"}) \cup {"create"} =>
        proc[p].chan = Resolves[proc[p].input]
    /\ proc[p].pc = "create" => proc[p].kind = "ingest"

\* A row is never given another input or kind, and never becomes free again.
RowStays(j) ==
    jobs[j].status # "none" =>
        /\ jobs'[j].status # "none"
        /\ jobs'[j].input = jobs[j].input
        /\ jobs'[j].kind = jobs[j].kind

LEMMA RowTyped ==
    ASSUME Shape, NEW j \in Jobs
    PROVE  jobs[j] \in Queue!Row /\ jobs \in [Queue!Jobs -> Queue!Row] /\ j \in Queue!Jobs
BY SameTable DEF Shape, Table!IInv, Queue!TypeOK, Jobs

\* What each store call leaves of a row.
LEMMA DeletedRow ==
    ASSUME Shape, NEW j \in Jobs, NEW c \in Channels, Queue!DeleteChannel(c)
    PROVE  /\ Queue!Live(j) /\ jobs[j].channel = c =>
                /\ jobs'[j].status = "gone" /\ ~jobs'[j].stale
                /\ jobs'[j].channel = c
                /\ jobs'[j].input = jobs[j].input /\ jobs'[j].kind = jobs[j].kind
           /\ ~(Queue!Live(j) /\ jobs[j].channel = c) => jobs'[j] = jobs[j]
<1>0. jobs[j] \in Queue!Row /\ j \in Queue!Jobs
    BY RowTyped
<1>1. CASE Queue!Live(j) /\ jobs[j].channel = c
    <2>1. jobs'[j] = [jobs[j] EXCEPT !.status = "gone", !.stale = FALSE]
        BY <1>0, <1>1 DEF Queue!DeleteChannel
    <2> QED BY <1>0, <1>1, <2>1 DEF Queue!Row
<1>2. CASE ~(Queue!Live(j) /\ jobs[j].channel = c)
    BY <1>0, <1>2 DEF Queue!DeleteChannel
<1> QED BY <1>1, <1>2

LEMMA ReclaimedOrNot ==
    ASSUME Shape, NEW j \in Jobs, Queue!ReclaimStaleJobs
    PROVE  /\ ~Queue!Reclaimable(j) => jobs'[j] = jobs[j]
           /\ Queue!Reclaimable(j) =>
                /\ jobs'[j].status \in {"queued", "failed"} /\ jobs'[j].channel = jobs[j].channel
                /\ jobs'[j].input = jobs[j].input /\ jobs'[j].kind = jobs[j].kind
<1>0. jobs[j] \in Queue!Row /\ j \in Queue!Jobs
    BY RowTyped
<1>1. ASSUME Queue!Reclaimable(j) PROVE jobs'[j] = Queue!Reclaimed(jobs[j])
    BY <1>0, <1>1 DEF Queue!ReclaimStaleJobs
<1>2. /\ Queue!Reclaimed(jobs[j]).status \in {"queued", "failed"}
      /\ Queue!Reclaimed(jobs[j]).channel = jobs[j].channel
      /\ Queue!Reclaimed(jobs[j]).input = jobs[j].input
      /\ Queue!Reclaimed(jobs[j]).kind = jobs[j].kind
    <2>1. CASE jobs[j].attempts >= MaxAttempts - 1
        BY <1>0, <2>1 DEF Queue!Reclaimed, Queue!Row
    <2>2. CASE ~(jobs[j].attempts >= MaxAttempts - 1)
        <3>1. Queue!Reclaimed(jobs[j]) =
                [jobs[j] EXCEPT !.status = "queued", !.stale = FALSE, !.attempts = jobs[j].attempts + 1]
            BY <2>2 DEF Queue!Reclaimed
        <3> QED BY <1>0, <3>1 DEF Queue!Row
    <2> QED BY <2>1, <2>2
<1>3. ~Queue!Reclaimable(j) => jobs'[j] = jobs[j]
    BY <1>0 DEF Queue!ReclaimStaleJobs
<1> QED BY <1>1, <1>2, <1>3

LEMMA UpdatedRow ==
    ASSUME Shape, NEW j \in Jobs, NEW status, NEW c
    PROVE  LET r == Queue!Updated(j, status, c) IN
           /\ r.status = IF status = "keep" THEN jobs[j].status ELSE status
           /\ r.channel = IF c = NoChannel THEN jobs[j].channel ELSE c
           /\ r.input = jobs[j].input /\ r.kind = jobs[j].kind /\ ~r.stale
BY RowTyped DEF Queue!Updated, Queue!Row

LEMMA QueueKeepsRows ==
    ASSUME Shape, [Queue!Next]_queueVars, NEW j \in Jobs
    PROVE  RowStays(j)
<1>0. jobs[j] \in Queue!Row /\ jobs \in [Queue!Jobs -> Queue!Row] /\ j \in Queue!Jobs
    BY RowTyped
<1>1. ASSUME NEW c \in Channels, Queue!UpsertChannel(c) \/ Queue!DeleteChannel(c)
      PROVE  RowStays(j)
    BY <1>0, <1>1, DeletedRow DEF RowStays, Queue!UpsertChannel
<1>2. CASE Queue!Create
    BY <1>0, <1>2 DEF RowStays, Queue!Create, Queue!CreateJob
<1>3. CASE Queue!Update
    <2>1. PICK k \in Queue!Jobs, c \in Channels \cup {NoChannel},
               status \in {"keep", "running", "done", "failed"} : Queue!UpdateJob(k, status, c)
        BY <1>3 DEF Queue!Update
    <2> QED BY <1>0, <2>1, UpdatedRow DEF Jobs, RowStays, Queue!UpdateJob
<1>4. CASE \E k \in Queue!Jobs : \/ Queue!ClaimNextQueuedJob(k) \/ Queue!RetryJob(k)
                                 \/ Queue!CancelJob(k) \/ Queue!HeartbeatLapses(k)
    <2>1. ASSUME NEW k \in Queue!Jobs, Queue!ClaimNextQueuedJob(k) PROVE RowStays(j)
        BY <1>0, <2>1 DEF RowStays, Queue!ClaimNextQueuedJob, Queue!Row
    <2>2. ASSUME NEW k \in Queue!Jobs, Queue!RetryJob(k) PROVE RowStays(j)
        BY <1>0, <2>2 DEF RowStays, Queue!RetryJob, Queue!Row
    <2>3. ASSUME NEW k \in Queue!Jobs, Queue!CancelJob(k) PROVE RowStays(j)
        BY <1>0, <2>3 DEF RowStays, Queue!CancelJob, Queue!Row
    <2>4. ASSUME NEW k \in Queue!Jobs, Queue!HeartbeatLapses(k) PROVE RowStays(j)
        BY <1>0, <2>4 DEF RowStays, Queue!HeartbeatLapses, Queue!Row
    <2> QED BY <1>4, <2>1, <2>2, <2>3, <2>4
<1>5. CASE Queue!ReclaimStaleJobs
    BY <1>5, ReclaimedOrNot DEF RowStays
<1>6. CASE UNCHANGED queueVars
    BY <1>6 DEF RowStays, queueVars
<1> QED BY <1>1, <1>2, <1>3, <1>4, <1>5, <1>6 DEF Queue!Next

\* What a step of a run leaves of the local state it describes its row by.
Carries(s, p) ==
    /\ s.job = proc[p].job /\ s.input = proc[p].input /\ s.kind = proc[p].kind
    /\ s.chan = proc[p].chan /\ s.gen = proc[p].gen

\* The moves of a build, without the exceptions.
BuildMove(p, s) ==
    \/ ReadKnown(p) /\ s.pc = "list" /\ Carries(s, p)
    \/ /\ List(p) /\ s.pc \in {"nothing", "check", "attach"}
       /\ s.job = proc[p].job /\ s.input = proc[p].input /\ s.kind = proc[p].kind
       /\ s.chan = Resolves[proc[p].input] /\ s.gen = gen[s.chan]
       /\ s.pc # "attach" =>
            proc[p].kind = "update" \/ (proc[p].chan = s.chan /\ proc[p].gen = s.gen)
    \/ Attach(p) /\ s.pc = "check" /\ Carries(s, p)
    \/ NothingNew(p) /\ s.pc = "getJob" /\ Carries(s, p)
    \/ CheckBundle(p) /\ bundle[Dir(p)] # NoBundle /\ s.pc = "open" /\ Carries(s, p)
    \/ CheckBundle(p) /\ bundle[Dir(p)] = NoBundle /\ s.pc = "fetch" /\ Carries(s, p)
    \/ FetchVideo(p) /\ s.pc = "record" /\ Carries(s, p)
    \/ RecordVideo(p) /\ s.pc = "fetch" /\ Carries(s, p)
    \/ WriteBundle(p) /\ s.pc = "finish" /\ Carries(s, p)
    \/ Finish(p) /\ s.pc = "open" /\ Carries(s, p)

\* The steps of build_dataset and of the exceptions it catches.
BuildStep(p) ==
    \/ ReadKnown(p) \/ List(p) \/ Attach(p) \/ NothingNew(p) \/ CheckBundle(p)
    \/ FetchVideo(p) \/ RecordVideo(p) \/ WriteBundle(p) \/ Finish(p) \/ FailBuild(p)

LEMMA BuildMoves ==
    ASSUME Shape, NEW p \in Procs, BuildStep(p)
    PROVE  \E s : /\ Become(p, s)
                  /\ BuildMove(p, s) \/ (s = Caught(p) /\ Running(p))
<1> USE DEF Carries
<1>0. proc[p] \in State
    BY DEF Shape, Typed, ProcState
<1>r. proc[p].pc \in RunPcs
    BY DEF BuildStep, ReadKnown, List, Attach, NothingNew, CheckBundle, FetchVideo, RecordVideo,
           WriteBundle, Finish, FailBuild, At, RunPcs, BuildPcs
<1>g. ASSUME NEW l PROVE LET s == [proc[p] EXCEPT !.pc = l] IN s.pc = l /\ Carries(s, p)
    BY <1>0 DEF State
<1>1. CASE ReadKnown(p)
    <2>1. PICK known : Become(p, [proc[p] EXCEPT !.pc = "list", !.known = known])
        BY <1>1 DEF ReadKnown
    <2> DEFINE s == [proc[p] EXCEPT !.pc = "list", !.known = known]
    <2>2. s.pc = "list" /\ Carries(s, p)
        BY <1>0 DEF State
    <2> HIDE DEF s
    <2> QED BY <1>1, <2>1, <2>2 DEF BuildMove, s
<1>2. CASE List(p)
    <2> DEFINE c == Resolves[proc[p].input]
    <2>1. PICK listed \in Listings[c], next \in {"nothing", "check", "attach"} :
            /\ Become(p, [proc[p] EXCEPT !.pc = next, !.chan = c, !.gen = gen[c],
                                         !.todo = listed \ proc[p].known, !.known = {}])
            /\ next # "attach" =>
                 proc[p].kind = "update" \/ (proc[p].chan = c /\ proc[p].gen = gen[c])
        BY <1>2 DEF List
    <2> DEFINE s == [proc[p] EXCEPT !.pc = next, !.chan = c, !.gen = gen[c],
                                    !.todo = listed \ proc[p].known, !.known = {}]
    <2>2. /\ s.pc = next /\ s.chan = c /\ s.gen = gen[c]
          /\ s.job = proc[p].job /\ s.input = proc[p].input /\ s.kind = proc[p].kind
        BY <1>0 DEF State
    <2>3. Become(p, s)
        BY <2>1
    <2> HIDE DEF s
    <2> QED BY <1>2, <2>1, <2>2, <2>3 DEF BuildMove
<1>3. CASE Attach(p)
    <2> DEFINE s == [proc[p] EXCEPT !.pc = "check"]
    <2>1. s.pc = "check" /\ Carries(s, p)
        BY <1>g
    <2>2. Become(p, s) \/ Become(p, Caught(p))
        BY <1>3 DEF Attach, Goto, Raise
    <2> HIDE DEF s
    <2> QED BY <1>3, <1>r, <2>1, <2>2 DEF BuildMove, Running
<1>4. CASE NothingNew(p)
    <2> DEFINE s == [proc[p] EXCEPT !.pc = "getJob"]
    <2>1. s.pc = "getJob" /\ Carries(s, p)
        BY <1>g
    <2>2. Become(p, s) \/ Become(p, Caught(p))
        BY <1>4, StoreUpdateMoves DEF NothingNew
    <2> HIDE DEF s
    <2> QED BY <1>4, <1>r, <2>1, <2>2 DEF BuildMove, Running
<1>5. CASE CheckBundle(p)
    <2> DEFINE s == [proc[p] EXCEPT !.pc = "open", !.todo = {}]
    <2>1. s.pc = "open" /\ Carries(s, p)
        BY <1>0 DEF State
    <2>2. CASE bundle[Dir(p)] # NoBundle
        <3>1. Become(p, s) \/ Become(p, Caught(p))
            BY <1>5, <2>2, StoreUpdateMoves DEF CheckBundle
        <3> HIDE DEF s
        <3> QED BY <1>5, <1>r, <2>1, <2>2, <3>1 DEF BuildMove, Running
    <2>3. CASE bundle[Dir(p)] = NoBundle
        <3> DEFINE t == [proc[p] EXCEPT !.pc = "fetch"]
        <3>1. Become(p, t) \/ Become(p, Caught(p))
            BY <1>5, <2>3, StoreUpdateMoves DEF CheckBundle
        <3>2. t.pc = "fetch" /\ Carries(t, p)
            BY <1>g
        <3> HIDE DEF s, t
        <3> QED BY <1>5, <1>r, <2>3, <3>1, <3>2 DEF BuildMove, Running
    <2> QED BY <2>2, <2>3
<1>6. CASE FetchVideo(p)
    <2>1. PICK v, b : Become(p, [proc[p] EXCEPT !.pc = "record", !.video = v, !.drafts = b])
        BY <1>6 DEF FetchVideo
    <2> DEFINE s == [proc[p] EXCEPT !.pc = "record", !.video = v, !.drafts = b]
    <2>2. s.pc = "record" /\ Carries(s, p)
        BY <1>0 DEF State
    <2>3. Become(p, s)
        BY <2>1
    <2> HIDE DEF s
    <2> QED BY <1>6, <2>2, <2>3 DEF BuildMove
<1>7. CASE RecordVideo(p)
    <2>1. PICK recs :
        \/ StoreUpdate(p, "keep", [proc[p] EXCEPT !.pc = "fetch", !.todo = proc[p].todo \ {proc[p].video},
                                                  !.drafts = FALSE, !.recs = recs])
        \/ Raise(p)
        BY <1>7 DEF RecordVideo
    <2> DEFINE s == [proc[p] EXCEPT !.pc = "fetch", !.todo = proc[p].todo \ {proc[p].video},
                                                  !.drafts = FALSE, !.recs = recs]
    <2>2. s.pc = "fetch" /\ Carries(s, p)
        BY <1>0 DEF State
    <2>3. Become(p, s) \/ Become(p, Caught(p))
        BY <2>1, StoreUpdateMoves DEF Raise
    <2> HIDE DEF s
    <2> QED BY <1>7, <1>r, <2>2, <2>3 DEF BuildMove, Running
<1>8. CASE WriteBundle(p)
    <2> DEFINE s == [proc[p] EXCEPT !.pc = "finish", !.recs = <<>>]
    <2>1. s.pc = "finish" /\ Carries(s, p)
        BY <1>0 DEF State
    <2>2. Become(p, s)
        BY <1>8 DEF WriteBundle
    <2> HIDE DEF s
    <2> QED BY <1>8, <2>1, <2>2 DEF BuildMove
<1>9. CASE Finish(p)
    <2> DEFINE s == [proc[p] EXCEPT !.pc = "open"]
    <2>1. s.pc = "open" /\ Carries(s, p)
        BY <1>g
    <2>2. Become(p, s) \/ Become(p, Caught(p))
        BY <1>9, StoreUpdateMoves DEF Finish
    <2> HIDE DEF s
    <2> QED BY <1>9, <1>r, <2>1, <2>2 DEF BuildMove, Running
<1>10. CASE FailBuild(p)
    BY <1>10, <1>r, StoreUpdateMoves DEF FailBuild, Running
<1> QED BY <1>1, <1>2, <1>3, <1>4, <1>5, <1>6, <1>7, <1>8, <1>9, <1>10 DEF BuildStep

\* The steps of load_dataset and of what follows it.
LoadStep(p) ==
    \/ OpenBundle(p) \/ LoadVideo(p) \/ EmbedChunks(p) \/ MarkEmbedded(p) \/ LoadDone(p) \/ GetJob(p)

\* The moves of a load keep the job, and none of them goes back to the build.
LEMMA LoadMoves ==
    ASSUME Shape, NEW p \in Procs, LoadStep(p)
    PROVE  \E s : /\ Become(p, s)
                  /\ \/ s.pc \in {"load", "embed", "mark", "getJob", "log"} /\ s.job = proc[p].job
                     \/ s = Caught(p) /\ Running(p)
                     \/ s = Idle("exit")
<1>0. proc[p] \in ProcState /\ proc[p] \in State
    BY DEF Shape, Typed, ProcState
<1>r. proc[p].pc \in RunPcs
    BY DEF LoadStep, OpenBundle, LoadVideo, EmbedChunks, MarkEmbedded, LoadDone, GetJob, At, RunPcs, LoadPcs
<1>g. ASSUME NEW l PROVE LET s == [proc[p] EXCEPT !.pc = l] IN s.pc = l /\ s.job = proc[p].job
    BY <1>0 DEF State
<1>1. CASE OpenBundle(p)
    <2> DEFINE b == bundle[Dir(p)]
               s == [proc[p] EXCEPT !.pc = "load", !.chan = b.chan, !.gen = gen[b.chan],
                                    !.recs = b.recs, !.todo = DOMAIN b.recs]
    <2>1. s.pc = "load" /\ s.job = proc[p].job
        BY <1>0 DEF State
    <2>2. Become(p, s) \/ Become(p, Caught(p))
        BY <1>1 DEF OpenBundle, Raise
    <2> HIDE DEF s
    <2> QED BY <1>r, <2>1, <2>2 DEF Running
<1>2. CASE LoadVideo(p)
    <2>1. PICK v :
        \/ Raise(p)
        \/ StoreUpdate(p, "keep", [proc[p] EXCEPT !.pc = "embed", !.video = v])
        \/ StoreUpdate(p, "keep", [proc[p] EXCEPT !.todo = proc[p].todo \ {v}])
        BY <1>2 DEF LoadVideo
    <2> DEFINE s == [proc[p] EXCEPT !.pc = "embed", !.video = v]
               t == [proc[p] EXCEPT !.todo = proc[p].todo \ {v}]
    <2>2. s.pc = "embed" /\ s.job = proc[p].job /\ t.pc = "load" /\ t.job = proc[p].job
        BY <1>0, <1>2 DEF State, LoadVideo, At
    <2>3. Become(p, s) \/ Become(p, t) \/ Become(p, Caught(p))
        BY <2>1, StoreUpdateMoves DEF Raise
    <2> HIDE DEF s, t
    <2> QED BY <1>r, <2>2, <2>3 DEF Running
<1>3. CASE EmbedChunks(p)
    BY <1>3, <1>g DEF EmbedChunks, Goto
<1>4. CASE MarkEmbedded(p)
    <2> DEFINE s == [proc[p] EXCEPT !.pc = "load", !.todo = proc[p].todo \ {proc[p].video}]
    <2>1. s.pc = "load" /\ s.job = proc[p].job
        BY <1>0 DEF State
    <2>2. Become(p, s)
        BY <1>4 DEF MarkEmbedded
    <2> HIDE DEF s
    <2> QED BY <2>1, <2>2
<1>5. CASE LoadDone(p)
    BY <1>5, <1>g DEF LoadDone, Goto
<1>6. CASE GetJob(p)
    <2>1. proc[p].job \in Jobs
        BY <1>0, <1>r DEF ProcState
    <2> DEFINE s == [Idle("log") EXCEPT !.job = proc[p].job]
    <2>2. s.pc = "log" /\ s.job = proc[p].job
        <3>1. "log" \in Pcs \ (Placed \cup HasRecs \cup {"open", "nothing"})
            BY DEF Pcs, RunPcs, Placed, HasRecs
        <3> QED BY <2>1, <3>1, IdleState DEF State, Idle
    <2>3. Become(p, s) \/ Become(p, Caught(p)) \/ Become(p, Idle("exit"))
        BY <1>6 DEF GetJob
    <2> HIDE DEF s
    <2> QED BY <1>6, <1>r, <2>2, <2>3 DEF Running
<1> QED BY <1>1, <1>2, <1>3, <1>4, <1>5, <1>6 DEF LoadStep

-----------------------------------------------------------------------------
\* A run knows its row: Book.

\* A row of a channel of an older generation exists only after a deletion.
Book == /\ JobRows
        /\ \A p \in Procs : Described(p)
        /\ \A c \in Channels : gen[c] > 0 => spent["delete"] > 0

\* A step that gives no row a channel, and inserts none.
SamePlaces == \A j \in Jobs : /\ jobs'[j].channel = jobs[j].channel
                              /\ jobs[j].status = "none" => jobs'[j].status = "none"

LEMMA StoreCallsKeepPlaces ==
    ASSUME Shape,
           \/ UNCHANGED jobs
           \/ \E c \in Channels : Queue!UpsertChannel(c) \/ Queue!DeleteChannel(c)
           \/ \E j \in Jobs, status \in {"keep", "running", "done", "failed"} :
                Queue!UpdateJob(j, status, NoChannel)
           \/ \E j \in Jobs : \/ Queue!ClaimNextQueuedJob(j) \/ Queue!RetryJob(j)
                              \/ Queue!CancelJob(j) \/ Queue!HeartbeatLapses(j)
           \/ Queue!ReclaimStaleJobs
    PROVE  SamePlaces
<1> SUFFICES ASSUME NEW j \in Jobs
             PROVE  /\ jobs'[j].channel = jobs[j].channel
                    /\ jobs[j].status = "none" => jobs'[j].status = "none"
    BY DEF SamePlaces
<1>0. jobs[j] \in Queue!Row /\ jobs \in [Queue!Jobs -> Queue!Row] /\ j \in Queue!Jobs
    BY RowTyped
<1> DEFINE G == /\ jobs'[j].channel = jobs[j].channel
                /\ jobs[j].status = "none" => jobs'[j].status = "none"
<1>1. ASSUME NEW c \in Channels, Queue!UpsertChannel(c) \/ Queue!DeleteChannel(c) PROVE G
    BY <1>0, <1>1, DeletedRow DEF Queue!UpsertChannel, Queue!Live, Queue!Statuses, Queue!ActiveStatuses
<1>2. ASSUME NEW k \in Jobs, NEW status \in {"keep", "running", "done", "failed"},
             Queue!UpdateJob(k, status, NoChannel) PROVE G
    BY <1>0, <1>2, UpdatedRow DEF Queue!UpdateJob, Queue!Live, Queue!Statuses, Queue!ActiveStatuses
<1>3. ASSUME NEW k \in Jobs, Queue!ClaimNextQueuedJob(k) PROVE G
    BY <1>0, <1>3 DEF Queue!ClaimNextQueuedJob, Queue!Row
<1>4. ASSUME NEW k \in Jobs, Queue!RetryJob(k) PROVE G
    BY <1>0, <1>4 DEF Queue!RetryJob, Queue!Row
<1>5. ASSUME NEW k \in Jobs, Queue!CancelJob(k) PROVE G
    BY <1>0, <1>5 DEF Queue!CancelJob, Queue!Row
<1>6. ASSUME NEW k \in Jobs, Queue!HeartbeatLapses(k) PROVE G
    BY <1>0, <1>6 DEF Queue!HeartbeatLapses, Queue!Row
<1>7. ASSUME Queue!ReclaimStaleJobs PROVE G
    BY <1>7, ReclaimedOrNot DEF Queue!Reclaimable
<1> QED BY <1>1, <1>2, <1>3, <1>4, <1>5, <1>6, <1>7

LEMMA PlacesKeepJobRows ==
    ASSUME JobRows, SamePlaces, \A j \in Jobs : RowStays(j)
    PROVE  JobRows'
BY DEF JobRows, SamePlaces, RowStays, Jobs, Queue!Jobs

\* An inserted row: see Enqueue... and InlineCreate.
LEMMA CreateKeepsJobRows ==
    ASSUME Shape, JobRows, NEW j \in Jobs, NEW c, NEW i, NEW kind, NEW status,
           Queue!CreateJob(j, c, i, kind, status),
           c \in {NoChannel, Resolves[i]}, kind = "update" => c # NoChannel
    PROVE  JobRows'
<1>1. jobs' = [jobs EXCEPT ![j] = [status |-> status, channel |-> c, input |-> i,
                 kind |-> kind, attempts |-> 0, stale |-> FALSE]]
    BY DEF Queue!CreateJob
<1>2. jobs \in [Jobs -> Queue!Row]
    BY RowTyped DEF Jobs
<1>3. \A k \in Jobs : k # j => jobs'[k] = jobs[k]
    BY <1>1, <1>2
<1>4. /\ jobs'[j].channel = c /\ jobs'[j].input = i /\ jobs'[j].kind = kind
    BY <1>1, <1>2
<1> QED BY <1>3, <1>4 DEF JobRows, Jobs, Queue!Jobs

LEMMA StoreUpdateWrites ==
    ASSUME Shape, NEW p \in Procs, Running(p), NEW status, NEW next, StoreUpdate(p, status, next)
    PROVE  UNCHANGED jobs \/ Queue!UpdateJob(proc[p].job, status, NoChannel)
BY DEF StoreUpdate, Raise, queueVars

LEMMA NextJobRows ==
    ASSUME Shape, Book, Next
    PROVE  JobRows'
<1>0. \A j \in Jobs : RowStays(j)
    BY QueueKeepsRows, NextShape DEF vars
<1>j. ASSUME NEW p \in Procs, Running(p) PROVE proc[p].job \in Jobs
    BY <1>j DEF Shape, Typed, ProcState, Running
<1>p. ASSUME SamePlaces PROVE JobRows'
    BY <1>0, <1>p, PlacesKeepJobRows DEF Book
<1>1. ASSUME NEW p \in Procs, NEW status \in {"keep", "running", "done", "failed"}, NEW next,
             Running(p), StoreUpdate(p, status, next)
      PROVE  JobRows'
    <2>1. UNCHANGED jobs \/ Queue!UpdateJob(proc[p].job, status, NoChannel)
        BY <1>1, StoreUpdateWrites
    <2>2. SamePlaces
        BY <1>1, <1>j, <2>1, StoreCallsKeepPlaces
    <2> QED BY <1>p, <2>2
<1>2. ASSUME NEW p \in Procs, Raise(p) \/ UNCHANGED queueVars PROVE JobRows'
    BY <1>2, <1>p, StoreCallsKeepPlaces DEF Raise, queueVars
<1>u. ASSUME NEW c \in Channels, Queue!UpsertChannel(c) PROVE JobRows'
    BY <1>u, <1>p, StoreCallsKeepPlaces
<1>3. ASSUME NEW p \in Procs,
             Reclaim(p) \/ Claim(p) \/ NothingToClaim(p) \/ Fail(p) \/ Log(p) \/ Restart(p)
      PROVE  JobRows'
    <2>1. CASE Reclaim(p) \/ Claim(p) \/ NothingToClaim(p) \/ Log(p) \/ Restart(p)
        <3>1. SamePlaces
            BY <2>1, StoreCallsKeepPlaces DEF Reclaim, Claim, NothingToClaim, Log, Restart, queueVars
        <3> QED BY <1>p, <3>1
    <2>2. CASE Fail(p)
        BY <1>1, <2>2 DEF Fail, Running, RunPcs, At
    <2> QED BY <1>3, <2>1, <2>2
<1>4. ASSUME NEW p \in Procs, BuildStep(p) PROVE JobRows'
    <2>0. Running(p)
        BY <1>4 DEF BuildStep, ReadKnown, List, Attach, NothingNew, CheckBundle, FetchVideo, RecordVideo,
           WriteBundle, Finish, FailBuild, At, RunPcs, BuildPcs, Running
    <2>1. CASE ReadKnown(p) \/ FetchVideo(p) \/ WriteBundle(p)
        BY <1>2, <2>1 DEF ReadKnown, FetchVideo, WriteBundle, queueVars
    <2>2. CASE List(p)
        <3>1. Resolves[proc[p].input] \in Channels
            BY InputsAssumption DEF Shape, Typed, ProcState, State
        <3> QED BY <1>u, <2>2, <3>1 DEF List
    <2>3. CASE NothingNew(p) \/ CheckBundle(p) \/ Finish(p) \/ FailBuild(p)
        BY <1>1, <2>0, <2>3 DEF NothingNew, CheckBundle, Finish, FailBuild
    <2>4. CASE RecordVideo(p)
        <3>1. Raise(p) \/ \E next : StoreUpdate(p, "keep", next)
            BY <2>4 DEF RecordVideo
        <3> QED BY <1>1, <1>2, <2>0, <3>1
    <2>5. CASE Attach(p)
        <3>1. CASE Raise(p) \/ UNCHANGED queueVars
            BY <1>2, <3>1
        <3>2. CASE Queue!UpdateJob(proc[p].job, "keep", proc[p].chan)
            <4> DEFINE j == proc[p].job
                       r == Queue!Updated(j, "keep", proc[p].chan)
            <4>1. /\ jobs' = [jobs EXCEPT ![j] = r] /\ j \in Jobs /\ Queue!Live(j)
                BY <1>j, <2>0, <3>2 DEF Queue!UpdateJob
            <4>2. jobs \in [Jobs -> Queue!Row]
                BY <4>1, RowTyped DEF Jobs
            <4>3. \A k \in Jobs : k # j => jobs'[k] = jobs[k]
                BY <4>1, <4>2
            <4>4. jobs'[j] = r /\ jobs[j].input = proc[p].input /\ jobs[j].kind = proc[p].kind
                BY <2>5, <4>1, <4>2 DEF Book, Described, BeforeBundle, Attach, At
            <4>5. proc[p].chan = Resolves[proc[p].input] /\ proc[p].chan # NoChannel
                BY <2>5, TableAssumption DEF Book, Described, BeforeBundle, Attach, At, Shape, Typed, ProcState, Placed
            <4>6. r.input = jobs[j].input /\ r.channel = proc[p].chan /\ r.kind = jobs[j].kind
                BY <4>1, <4>5, UpdatedRow
            <4> HIDE DEF r, j
            <4> QED BY <4>3, <4>4, <4>5, <4>6 DEF Book, JobRows, Jobs, Queue!Jobs
        <3> QED BY <2>5, <3>1, <3>2 DEF Attach
    <2> QED BY <1>4, <2>1, <2>2, <2>3, <2>4, <2>5 DEF BuildStep
<1>5. ASSUME NEW p \in Procs, LoadStep(p) PROVE JobRows'
    <2>0. Running(p)
        BY <1>5 DEF LoadStep, OpenBundle, LoadVideo, EmbedChunks, MarkEmbedded, LoadDone, GetJob, At,
                    RunPcs, LoadPcs, Running
    <2>1. CASE EmbedChunks(p) \/ MarkEmbedded(p) \/ LoadDone(p) \/ GetJob(p)
        BY <1>2, <2>1 DEF EmbedChunks, MarkEmbedded, LoadDone, GetJob, queueVars
    <2>2. CASE OpenBundle(p)
        <3>1. CASE bundle[Dir(p)] = NoBundle
            BY <1>2, <2>2, <3>1 DEF OpenBundle
        <3>2. CASE bundle[Dir(p)] # NoBundle
            <4>1. bundle[Dir(p)].chan \in Channels
                BY <2>0, <3>2, DirOfProc DEF Shape, Typed, Bundles
            <4> QED BY <1>u, <2>2, <3>2, <4>1 DEF OpenBundle
        <3> QED BY <3>1, <3>2
    <2>3. CASE LoadVideo(p)
        <3>1. Raise(p) \/ \E next : StoreUpdate(p, "keep", next)
            BY <2>3 DEF LoadVideo
        <3> QED BY <1>1, <1>2, <2>0, <3>1
    <2> QED BY <1>5, <2>1, <2>2, <2>3 DEF LoadStep
<1>6. ASSUME NEW p \in Procs,
             InlineCreate(p) \/ InlineRefused(p) \/ \E i \in Inputs : InlineList(p, i)
      PROVE  JobRows'
    <2>1. CASE InlineCreate(p)
        <3>1. proc[p].chan = Resolves[proc[p].input]
            BY <2>1 DEF InlineCreate, At, Book, Described
        <3> QED BY <2>1, <3>1, CreateKeepsJobRows DEF InlineCreate, Book
    <2>2. CASE InlineRefused(p)
        BY <1>2, <2>2 DEF InlineRefused, queueVars
    <2>3. ASSUME NEW i \in Inputs, InlineList(p, i) PROVE JobRows'
        BY <1>u, <2>3, InputsAssumption DEF InlineList
    <2> QED BY <1>6, <2>1, <2>2, <2>3
<1>7. ASSUME NEW i \in Inputs, EnqueueIngest(i) PROVE JobRows'
    BY <1>7, CreateKeepsJobRows DEF EnqueueIngest, Book
<1>8. ASSUME NEW c \in Channels, EnqueueUpdate(c) PROVE JobRows'
    BY <1>8, CreateKeepsJobRows, InputsAssumption, TableAssumption DEF EnqueueUpdate, Book
<1>9. ASSUME \/ \E c \in Channels : DeleteChannel(c) \/ PurgeBundles(c)
             \/ \E j \in Jobs : RetryJob(j) \/ CancelJob(j) \/ HeartbeatLapses(j)
             \/ \E p \in Procs : Crash(p) \/ Fault(p) \/ EmbedFault(p)
      PROVE  JobRows'
    <2>1. SamePlaces
        BY <1>9, StoreCallsKeepPlaces DEF DeleteChannel, PurgeBundles, RetryJob, CancelJob, HeartbeatLapses,
            Crash, Fault, EmbedFault, queueVars
    <2> QED BY <1>p, <2>1
<1> QED BY <1>3, <1>4, <1>5, <1>6, <1>7, <1>8, <1>9
        DEF Next, UserStep, WorkerStep, CliStep, RunStep, BuildStep, LoadStep, Procs

LEMMA OthersDescribed ==
    ASSUME Shape, NEW q \in Procs, Described(q), \A j \in Jobs : RowStays(j), proc'[q] = proc[q]
    PROVE  Described(q)'
<1>1. proc[q].pc \in BeforeBundle => proc[q].job \in Jobs
    BY DEF Shape, Typed, ProcState, BeforeBundle, RunPcs, BuildPcs
<1> QED BY <1>1 DEF Described, RowStays

LEMMA ActorDescribed ==
    ASSUME Shape, NEW p \in Procs, Described(p), \A j \in Jobs : RowStays(j),
           NEW s, Become(p, s),
           \/ s.pc \notin BeforeBundle \cup {"create"}
           \/ /\ s.job = proc[p].job /\ s.input = proc[p].input /\ s.kind = proc[p].kind
              /\ proc[p].pc \in BeforeBundle /\ s.pc # "create"
              /\ s.pc \notin {"known", "list"} => s.chan = Resolves[s.input]
    PROVE  /\ \A q \in Procs \ {p} : proc'[q] = proc[q]
           /\ Described(p)'
<1>1. proc'[p] = s /\ \A q \in Procs \ {p} : proc'[q] = proc[q]
    BY DEF Shape, Typed, Become
<1>2. proc[p].pc \in BeforeBundle => proc[p].job \in Jobs
    BY DEF Shape, Typed, ProcState, BeforeBundle, RunPcs, BuildPcs
<1> QED BY <1>1, <1>2 DEF Described, RowStays

LEMMA CaughtDescribes ==
    ASSUME Shape, NEW p \in Procs, Running(p)
    PROVE  Caught(p).pc \notin BeforeBundle \cup {"create"}
BY CaughtState DEF Shape, BeforeBundle

LEMMA IdleDescribes ==
    ASSUME NEW l \in {"poll", "dead", "exit"}
    PROVE  Idle(l).pc \notin BeforeBundle \cup {"create"}
<1>1. l \in Pcs
    BY DEF Pcs
<1> QED BY <1>1, IdleState DEF BeforeBundle

LEMMA NextDescribed ==
    ASSUME Shape, Book, Next
    PROVE  \A p \in Procs : Described(p)'
<1>0. \A j \in Jobs : RowStays(j)
    BY QueueKeepsRows, NextShape DEF vars
<1>b. \A p \in Procs : Described(p)
    BY DEF Book
<1>p. ASSUME NEW p \in Procs, Described(p)', \A q \in Procs \ {p} : proc'[q] = proc[q]
      PROVE  \A q \in Procs : Described(q)'
    BY <1>0, <1>b, <1>p, OthersDescribed
<1>q. ASSUME NEW p \in Procs, NEW s, Become(p, s), s.pc \notin BeforeBundle \cup {"create"}
      PROVE  \A q \in Procs : Described(q)'
    BY <1>0, <1>b, <1>p, <1>q, ActorDescribed
<1>s. ASSUME NEW p \in Procs PROVE proc[p] \in State
    BY DEF Shape, Typed, ProcState
<1>3. ASSUME NEW p \in Procs,
             Reclaim(p) \/ Claim(p) \/ NothingToClaim(p) \/ Fail(p) \/ Log(p) \/ Restart(p)
      PROVE  \A q \in Procs : Described(q)'
    <2>1. CASE Claim(p)
        <3>1. PICK j \in Jobs :
                /\ Queue!ClaimNextQueuedJob(j)
                /\ Become(p, [Idle(IF jobs[j].kind = "update" THEN "known" ELSE "list") EXCEPT
                    !.job = j, !.input = jobs[j].input, !.kind = jobs[j].kind,
                    !.chan = jobs[j].channel,
                    !.gen = IF jobs[j].channel = NoChannel THEN 0 ELSE gen[jobs[j].channel]])
            BY <2>1 DEF Claim
        <3> DEFINE s == [Idle(IF jobs[j].kind = "update" THEN "known" ELSE "list") EXCEPT
                    !.job = j, !.input = jobs[j].input, !.kind = jobs[j].kind,
                    !.chan = jobs[j].channel,
                    !.gen = IF jobs[j].channel = NoChannel THEN 0 ELSE gen[jobs[j].channel]]
        <3>2. /\ s.pc \in {"known", "list"} /\ s.job = j
              /\ s.input = jobs[j].input /\ s.kind = jobs[j].kind
            BY DEF Idle
        <3>3. proc'[p] = s /\ \A q \in Procs \ {p} : proc'[q] = proc[q]
            BY <3>1 DEF Shape, Typed, Become
        <3> HIDE DEF s
        <3>4. jobs[j].status # "none"
            BY <3>1 DEF Queue!ClaimNextQueuedJob
        <3>5. Described(p)'
            BY <1>0, <3>2, <3>3, <3>4 DEF Described, RowStays
        <3> QED BY <1>p, <3>3, <3>5
    <2>2. CASE Fail(p)
        <3>1. Running(p)
            BY <2>2 DEF Fail, At, Running, RunPcs
        <3>2. Become(p, Idle("poll")) \/ Become(p, Caught(p))
            BY <2>2, StoreUpdateMoves DEF Fail
        <3> QED BY <1>q, <3>1, <3>2, CaughtDescribes, IdleDescribes
    <2>3. CASE Log(p)
        BY <1>q, <2>3, IdleDescribes DEF Log
    <2>4. CASE Reclaim(p) \/ NothingToClaim(p) \/ Restart(p)
        <3>1. PICK l \in {"claim", "poll"} : Goto(p, l)
            BY <2>4 DEF Reclaim, NothingToClaim, Restart
        <3>2. [proc[p] EXCEPT !.pc = l].pc = l
            BY <1>s DEF State
        <3> QED BY <1>q, <3>1, <3>2 DEF Goto, BeforeBundle
    <2> QED BY <1>3, <2>1, <2>2, <2>3, <2>4
<1>4. ASSUME NEW p \in Procs, BuildStep(p) PROVE \A q \in Procs : Described(q)'
    <2>1. PICK s : Become(p, s) /\ (BuildMove(p, s) \/ (s = Caught(p) /\ Running(p)))
        BY <1>4, BuildMoves
    <2>2. CASE s = Caught(p) /\ Running(p)
        BY <1>q, <2>1, <2>2, CaughtDescribes
    <2>3. CASE BuildMove(p, s)
        <3>1. \/ s.pc \in {"getJob", "open"}
              \/ /\ s.job = proc[p].job /\ s.input = proc[p].input /\ s.kind = proc[p].kind
                 /\ proc[p].pc \in BeforeBundle /\ s.pc # "create"
                 /\ s.pc \notin {"known", "list"} => s.chan = Resolves[s.input]
            BY <2>3, <1>b DEF BuildMove, Carries, ReadKnown, List, Attach, CheckBundle, FetchVideo,
                RecordVideo, WriteBundle, At, BeforeBundle, Described
        <3>2. /\ Described(p)'
              /\ \A q \in Procs \ {p} : proc'[q] = proc[q]
            BY <1>0, <1>b, <2>1, <3>1, ActorDescribed DEF BeforeBundle
        <3> QED BY <1>p, <3>2
    <2> QED BY <2>1, <2>2, <2>3
<1>5. ASSUME NEW p \in Procs, LoadStep(p) PROVE \A q \in Procs : Described(q)'
    <2>1. PICK s : /\ Become(p, s)
                   /\ \/ s.pc \in {"load", "embed", "mark", "getJob", "log"} /\ s.job = proc[p].job
                      \/ s = Caught(p) /\ Running(p)
                      \/ s = Idle("exit")
        BY <1>5, LoadMoves
    <2> QED BY <1>q, <2>1, CaughtDescribes, IdleDescribes DEF BeforeBundle
<1>6. ASSUME NEW p \in Procs, NEW i \in Inputs, InlineList(p, i) PROVE \A q \in Procs : Described(q)'
    <2> DEFINE s == [Idle("create") EXCEPT !.input = i, !.chan = Resolves[i], !.gen = gen[Resolves[i]]]
    <2>1. s.pc = "create" /\ s.input = i /\ s.chan = Resolves[i] /\ s.kind = "ingest"
        BY DEF Idle
    <2>2. Become(p, s)
        BY <1>6 DEF InlineList
    <2> HIDE DEF s
    <2>3. proc'[p] = s /\ \A q \in Procs \ {p} : proc'[q] = proc[q]
        BY <2>2 DEF Shape, Typed, Become
    <2>4. Described(p)'
        BY <2>1, <2>3 DEF Described, BeforeBundle
    <2> QED BY <1>p, <2>3, <2>4
<1>7. ASSUME NEW p \in Procs, InlineCreate(p) PROVE \A q \in Procs : Described(q)'
    <2>1. PICK j \in Jobs :
            /\ Queue!CreateJob(j, proc[p].chan, proc[p].input, "ingest", "running")
            /\ Become(p, [proc[p] EXCEPT !.pc = "list", !.job = j])
        BY <1>7 DEF InlineCreate
    <2> DEFINE s == [proc[p] EXCEPT !.pc = "list", !.job = j]
    <2>2. s.pc = "list" /\ s.job = j /\ s.input = proc[p].input /\ s.kind = proc[p].kind
        BY <1>s DEF State
    <2>3. proc'[p] = s /\ \A q \in Procs \ {p} : proc'[q] = proc[q]
        BY <2>1 DEF Shape, Typed, Become
    <2> HIDE DEF s
    <2>4. /\ jobs'[j].status = "running" /\ jobs'[j].input = proc[p].input /\ jobs'[j].kind = "ingest"
        BY <2>1, RowTyped DEF Queue!CreateJob
    <2>5. proc[p].kind = "ingest"
        BY <1>7, <1>b DEF InlineCreate, At, Described
    <2>6. Described(p)'
        BY <2>2, <2>3, <2>4, <2>5 DEF Described
    <2> QED BY <1>p, <2>3, <2>6
<1>8. ASSUME NEW p \in Procs, Crash(p) \/ Fault(p) \/ EmbedFault(p) \/ InlineRefused(p)
      PROVE  \A q \in Procs : Described(q)'
    <2>1. PICK s : /\ Become(p, s)
                   /\ (s = Caught(p) /\ Running(p)) \/ s \in {Idle("dead"), Idle("exit")}
        BY <1>8 DEF Crash, Fault, EmbedFault, Running, RunPcs, BuildPcs, At, InlineRefused
    <2> QED BY <1>q, <2>1, CaughtDescribes, IdleDescribes
<1>9. ASSUME proc' = proc PROVE \A q \in Procs : Described(q)'
    BY <1>0, <1>b, <1>9, OthersDescribed
<1>10. ASSUME \/ \E i \in Inputs : EnqueueIngest(i)
              \/ \E c \in Channels : EnqueueUpdate(c) \/ DeleteChannel(c) \/ PurgeBundles(c)
              \/ \E j \in Jobs : RetryJob(j) \/ CancelJob(j) \/ HeartbeatLapses(j)
       PROVE  proc' = proc
    BY <1>10 DEF EnqueueIngest, EnqueueUpdate, DeleteChannel, PurgeBundles, RetryJob, CancelJob, HeartbeatLapses
<1> QED BY <1>3, <1>4, <1>5, <1>6, <1>7, <1>8, <1>9, <1>10
        DEF Next, UserStep, WorkerStep, CliStep, RunStep, BuildStep, LoadStep, Procs

LEMMA SpendGrows ==
    ASSUME Shape, Next
    PROVE  /\ \A k \in DOMAIN Budget : spent[k] <= spent'[k]
           /\ \A c \in Channels : gen'[c] = gen[c] \/ spent'["delete"] > 0
<1>0. DOMAIN Budget = {"crash", "fault", "retry", "delete"} /\ spent \in [DOMAIN Budget -> Nat]
    BY BudgetAssumption DEF Shape, Typed
<1>1. CASE UNCHANGED <<spent, gen>>
    BY <1>0, <1>1
<1>2. ASSUME NEW k \in DOMAIN Budget, Spend(k), UNCHANGED gen
      PROVE  /\ \A i \in DOMAIN Budget : spent[i] <= spent'[i]
             /\ \A c \in Channels : gen'[c] = gen[c] \/ spent'["delete"] > 0
    BY <1>0, <1>2 DEF Spend
<1>3. ASSUME NEW c \in Channels, DeleteChannel(c)
      PROVE  /\ \A i \in DOMAIN Budget : spent[i] <= spent'[i]
             /\ \A d \in Channels : gen'[d] = gen[d] \/ spent'["delete"] > 0
    BY <1>0, <1>3 DEF DeleteChannel, Spend
<1>4. ASSUME NEW p \in Procs, Crash(p) \/ Fault(p) \/ EmbedFault(p)
      PROVE  /\ \A i \in DOMAIN Budget : spent[i] <= spent'[i]
             /\ \A d \in Channels : gen'[d] = gen[d] \/ spent'["delete"] > 0
    BY <1>0, <1>2, <1>4 DEF Crash, Fault, EmbedFault, content
<1>5. ASSUME NEW j \in Jobs, RetryJob(j)
      PROVE  /\ \A i \in DOMAIN Budget : spent[i] <= spent'[i]
             /\ \A d \in Channels : gen'[d] = gen[d] \/ spent'["delete"] > 0
    BY <1>0, <1>2, <1>5 DEF RetryJob, content
<1>6. ASSUME NEW p \in Procs,
             Reclaim(p) \/ Claim(p) \/ NothingToClaim(p) \/ Fail(p) \/ Log(p) \/ Restart(p)
      PROVE  UNCHANGED <<spent, gen>>
    BY <1>6 DEF Reclaim, Claim, NothingToClaim, Fail, Log, Restart, content
<1>7. ASSUME NEW p \in Procs, BuildStep(p)
      PROVE  UNCHANGED <<spent, gen>>
    BY <1>7 DEF BuildStep, ReadKnown, List, Attach, NothingNew, CheckBundle, FetchVideo, RecordVideo,
           WriteBundle, Finish, FailBuild, content
<1>8. ASSUME NEW p \in Procs, LoadStep(p)
      PROVE  UNCHANGED <<spent, gen>>
    BY <1>8 DEF LoadStep, OpenBundle, LoadVideo, EmbedChunks, MarkEmbedded, LoadDone, GetJob, content
<1>9. ASSUME NEW p \in Procs,
             InlineCreate(p) \/ InlineRefused(p) \/ \E i \in Inputs : InlineList(p, i)
      PROVE  UNCHANGED <<spent, gen>>
    BY <1>9 DEF InlineCreate, InlineRefused, InlineList, content
<1>10. ASSUME \/ \E i \in Inputs : EnqueueIngest(i)
              \/ \E c \in Channels : EnqueueUpdate(c) \/ PurgeBundles(c)
              \/ \E j \in Jobs : CancelJob(j) \/ HeartbeatLapses(j)
       PROVE  UNCHANGED <<spent, gen>>
    BY <1>10 DEF EnqueueIngest, EnqueueUpdate, PurgeBundles, CancelJob, HeartbeatLapses, content
<1> QED BY <1>1, <1>3, <1>4, <1>5, <1>6, <1>7, <1>8, <1>9, <1>10
        DEF Next, UserStep, WorkerStep, CliStep, RunStep, BuildStep, LoadStep, Procs

LEMMA NextBook == Shape /\ Book /\ [Next]_vars => Book'
<1> SUFFICES ASSUME Shape, Book, [Next]_vars PROVE Book'
    OBVIOUS
<1>1. CASE Next
    <2>1. JobRows' /\ \A p \in Procs : Described(p)'
        BY <1>1, NextJobRows, NextDescribed
    <2>2. ASSUME NEW c \in Channels, gen'[c] > 0 PROVE spent'["delete"] > 0
        <3>1. spent["delete"] <= spent'["delete"] /\ spent["delete"] \in Nat /\ spent'["delete"] \in Nat
            BY <1>1, SpendGrows, NextShape, BudgetAssumption DEF Shape, Typed
        <3>2. gen'[c] = gen[c] \/ spent'["delete"] > 0
            BY <1>1, SpendGrows
        <3> QED BY <2>2, <3>1, <3>2 DEF Book
    <2> QED BY <2>1, <2>2 DEF Book
<1>2. CASE UNCHANGED vars
    BY <1>2 DEF vars, queueVars, content, Book, JobRows, Described, Jobs, Queue!Jobs
<1> QED BY <1>1, <1>2

LEMMA InitBook == Init => Book
<1> SUFFICES ASSUME Init PROVE Book
    OBVIOUS
<1>1. JobRows
    BY DEF Init, Queue!Init, JobRows, Jobs
<1>2. ASSUME NEW p \in Procs PROVE Described(p)
    <2>1. PICK l \in {"poll", "idle"} : proc[p] = Idle(l)
        BY DEF Init
    <2>2. proc[p].pc = l
        BY <2>1, IdleState DEF Pcs
    <2> QED BY <2>2 DEF Described, BeforeBundle
<1> QED BY <1>1, <1>2 DEF Book, Init

-----------------------------------------------------------------------------
\* A run owns its row: Owned.

\* No failed job was retried, or nothing raised.
Calm == spent["retry"] = 0 \/ spent["fault"] = 0
\* Something raised that no deletion explains.
Upset == spent["fault"] > 0

\* The status a process expects its row to have.
Expected(l) ==
    CASE l \in BeforeBundle \cup {"failBuild"} -> {"running"}
      [] l = "fail" -> {"running", "done", "failed"}
      [] OTHER -> {"done"}

\* The row of a run has that status, or its channel was deleted; and it is not stale while it runs.
RowKept(p) == Running(p) =>
    /\ jobs[proc[p].job].status \in Expected(proc[p].pc) \cup {"gone"}
    /\ jobs[proc[p].job].status = "running" => ~jobs[proc[p].job].stale

\* A failed build whose row is there, and a row that is failed already, take an exception: a build that finds
\* its channel deleted raises as well, but its row went with the channel.
FailedTwice(p) ==
    /\ At(p, "failBuild") /\ Queue!Live(proc[p].job) => Upset
    /\ At(p, "fail") /\ jobs[proc[p].job].status = "failed" => Upset

\* The row of a build is linked to the channel row the build has seen.
Attached(p) ==
    proc[p].pc \in BeforeBundle \ {"attach"} /\ Queue!Live(proc[p].job) =>
        /\ jobs[proc[p].job].channel = proc[p].chan
        /\ proc[p].chan # NoChannel => proc[p].gen = gen[proc[p].chan]

\* What one run keeps of its row.
Kept(p) == RowKept(p) /\ FailedTwice(p) /\ Attached(p)

\* No two processes run one job.
Alone == \A p, q \in Procs : p # q /\ Running(p) /\ Running(q) => proc[p].job # proc[q].job

\* The layer of the same name.
Owned == (\A p \in Procs : Kept(p)) /\ Alone

\* A step that leaves q and its row alone.
Unwritten(q) ==
    /\ proc'[q] = proc[q]
    /\ Running(q) => jobs'[proc[q].job] = jobs[proc[q].job]

LEMMA UnwrittenKept ==
    ASSUME Shape, NEW q \in Procs, Kept(q), Unwritten(q), gen' = gen, Upset => Upset'
    PROVE  Kept(q)'
<1>1. proc[q].pc \in BeforeBundle \cup {"failBuild", "fail"} => Running(q)
    BY DEF Running, RunPcs, BuildPcs, BeforeBundle
<1>2. RowKept(q)'
    BY DEF Kept, RowKept, Unwritten, Running
<1>3. FailedTwice(q)'
    BY <1>1 DEF Kept, FailedTwice, Unwritten, At, Queue!Live
<1>4. Attached(q)'
    BY <1>1 DEF Kept, Attached, Unwritten, Queue!Live
<1> QED BY <1>2, <1>3, <1>4 DEF Kept

LEMMA ActorOwned ==
    ASSUME Shape, Owned, NEW p \in Procs, NEW s, Become(p, s), gen' = gen, Upset => Upset',
           \A q \in Procs \ {p} : Running(q) => jobs'[proc[q].job] = jobs[proc[q].job],
           Kept(p)',
           \/ s.pc \notin RunPcs
           \/ Running(p) /\ s.job = proc[p].job
           \/ \A q \in Procs \ {p} : Running(q) => proc[q].job # s.job
    PROVE  Owned'
<1>1. /\ proc'[p] = s
      /\ \A q \in Procs \ {p} : proc'[q] = proc[q]
    BY DEF Shape, Typed, Become
<1>2. \A q \in Procs : Kept(q)'
    BY <1>1, UnwrittenKept DEF Owned, Unwritten
<1>3. Alone'
    <2>1. \A q \in Procs \ {p} : Running(q)' => Running(q) /\ proc'[q].job = proc[q].job
        BY <1>1 DEF Running
    <2>2. ASSUME NEW q \in Procs \ {p}, Running(p)', Running(q)' PROVE s.job # proc[q].job
        BY <1>1, <2>1, <2>2 DEF Owned, Alone, Running
    <2> QED BY <1>1, <2>1, <2>2 DEF Owned, Alone
<1> QED BY <1>2, <1>3 DEF Owned

\* A step that leaves the run leaves nothing to keep.
LEMMA LeavesRun ==
    ASSUME Shape, NEW p \in Procs, NEW s, Become(p, s), s.pc \notin RunPcs
    PROVE  Kept(p)'
<1>1. proc'[p] = s
    BY DEF Shape, Typed, Become
<1> QED BY <1>1 DEF Kept, RowKept, FailedTwice, Attached, Running, At, RunPcs, BuildPcs, BeforeBundle

LEMMA NoCollision ==
    ASSUME Shape, NEW j \in Jobs, NEW r, Queue!Collides(j, r),
           r.status \in {"queued", "running"} => jobs[j].status \in {"queued", "running"},
           r.channel = jobs[j].channel, r.input = jobs[j].input
    PROVE  FALSE
<1>1. PICK k \in Queue!Jobs \ {j} : Queue!SameKey(r, jobs[k])
    BY DEF Queue!Collides
<1>2. Table!SameKey(jobs[j], jobs[k])
    BY <1>1 DEF Table!SameKey, Queue!SameKey, Table!ActiveStatuses, Queue!ActiveStatuses
<1> QED BY <1>1, <1>2 DEF Shape, Table!IInv, Table!OneActiveJobPerKey, Table!Jobs, Queue!Jobs, Jobs

\* While the row is the process's own, its writes are never refused.
LEMMA StoreUpdateKept ==
    ASSUME Shape, NEW p \in Procs, Running(p), NEW status, NEW next,
           StoreUpdate(p, status, next),
           \/ status \in {"keep", "done", "failed"}
           \/ jobs[proc[p].job].status \in {"running", "gone"}
    PROVE  /\ Become(p, next)
           /\ proc[p].job \in Jobs
           /\ \A k \in Jobs \ {proc[p].job} : jobs'[k] = jobs[k]
           /\ jobs'[proc[p].job].channel = jobs[proc[p].job].channel
           /\ IF Queue!Live(proc[p].job)
              THEN /\ jobs'[proc[p].job].status =
                            IF status = "keep" THEN jobs[proc[p].job].status ELSE status
                   /\ ~jobs'[proc[p].job].stale
              ELSE jobs'[proc[p].job] = jobs[proc[p].job]
<1> DEFINE j == proc[p].job
           r == Queue!Updated(j, status, NoChannel)
<1>0. j \in Jobs
    BY DEF Shape, Typed, ProcState, Running
<1>1. jobs \in [Jobs -> Queue!Row]
    BY <1>0, RowTyped DEF Jobs
<1>2. /\ r.status = IF status = "keep" THEN jobs[j].status ELSE status
      /\ r.channel = jobs[j].channel /\ r.input = jobs[j].input /\ ~r.stale
    BY <1>0, UpdatedRow
<1>3. Queue!Live(j) => ~Queue!Collides(j, r)
    <2> SUFFICES ASSUME Queue!Live(j), Queue!Collides(j, r) PROVE FALSE
        OBVIOUS
    <2>1. r.status \in {"queued", "running"} => jobs[j].status \in {"queued", "running"}
        BY <1>2 DEF Queue!Live, Queue!Statuses, Queue!ActiveStatuses
    <2> HIDE DEF r, j
    <2> QED BY <1>0, <1>2, <2>1, NoCollision
<1>4. CASE Queue!Live(j)
    <2>1. Become(p, next) /\ jobs' = [jobs EXCEPT ![j] = r]
        BY <1>3, <1>4 DEF StoreUpdate, Queue!UpdateJob
    <2> HIDE DEF r
    <2> QED BY <1>0, <1>1, <1>2, <1>4, <2>1
<1>5. CASE ~Queue!Live(j)
    BY <1>0, <1>5 DEF StoreUpdate, Queue!UpdateJob, queueVars
<1> QED BY <1>4, <1>5

LEMMA NoneQueued ==
    ASSUME Shape, Owned, NEW q \in Procs, Running(q)
    PROVE  /\ proc[q].job \in Jobs
           /\ jobs[proc[q].job].status \in {"running", "done", "failed", "gone"}
           /\ jobs[proc[q].job].status = "failed" => At(q, "fail") /\ Upset
           /\ jobs[proc[q].job].status = "running" => ~jobs[proc[q].job].stale
<1>1. proc[q].job \in Jobs
    BY DEF Shape, Typed, ProcState, Running
<1>2. Kept(q)
    BY DEF Owned
<1> QED BY <1>1, <1>2 DEF Kept, RowKept, FailedTwice, Expected, At

LEMMA IdlePcs ==
    ASSUME NEW l \in {"poll", "dead", "exit"}
    PROVE  Idle(l).pc \notin RunPcs
<1>1. l \in Pcs /\ l \notin RunPcs
    BY DEF Pcs, RunPcs, BuildPcs, LoadPcs
<1> QED BY <1>1, IdleState

LEMMA DaemonOwned ==
    ASSUME Shape, Owned, NEW w \in Procs,
           Reclaim(w) \/ Claim(w) \/ NothingToClaim(w) \/ Fail(w) \/ Log(w) \/ Restart(w)
    PROVE  Owned'
<1> USE DEF content
<1>0. proc[w] \in State
    BY DEF Shape, Typed, ProcState
<1>u. gen' = gen /\ (Upset => Upset')
    BY DEF Reclaim, Claim, NothingToClaim, Fail, Log, Restart, Upset
<1>1. CASE Reclaim(w) \/ NothingToClaim(w) \/ Restart(w)
    <2>1. PICK l \in {"claim", "poll"} : Goto(w, l)
        BY <1>1 DEF Reclaim, NothingToClaim, Restart
    <2> DEFINE s == [proc[w] EXCEPT !.pc = l]
    <2>2. s.pc \notin RunPcs /\ Become(w, s)
        BY <1>0, <2>1 DEF State, Goto, RunPcs, BuildPcs, LoadPcs
    <2>3. ASSUME NEW q \in Procs, Running(q) PROVE jobs'[proc[q].job] = jobs[proc[q].job]
        <3>1. ~Queue!Reclaimable(proc[q].job) /\ proc[q].job \in Jobs
            BY <2>3, NoneQueued DEF Queue!Reclaimable
        <3> QED BY <1>1, <3>1, ReclaimedOrNot DEF Reclaim, NothingToClaim, Restart, queueVars
    <2> HIDE DEF s
    <2> QED BY <1>u, <2>2, <2>3, LeavesRun, ActorOwned
<1>2. CASE Claim(w)
    <2>1. PICK j \in Jobs :
            /\ Queue!ClaimNextQueuedJob(j)
            /\ Become(w, [Idle(IF jobs[j].kind = "update" THEN "known" ELSE "list") EXCEPT
                    !.job = j, !.input = jobs[j].input, !.kind = jobs[j].kind,
                    !.chan = jobs[j].channel,
                    !.gen = IF jobs[j].channel = NoChannel THEN 0 ELSE gen[jobs[j].channel]])
        BY <1>2 DEF Claim
    <2> DEFINE s == [Idle(IF jobs[j].kind = "update" THEN "known" ELSE "list") EXCEPT
                    !.job = j, !.input = jobs[j].input, !.kind = jobs[j].kind,
                    !.chan = jobs[j].channel,
                    !.gen = IF jobs[j].channel = NoChannel THEN 0 ELSE gen[jobs[j].channel]]
    <2>2. /\ s.pc \in {"known", "list"} /\ s.job = j /\ s.chan = jobs[j].channel
          /\ s.chan # NoChannel => s.gen = gen[s.chan]
        BY DEF Idle
    <2>3. Become(w, s)
        BY <2>1
    <2> HIDE DEF s
    <2>4. ASSUME NEW q \in Procs, Running(q)
          PROVE  proc[q].job # j /\ jobs'[proc[q].job] = jobs[proc[q].job]
        BY <2>1, <2>4, NoneQueued, RowTyped DEF Queue!ClaimNextQueuedJob, Jobs
    <2>5. jobs'[j].status = "running" /\ ~jobs'[j].stale /\ jobs'[j].channel = jobs[j].channel
        BY <2>1, RowTyped DEF Queue!ClaimNextQueuedJob, Queue!Row
    <2>6. proc'[w] = s
        BY <2>3 DEF Shape, Typed, Become
    <2>7. Kept(w)'
        BY <1>u, <2>2, <2>5, <2>6 DEF Kept, RowKept, FailedTwice, Attached, Expected, BeforeBundle, At
    <2> QED BY <1>u, <2>2, <2>3, <2>4, <2>7, ActorOwned
<1>3. CASE Fail(w)
    <2>1. Running(w)
        BY <1>3 DEF Fail, At, Running, RunPcs
    <2>2. Become(w, Idle("poll")) /\ \A k \in Jobs \ {proc[w].job} : jobs'[k] = jobs[k]
        BY <1>3, <2>1, StoreUpdateKept DEF Fail
    <2>3. ASSUME NEW q \in Procs \ {w}, Running(q) PROVE jobs'[proc[q].job] = jobs[proc[q].job]
        BY <2>1, <2>2, <2>3, NoneQueued DEF Owned, Alone
    <2> QED BY <1>u, <2>2, <2>3, IdlePcs, LeavesRun, ActorOwned
<1>4. CASE Log(w)
    <2>1. PICK l \in {"poll", "dead"} : Become(w, Idle(l))
        BY <1>4 DEF Log
    <2> QED BY <1>4, <1>u, <2>1, IdlePcs, LeavesRun, ActorOwned DEF Log, queueVars
<1> QED BY <1>1, <1>2, <1>3, <1>4

\* An exception leaves the row as it was, to the handler that records the failure.
LEMMA RaiseOwned ==
    ASSUME Shape, Owned, NEW p \in Procs, Running(p), Become(p, Caught(p)), UNCHANGED jobs,
           gen' = gen, Upset => Upset',
           proc[p].pc \in BuildPcs /\ Queue!Live(proc[p].job) => Upset'
    PROVE  Owned'
<1> DEFINE s == Caught(p)
<1>1. Caught(p).pc \in {"failBuild", "fail"} => Caught(p).job = proc[p].job
    BY CaughtState DEF Shape
<1>2. \/ proc[p].pc \in BuildPcs /\ Caught(p).pc = "failBuild"
      \/ proc[p].pc \notin BuildPcs /\ Caught(p).pc = "fail"
      \/ Caught(p).pc = "exit"
    BY CaughtState DEF Shape
<1>3. proc'[p] = Caught(p)
    BY DEF Shape, Typed, Become
<1>4. Kept(p) /\ proc[p].job \in Jobs
    BY DEF Owned, Shape, Typed, ProcState, Running
<1>5. CASE Caught(p).pc = "exit"
    BY <1>5, LeavesRun, ActorOwned DEF RunPcs, BuildPcs, LoadPcs
<1>6. CASE Caught(p).pc = "failBuild" /\ proc[p].pc \in BuildPcs
    <2>1. jobs[proc[p].job].status \in {"running", "gone"}
        BY <1>4, <1>6 DEF Kept, RowKept, Expected, BuildPcs, BeforeBundle
    <2>2. Kept(p)'
        BY <1>1, <1>3, <1>4, <1>6, <2>1
           DEF Kept, RowKept, FailedTwice, Attached, Expected, BeforeBundle, At, Queue!Live
    <2> QED BY <1>1, <1>6, <2>2, ActorOwned
<1>7. CASE Caught(p).pc = "fail"
    <2>1. jobs[proc[p].job].status \in {"running", "done", "failed", "gone"}
        BY NoneQueued
    <2>2. Kept(p)'
        BY <1>1, <1>3, <1>4, <1>7, <2>1, NoneQueued
           DEF Kept, RowKept, FailedTwice, Attached, Expected, BeforeBundle, At
    <2> QED BY <1>1, <1>7, <2>2, ActorOwned
<1> QED BY <1>2, <1>5, <1>6, <1>7

\* A step that writes no row, or rewrites the process's own.
LEMMA OwnWrite ==
    ASSUME Shape, Owned, NEW p \in Procs, Running(p), NEW s, Become(p, s), s.job = proc[p].job,
           s.pc \in RunPcs \ {"fail", "failBuild"},
           gen' = gen, Upset => Upset',
           \A k \in Jobs \ {proc[p].job} : jobs'[k] = jobs[k],
           jobs'[proc[p].job].status \in Expected(s.pc) \cup {"gone"},
           jobs'[proc[p].job].status = "running" => ~jobs'[proc[p].job].stale,
           Attached(p)'
    PROVE  Owned'
<1>1. proc'[p] = s
    BY DEF Shape, Typed, Become
<1>2. Kept(p)'
    BY <1>1 DEF Kept, RowKept, FailedTwice, At
<1>3. ASSUME NEW q \in Procs \ {p}, Running(q) PROVE jobs'[proc[q].job] = jobs[proc[q].job]
    BY <1>3, NoneQueued DEF Owned, Alone
<1> QED BY <1>2, <1>3, ActorOwned

LEMMA StillAttached ==
    ASSUME Shape, NEW p \in Procs, Attached(p), NEW s, Become(p, s), Carries(s, p), gen' = gen,
           s.pc \in BeforeBundle => proc[p].pc \in BeforeBundle \ {"attach"},
           jobs'[proc[p].job].channel = jobs[proc[p].job].channel,
           jobs'[proc[p].job].status \in Queue!Statuses => Queue!Live(proc[p].job)
    PROVE  Attached(p)'
<1>1. proc'[p] = s
    BY DEF Shape, Typed, Become
<1> QED BY <1>1 DEF Attached, Carries, Queue!Live

\* A write of the process's own row: its next statement is the one that
\* expects what was written.
LEMMA WriteOwned ==
    ASSUME Shape, Owned, NEW p \in Procs, Running(p), gen' = gen, Upset => Upset',
           NEW status \in {"keep", "running", "done"}, NEW next, StoreUpdate(p, status, next),
           Carries(next, p), next.pc \in RunPcs \ {"fail", "failBuild"},
           next.pc \in BeforeBundle => proc[p].pc \in BeforeBundle \ {"attach"},
           jobs[proc[p].job].status \in {"running", "gone"} \cup {status},
           status # "keep" => status \in Expected(next.pc),
           status = "keep" => Expected(proc[p].pc) \subseteq Expected(next.pc)
    PROVE  Owned'
<1> DEFINE j == proc[p].job
<1>0. Kept(p) /\ Attached(p) /\ RowKept(p) /\ j \in Jobs
    BY NoneQueued DEF Owned, Kept
<1>1. \/ status \in {"keep", "done", "failed"}
      \/ jobs[proc[p].job].status \in {"running", "gone"}
    OBVIOUS
<1>2. /\ Become(p, next)
      /\ \A k \in Jobs \ {j} : jobs'[k] = jobs[k]
      /\ jobs'[j].channel = jobs[j].channel
      /\ Queue!Live(j) => /\ jobs'[j].status = IF status = "keep" THEN jobs[j].status ELSE status
                          /\ ~jobs'[j].stale
      /\ ~Queue!Live(j) => jobs'[j] = jobs[j]
    BY <1>1, StoreUpdateKept
<1>3. jobs[j].status \in Expected(proc[p].pc) \cup {"gone"}
    BY <1>0 DEF RowKept
<1>4. ~Queue!Live(j) => jobs[j].status = "gone"
    BY <1>0, <1>3, NoneQueued DEF Queue!Live, Queue!Statuses, Queue!ActiveStatuses
<1>5. jobs'[j].status \in Expected(next.pc) \cup {"gone"}
    BY <1>2, <1>3, <1>4
<1>6. Attached(p)'
    BY <1>0, <1>2, StillAttached DEF Queue!Live
<1>7. jobs'[j].status = "running" => ~jobs'[j].stale
    BY <1>2, <1>4
<1> QED BY <1>2, <1>5, <1>6, <1>7, OwnWrite DEF Carries

LEMMA BuildOwned ==
    ASSUME Shape, Loaded, Book, Owned, NEW p \in Procs, BuildStep(p)
    PROVE  Owned'
<1> USE DEF content
<1>0. proc[p] \in ProcState /\ proc[p] \in State
    BY DEF Shape, Typed, ProcState
<1>u. gen' = gen /\ (Upset => Upset')
    BY DEF BuildStep, ReadKnown, List, Attach, NothingNew, CheckBundle, FetchVideo, RecordVideo,
           WriteBundle, Finish, FailBuild, Upset
<1>b. proc[p].pc \in BeforeBundle \cup {"failBuild"}
    BY DEF BuildStep, ReadKnown, List, Attach, NothingNew, CheckBundle, FetchVideo, RecordVideo,
           WriteBundle, Finish, FailBuild, At, BeforeBundle
<1>z. BeforeBundle \subseteq RunPcs \ {"fail", "failBuild"} /\ "failBuild" \in RunPcs
    BY DEF BeforeBundle, RunPcs, BuildPcs
<1>r. Running(p) /\ proc[p].job \in Jobs /\ Kept(p) /\ Attached(p)
    <2>1. Running(p)
        BY <1>b, <1>z DEF Running
    <2> QED BY <2>1, NoneQueued DEF Owned, Kept
<1>x. \A l \in BeforeBundle \cup {"failBuild"} : Expected(l) = {"running"}
    BY DEF Expected, BeforeBundle
<1>y. \A l \in {"getJob", "open"} : Expected(l) = {"done"} /\ l \in RunPcs /\ l \notin BeforeBundle
    BY DEF Expected, BeforeBundle, RunPcs, LoadPcs
<1>k. /\ jobs[proc[p].job].status \in {"running", "gone"}
      /\ jobs[proc[p].job].status = "running" => ~jobs[proc[p].job].stale
    BY <1>r, <1>b, <1>x DEF Kept, RowKept
<1>g. ASSUME NEW l PROVE LET s == [proc[p] EXCEPT !.pc = l] IN s.pc = l /\ Carries(s, p)
    BY <1>0 DEF State, Carries
<1>1. ASSUME NEW s, Become(p, s), UNCHANGED jobs, s.job = proc[p].job,
             s.pc \in BeforeBundle, Attached(p)'
      PROVE  Owned'
    <2>1. jobs'[proc[p].job].status \in Expected(s.pc) \cup {"gone"}
        BY <1>1, <1>k, <1>x
    <2> QED BY <1>u, <1>r, <1>k, <1>z, <1>1, <2>1, OwnWrite
<1>2. CASE ReadKnown(p) \/ FetchVideo(p) \/ WriteBundle(p)
    <2>0. UNCHANGED jobs /\ proc[p].pc \in BeforeBundle \ {"attach"}
        BY <1>2 DEF ReadKnown, FetchVideo, WriteBundle, queueVars, At, BeforeBundle
    <2>1. ASSUME NEW s, Become(p, s), Carries(s, p), s.pc \in BeforeBundle PROVE Owned'
        <3>1. Attached(p)'
            BY <1>r, <1>u, <2>0, <2>1, StillAttached DEF Queue!Live
        <3> QED BY <1>1, <2>0, <2>1, <3>1 DEF Carries
    <2>2. CASE ReadKnown(p)
        <3>1. PICK known : Become(p, [proc[p] EXCEPT !.pc = "list", !.known = known])
            BY <2>2 DEF ReadKnown
        <3> DEFINE s == [proc[p] EXCEPT !.pc = "list", !.known = known]
        <3>2. s.pc = "list" /\ Carries(s, p)
            BY <1>0 DEF State, Carries
        <3> HIDE DEF s
        <3> QED BY <2>1, <3>1, <3>2 DEF s, BeforeBundle
    <2>3. CASE FetchVideo(p)
        <3>1. PICK v, b : Become(p, [proc[p] EXCEPT !.pc = "record", !.video = v, !.drafts = b])
            BY <2>3 DEF FetchVideo
        <3> DEFINE s == [proc[p] EXCEPT !.pc = "record", !.video = v, !.drafts = b]
        <3>2. s.pc = "record" /\ Carries(s, p)
            BY <1>0 DEF State, Carries
        <3>3. Become(p, s)
            BY <3>1
        <3> HIDE DEF s
        <3> QED BY <2>1, <3>2, <3>3 DEF BeforeBundle
    <2>4. CASE WriteBundle(p)
        <3> DEFINE s == [proc[p] EXCEPT !.pc = "finish", !.recs = <<>>]
        <3>1. s.pc = "finish" /\ Carries(s, p)
            BY <1>0 DEF State, Carries
        <3>2. Become(p, s)
            BY <2>4 DEF WriteBundle
        <3> HIDE DEF s
        <3> QED BY <2>1, <3>1, <3>2 DEF BeforeBundle
    <2> QED BY <1>2, <2>2, <2>3, <2>4
<1>3. CASE List(p)
    <2> DEFINE c == Resolves[proc[p].input]
    <2>1. PICK listed \in Listings[c], next \in {"nothing", "check", "attach"} :
            /\ Become(p, [proc[p] EXCEPT !.pc = next, !.chan = c, !.gen = gen[c],
                                         !.todo = listed \ proc[p].known, !.known = {}])
            /\ next # "attach" =>
                 proc[p].kind = "update" \/ (proc[p].chan = c /\ proc[p].gen = gen[c])
        BY <1>3 DEF List
    <2> DEFINE s == [proc[p] EXCEPT !.pc = next, !.chan = c, !.gen = gen[c],
                                    !.todo = listed \ proc[p].known, !.known = {}]
    <2>2. s.pc = next /\ s.chan = c /\ s.gen = gen[c] /\ s.job = proc[p].job
        BY <1>0 DEF State
    <2>3. Become(p, s)
        BY <2>1
    <2> HIDE DEF s
    <2>4. proc'[p] = s
        BY <2>3 DEF Shape, Typed, Become
    <2>5. UNCHANGED jobs
        BY <1>3 DEF List, Queue!UpsertChannel
    <2>6. ASSUME Queue!Live(proc[p].job), next # "attach"
          PROVE  jobs[proc[p].job].channel = c
        <3>1. proc[p].pc = "list" /\ "list" \in BeforeBundle \ {"attach"}
            BY <1>3 DEF List, At, BeforeBundle
        <3>2. jobs[proc[p].job].channel = proc[p].chan
            BY <1>r, <2>6, <3>1 DEF Attached
        <3>3. /\ jobs[proc[p].job].status # "none"
              /\ jobs[proc[p].job].kind = proc[p].kind /\ jobs[proc[p].job].input = proc[p].input
            BY <3>1 DEF Book, Described
        <3>4. proc[p].kind = "update" => jobs[proc[p].job].channel = c
            BY <1>r, <3>3 DEF Book, JobRows
        <3> QED BY <2>1, <2>6, <3>2, <3>4
    <2>7. Attached(p)'
        BY <1>u, <2>1, <2>2, <2>4, <2>5, <2>6 DEF Attached, Queue!Live
    <2> QED BY <1>1, <2>1, <2>2, <2>3, <2>5, <2>7 DEF BeforeBundle
<1>4. CASE Attach(p)
    <2> DEFINE j == proc[p].job
               s == [proc[p] EXCEPT !.pc = "check"]
    <2>1. s.pc = "check" /\ Carries(s, p)
        BY <1>g
    <2>2. proc[p].pc = "attach" /\ proc[p].pc \notin BuildPcs
        BY <1>4 DEF Attach, At, BuildPcs
    <2>3. CASE SameChannelRow(p) /\ Queue!UpdateJob(j, "keep", proc[p].chan) /\ Become(p, s)
        <3> DEFINE r == Queue!Updated(j, "keep", proc[p].chan)
        <3>1. jobs' = [jobs EXCEPT ![j] = r] /\ Queue!Live(j)
            BY <2>3 DEF Queue!UpdateJob
        <3>2. jobs \in [Jobs -> Queue!Row]
            BY <1>r, RowTyped DEF Jobs
        <3>3. proc[p].chan # NoChannel
            BY <1>0, <2>2, TableAssumption DEF ProcState, Placed
        <3>4. r.status = jobs[j].status /\ r.channel = proc[p].chan /\ ~r.stale
            BY <1>r, <3>3, UpdatedRow
        <3>5. /\ \A k \in Jobs \ {j} : jobs'[k] = jobs[k]
              /\ jobs'[j].status = jobs[j].status /\ jobs'[j].channel = proc[p].chan
              /\ ~jobs'[j].stale
            <4> HIDE DEF r
            <4> QED BY <1>r, <3>1, <3>2, <3>4
        <3> HIDE DEF r, s
        <3>6. proc'[p] = s
            BY <2>3 DEF Shape, Typed, Become
        <3>7. Attached(p)'
            BY <1>u, <2>1, <2>3, <3>5, <3>6 DEF Attached, Carries, SameChannelRow
        <3>8. jobs'[j].status \in Expected(s.pc) \cup {"gone"}
            BY <1>k, <1>x, <2>1, <3>5 DEF BeforeBundle
        <3> QED BY <1>u, <1>r, <1>z, <2>1, <2>3, <3>5, <3>7, <3>8, OwnWrite DEF Carries, BeforeBundle
    <2>4. CASE ~Queue!Live(j) /\ Become(p, s) /\ UNCHANGED queueVars
        <3> HIDE DEF s
        <3>1. proc'[p] = s /\ UNCHANGED jobs
            BY <2>4 DEF Shape, Typed, Become, queueVars
        <3>2. Attached(p)'
            BY <2>1, <2>4, <3>1 DEF Attached, Carries, Queue!Live
        <3> QED BY <1>1, <2>1, <2>4, <3>1, <3>2 DEF Carries, BeforeBundle
    <2>5. CASE Raise(p)
        BY <1>u, <1>r, <2>2, <2>5, RaiseOwned DEF Raise, queueVars
    <2> QED BY <1>4, <2>3, <2>4, <2>5 DEF Attach, Goto
<1>5. CASE NothingNew(p)
    <2> DEFINE s == [proc[p] EXCEPT !.pc = "getJob"]
    <2>1. s.pc = "getJob" /\ Carries(s, p) /\ StoreUpdate(p, "done", s)
        BY <1>5, <1>g DEF NothingNew
    <2> HIDE DEF s
    <2> QED BY <1>u, <1>r, <1>k, <1>y, <2>1, WriteOwned
<1>6. CASE CheckBundle(p)
    <2>1. CASE bundle[Dir(p)] # NoBundle
        <3> DEFINE s == [proc[p] EXCEPT !.pc = "open", !.todo = {}]
        <3>1. s.pc = "open" /\ Carries(s, p)
            BY <1>0 DEF State, Carries
        <3>2. StoreUpdate(p, "done", s)
            BY <1>6, <2>1 DEF CheckBundle
        <3> HIDE DEF s
        <3> QED BY <1>u, <1>r, <1>k, <1>y, <3>1, <3>2, WriteOwned
    <2>2. CASE bundle[Dir(p)] = NoBundle
        <3> DEFINE s == [proc[p] EXCEPT !.pc = "fetch"]
        <3>1. s.pc = "fetch" /\ Carries(s, p)
            BY <1>g
        <3>2. StoreUpdate(p, "running", s) /\ proc[p].pc = "check"
            BY <1>6, <2>2 DEF CheckBundle, At
        <3> HIDE DEF s
        <3>3. "fetch" \in BeforeBundle /\ "check" \in BeforeBundle \ {"attach"}
            BY DEF BeforeBundle
        <3> QED BY <1>u, <1>r, <1>k, <1>x, <1>z, <3>1, <3>2, <3>3, WriteOwned
    <2> QED BY <2>1, <2>2
<1>7. CASE RecordVideo(p)
    <2>1. CASE SameChannelRow(p)
        <3>1. PICK recs : StoreUpdate(p, "keep", [proc[p] EXCEPT !.pc = "fetch",
                    !.todo = proc[p].todo \ {proc[p].video}, !.drafts = FALSE, !.recs = recs])
            BY <1>7, <2>1 DEF RecordVideo
        <3> DEFINE s == [proc[p] EXCEPT !.pc = "fetch", !.todo = proc[p].todo \ {proc[p].video},
                                        !.drafts = FALSE, !.recs = recs]
        <3>2. s.pc = "fetch" /\ Carries(s, p)
            BY <1>0 DEF State, Carries
        <3>3. StoreUpdate(p, "keep", s)
            BY <3>1
        <3> HIDE DEF s
        <3>4. "fetch" \in BeforeBundle /\ proc[p].pc \in BeforeBundle \ {"attach"}
            BY <1>7 DEF BeforeBundle, RecordVideo, At
        <3> QED BY <1>u, <1>r, <1>k, <1>x, <1>z, <3>2, <3>3, <3>4, WriteOwned
    <2>2. CASE ~SameChannelRow(p)
        <3>1. Raise(p) /\ proc[p].chan \in Channels
            BY <1>0, <1>7, <2>2 DEF RecordVideo, At, ProcState, Placed
        <3>2. proc[p].gen # gen[proc[p].chan] /\ proc[p].gen <= gen[proc[p].chan]
            BY <2>2, <3>1 DEF Loaded, RowKnown, SameChannelRow
        <3>3. ~Queue!Live(proc[p].job)
            BY <1>r, <1>7, <3>1, <3>2, TableAssumption DEF Attached, BeforeBundle, RecordVideo, At
        <3> QED BY <1>u, <1>r, <3>1, <3>3, RaiseOwned DEF Raise, queueVars
    <2> QED BY <2>1, <2>2
<1>8. CASE Finish(p)
    <2> DEFINE s == [proc[p] EXCEPT !.pc = "open"]
    <2>1. s.pc = "open" /\ Carries(s, p) /\ StoreUpdate(p, "done", s)
        BY <1>8, <1>g DEF Finish
    <2> HIDE DEF s
    <2> QED BY <1>u, <1>r, <1>k, <1>y, <2>1, WriteOwned
<1>9. CASE FailBuild(p)
    <2> DEFINE j == proc[p].job
    <2>0. At(p, "failBuild") /\ StoreUpdate(p, "failed", Caught(p)) /\ proc[p].pc \notin BuildPcs
        BY <1>9 DEF FailBuild, At, BuildPcs
    <2>1. Queue!Live(j) => Upset'
        BY <1>u, <1>r, <2>0 DEF Kept, FailedTwice
    <2>2. /\ Become(p, Caught(p))
          /\ \A k \in Jobs \ {j} : jobs'[k] = jobs[k]
          /\ Queue!Live(j) => jobs'[j].status = "failed"
          /\ ~Queue!Live(j) => jobs'[j] = jobs[j]
        BY <1>r, <2>0, StoreUpdateKept
    <2>3. ~Queue!Live(j) => jobs[j].status = "gone"
        BY <1>k DEF Queue!Live, Queue!Statuses, Queue!ActiveStatuses
    <2>4. \/ Caught(p).pc = "fail" /\ Caught(p).job = j
          \/ Caught(p).pc = "exit"
        BY <1>r, <2>0, CaughtState DEF Shape
    <2>5. proc'[p] = Caught(p)
        BY <2>2 DEF Shape, Typed, Become
    <2>6. ASSUME NEW q \in Procs \ {p}, Running(q) PROVE jobs'[proc[q].job] = jobs[proc[q].job]
        BY <1>r, <2>2, <2>6, NoneQueued DEF Owned, Alone
    <2>7. CASE Caught(p).pc = "exit"
        BY <1>u, <2>2, <2>6, <2>7, LeavesRun, ActorOwned DEF RunPcs, BuildPcs, LoadPcs
    <2>8. CASE Caught(p).pc = "fail" /\ Caught(p).job = j
        <3>1. jobs'[j].status \in {"failed", "gone"} /\ jobs'[j].status \in Expected("fail") \cup {"gone"}
            BY <2>2, <2>3 DEF Expected, BeforeBundle
        <3>2. jobs'[j].status = "failed" => Upset'
            BY <2>1, <2>2, <2>3
        <3>3. Kept(p)'
            BY <2>5, <2>8, <3>1, <3>2 DEF Kept, RowKept, FailedTwice, Attached, BeforeBundle, At
        <3> QED BY <1>u, <1>r, <2>2, <2>6, <2>8, <3>3, ActorOwned
    <2> QED BY <2>4, <2>7, <2>8
<1> QED BY <1>2, <1>3, <1>4, <1>5, <1>6, <1>7, <1>8, <1>9 DEF BuildStep

-----------------------------------------------------------------------------
\* A run owns its row, continued: loads, failures, commands and users.

LEMMA LoadOwned ==
    ASSUME Shape, Owned, NEW p \in Procs, LoadStep(p)
    PROVE  Owned'
<1> USE DEF content
<1>0. proc[p] \in ProcState /\ proc[p] \in State
    BY DEF Shape, Typed, ProcState
<1>u. gen' = gen /\ (Upset => Upset')
    BY DEF LoadStep, OpenBundle, LoadVideo, EmbedChunks, MarkEmbedded, LoadDone, GetJob, Upset
<1>b. proc[p].pc \in LoadPcs \cup {"getJob"} /\ proc[p].pc \notin BuildPcs \cup BeforeBundle
    BY DEF LoadStep, OpenBundle, LoadVideo, EmbedChunks, MarkEmbedded, LoadDone, GetJob, At, LoadPcs,
           BuildPcs, BeforeBundle
<1>y. \A l \in LoadPcs \cup {"getJob", "log"} :
            Expected(l) = {"done"} /\ l \in RunPcs \ {"fail", "failBuild"} /\ l \notin BeforeBundle
    BY DEF Expected, BeforeBundle, RunPcs, LoadPcs
<1>r. Running(p) /\ proc[p].job \in Jobs /\ Kept(p)
    <2>1. Running(p)
        BY <1>b, <1>y DEF Running
    <2> QED BY <2>1, NoneQueued DEF Owned
<1>k. jobs[proc[p].job].status \in {"done", "gone"}
    BY <1>r, <1>b, <1>y DEF Kept, RowKept
<1>1. ASSUME NEW s, Become(p, s), UNCHANGED jobs,
             s.job = proc[p].job, s.pc \in LoadPcs \cup {"getJob", "log"}
      PROVE  Owned'
    <2>1. proc'[p] = s
        BY <1>1 DEF Shape, Typed, Become
    <2>2. Attached(p)'
        BY <1>1, <1>y, <2>1 DEF Attached
    <2> QED BY <1>u, <1>r, <1>k, <1>y, <1>1, <2>2, OwnWrite
<1>2. ASSUME Become(p, Caught(p)), UNCHANGED jobs PROVE Owned'
    BY <1>u, <1>r, <1>b, <1>2, RaiseOwned
<1>3. ASSUME NEW s, StoreUpdate(p, "keep", s), Carries(s, p), s.pc \in LoadPcs PROVE Owned'
    <2>1. Expected(proc[p].pc) = Expected(s.pc) /\ s.pc \notin BeforeBundle
          /\ s.pc \in RunPcs \ {"fail", "failBuild"}
        BY <1>b, <1>y, <1>3
    <2> DEFINE j == proc[p].job
    <2>2. /\ Become(p, s)
          /\ \A k \in Jobs \ {j} : jobs'[k] = jobs[k]
          /\ Queue!Live(j) => jobs'[j].status = jobs[j].status
          /\ ~Queue!Live(j) => jobs'[j] = jobs[j]
        BY <1>r, <1>3, StoreUpdateKept
    <2>3. jobs'[j].status \in {"done", "gone"}
        BY <1>k, <2>2
    <2>4. proc'[p] = s
        BY <2>2 DEF Shape, Typed, Become
    <2>5. Attached(p)'
        BY <2>1, <2>4 DEF Attached
    <2> QED BY <1>u, <1>r, <1>y, <1>3, <2>1, <2>2, <2>3, <2>5, OwnWrite DEF Carries
<1>4. CASE OpenBundle(p)
    <2> DEFINE b == bundle[Dir(p)]
               s == [proc[p] EXCEPT !.pc = "load", !.chan = b.chan, !.gen = gen[b.chan],
                                    !.recs = b.recs, !.todo = DOMAIN b.recs]
    <2>1. s.pc = "load" /\ s.job = proc[p].job
        BY <1>0 DEF State
    <2>2. UNCHANGED jobs /\ (Become(p, s) \/ Become(p, Caught(p)))
        BY <1>4 DEF OpenBundle, Raise, queueVars, Queue!UpsertChannel
    <2> HIDE DEF s
    <2> QED BY <1>1, <1>2, <2>1, <2>2 DEF LoadPcs
<1>5. CASE LoadVideo(p)
    <2>1. PICK v :
        \/ Raise(p)
        \/ StoreUpdate(p, "keep", [proc[p] EXCEPT !.pc = "embed", !.video = v])
        \/ StoreUpdate(p, "keep", [proc[p] EXCEPT !.todo = proc[p].todo \ {v}])
        BY <1>5 DEF LoadVideo
    <2> DEFINE s == [proc[p] EXCEPT !.pc = "embed", !.video = v]
               t == [proc[p] EXCEPT !.todo = proc[p].todo \ {v}]
    <2>2. s.pc = "embed" /\ Carries(s, p) /\ t.pc = "load" /\ Carries(t, p)
        BY <1>0, <1>5 DEF State, LoadVideo, At, Carries
    <2>3. StoreUpdate(p, "keep", s) \/ StoreUpdate(p, "keep", t) \/ Raise(p)
        BY <2>1
    <2> HIDE DEF s, t
    <2> QED BY <1>2, <1>3, <2>2, <2>3 DEF Raise, queueVars, LoadPcs
<1>6. CASE EmbedChunks(p) \/ LoadDone(p)
    <2>1. PICK l \in {"mark", "getJob"} : Become(p, [proc[p] EXCEPT !.pc = l]) /\ UNCHANGED jobs
        BY <1>6 DEF EmbedChunks, LoadDone, Goto, queueVars
    <2> DEFINE s == [proc[p] EXCEPT !.pc = l]
    <2>2. s.pc = l /\ s.job = proc[p].job
        BY <1>0 DEF State
    <2> HIDE DEF s
    <2> QED BY <1>1, <2>1, <2>2 DEF LoadPcs, s
<1>7. CASE MarkEmbedded(p)
    <2> DEFINE s == [proc[p] EXCEPT !.pc = "load", !.todo = proc[p].todo \ {proc[p].video}]
    <2>1. s.pc = "load" /\ s.job = proc[p].job
        BY <1>0 DEF State
    <2>2. Become(p, s) /\ UNCHANGED jobs
        BY <1>7 DEF MarkEmbedded, queueVars
    <2> HIDE DEF s
    <2> QED BY <1>1, <2>1, <2>2 DEF LoadPcs
<1>8. CASE GetJob(p)
    <2> DEFINE s == [Idle("log") EXCEPT !.job = proc[p].job]
    <2>1. s.pc = "log" /\ s.job = proc[p].job
        BY DEF Idle
    <2>2. UNCHANGED jobs /\ (Become(p, s) \/ Become(p, Caught(p)) \/ Become(p, Idle("exit")))
        BY <1>8 DEF GetJob, queueVars
    <2> HIDE DEF s
    <2>3. CASE Become(p, Idle("exit"))
        BY <1>u, <2>2, <2>3, IdlePcs, LeavesRun, ActorOwned
    <2> QED BY <1>1, <1>2, <2>1, <2>2, <2>3
<1> QED BY <1>4, <1>5, <1>6, <1>7, <1>8 DEF LoadStep

LEMMA FaultOwned ==
    ASSUME Shape, Owned, NEW p \in Procs, Crash(p) \/ Fault(p) \/ EmbedFault(p)
    PROVE  Owned'
<1> USE DEF content
<1>0. spent \in [DOMAIN Budget -> Nat] /\ DOMAIN Budget = {"crash", "fault", "retry", "delete"}
    BY BudgetAssumption DEF Shape, Typed
<1>1. UNCHANGED jobs /\ gen' = gen
    BY DEF Crash, Fault, EmbedFault, queueVars
<1>2. CASE Crash(p)
    <2>1. PICK l \in {"dead", "exit"} : Become(p, Idle(l))
        BY <1>2 DEF Crash
    <2>2. Upset => Upset'
        BY <1>0, <1>2 DEF Crash, Spend, Upset
    <2> QED BY <1>1, <2>1, <2>2, IdlePcs, LeavesRun, ActorOwned
<1>3. CASE Fault(p) \/ EmbedFault(p)
    <2>1. Running(p)
        BY <1>3 DEF Fault, EmbedFault, Running, At, RunPcs, BuildPcs
    <2>2. Upset'
        BY <1>0, <1>3 DEF Fault, EmbedFault, Spend, Upset
    <2>3. Become(p, Caught(p)) \/ Become(p, Idle("dead"))
        BY <1>3 DEF Fault, EmbedFault
    <2>4. CASE Become(p, Caught(p))
        BY <1>1, <2>1, <2>2, <2>4, RaiseOwned
    <2>5. CASE Become(p, Idle("dead"))
        BY <1>1, <2>2, <2>5, IdlePcs, LeavesRun, ActorOwned
    <2> QED BY <2>3, <2>4, <2>5
<1> QED BY <1>2, <1>3

LEMMA InlineOwned ==
    ASSUME Shape, Book, Owned, NEW p \in Procs,
           InlineCreate(p) \/ InlineRefused(p) \/ \E i \in Inputs : InlineList(p, i)
    PROVE  Owned'
<1> USE DEF content
<1>u. gen' = gen /\ (Upset => Upset')
    BY DEF InlineCreate, InlineRefused, InlineList, Upset
<1>1. CASE InlineCreate(p)
    <2>1. PICK j \in Jobs :
            /\ Queue!CreateJob(j, proc[p].chan, proc[p].input, "ingest", "running")
            /\ Become(p, [proc[p] EXCEPT !.pc = "list", !.job = j])
        BY <1>1 DEF InlineCreate
    <2> DEFINE s == [proc[p] EXCEPT !.pc = "list", !.job = j]
    <2>2. s.pc = "list" /\ s.job = j /\ s.chan = proc[p].chan /\ s.gen = proc[p].gen
        BY DEF Shape, Typed, ProcState, State
    <2>3. Become(p, s)
        BY <2>1
    <2> HIDE DEF s
    <2>4. proc'[p] = s
        BY <2>3 DEF Shape, Typed, Become
    <2>5. /\ jobs'[j].status = "running" /\ jobs'[j].channel = proc[p].chan /\ ~jobs'[j].stale
          /\ \A k \in Jobs \ {j} : jobs'[k] = jobs[k]
        BY <2>1, RowTyped DEF Queue!CreateJob, Jobs
    <2>6. ASSUME NEW q \in Procs, Running(q) PROVE proc[q].job # j /\ proc[q].job \in Jobs
        BY <2>1, <2>6, NoneQueued DEF Queue!CreateJob
    <2>7. Kept(p)'
        BY <1>1, <1>u, <2>2, <2>4, <2>5 DEF Kept, RowKept, FailedTwice, Attached, Expected, BeforeBundle, At,
            InlineCreate, SameChannelRow
    <2> QED BY <1>u, <2>2, <2>3, <2>5, <2>6, <2>7, ActorOwned
<1>2. CASE InlineRefused(p)
    BY <1>u, <1>2, IdlePcs, LeavesRun, ActorOwned DEF InlineRefused, queueVars
<1>3. ASSUME NEW i \in Inputs, InlineList(p, i) PROVE Owned'
    <2> DEFINE s == [Idle("create") EXCEPT !.input = i, !.chan = Resolves[i], !.gen = gen[Resolves[i]]]
    <2>1. s.pc = "create"
        BY DEF Idle
    <2>2. Become(p, s) /\ UNCHANGED jobs
        BY <1>3 DEF InlineList, Queue!UpsertChannel
    <2> HIDE DEF s
    <2>3. "create" \notin RunPcs
        BY DEF RunPcs, BuildPcs, LoadPcs
    <2> QED BY <1>u, <2>1, <2>2, <2>3, LeavesRun, ActorOwned
<1> QED BY <1>1, <1>2, <1>3

\* A user's write to a row that no process runs.
LEMMA OthersRowOwned ==
    ASSUME Shape, Owned, proc' = proc, gen' = gen, Upset => Upset',
           \A q \in Procs : Running(q) => jobs'[proc[q].job] = jobs[proc[q].job]
    PROVE  Owned'
<1>1. \A q \in Procs : Kept(q)'
    BY UnwrittenKept DEF Owned, Unwritten
<1>2. Alone'
    BY DEF Owned, Alone, Running
<1> QED BY <1>1, <1>2 DEF Owned

LEMMA DeleteOwned ==
    ASSUME Shape, Owned, NEW c \in Channels, DeleteChannel(c)
    PROVE  Owned'
<1>0. spent \in [DOMAIN Budget -> Nat] /\ DOMAIN Budget = {"crash", "fault", "retry", "delete"}
    BY BudgetAssumption DEF Shape, Typed
<1>1. (Upset => Upset') /\ proc' = proc /\ Queue!DeleteChannel(c)
    BY <1>0 DEF DeleteChannel, Spend, Upset
<1>2. ASSUME NEW q \in Procs PROVE Kept(q)'
    <2> DEFINE j == proc[q].job
    <2>1. Kept(q)
        BY DEF Owned
    <2>2. ASSUME Running(q)
          PROVE  \/ jobs'[j] = jobs[j] /\ ~(Queue!Live(j) /\ jobs[j].channel = c)
                 \/ jobs'[j].status = "gone" /\ ~jobs'[j].stale
        BY <1>1, <2>2, NoneQueued, DeletedRow
    <2>3. proc[q].pc \in BeforeBundle \cup {"failBuild", "fail"} => Running(q)
        BY DEF Running, RunPcs, BuildPcs, BeforeBundle
    <2>4. RowKept(q)'
        BY <1>1, <2>1, <2>2 DEF Kept, RowKept, Running
    <2>5. FailedTwice(q)'
        <3>1. CASE ~Running(q)
            BY <1>1, <2>3, <3>1 DEF FailedTwice, At
        <3>2. CASE Running(q)
            <4>1. "gone" \notin Queue!Statuses \cup {"failed"}
                BY DEF Queue!Statuses, Queue!ActiveStatuses
            <4>2. jobs'[j].status \in Queue!Statuses \cup {"failed"} => jobs'[j] = jobs[j]
                BY <2>2, <3>2, <4>1
            <4> QED BY <1>1, <2>1, <4>2 DEF Kept, FailedTwice, At, Queue!Live
        <3> QED BY <3>1, <3>2
    <2>6. ASSUME proc[q].pc \in BeforeBundle \ {"attach"}, jobs'[j].status \in Queue!Statuses
          PROVE  /\ jobs'[j].channel = proc[q].chan
                 /\ proc[q].chan # NoChannel => proc[q].gen = gen'[proc[q].chan]
        <3>1. "gone" \notin Queue!Statuses
            BY DEF Queue!Statuses, Queue!ActiveStatuses
        <3>2. jobs'[j] = jobs[j] /\ Queue!Live(j) /\ jobs[j].channel # c
            BY <2>2, <2>3, <2>6, <3>1 DEF Queue!Live
        <3>3. /\ jobs[j].channel = proc[q].chan
              /\ proc[q].chan # NoChannel => proc[q].gen = gen[proc[q].chan]
            BY <2>1, <2>6, <3>2 DEF Kept, Attached
        <3>4. proc[q].chan # NoChannel => gen'[proc[q].chan] = gen[proc[q].chan]
            BY <3>2, <3>3 DEF DeleteChannel, Shape, Typed, ProcState, State
        <3> QED BY <3>2, <3>3, <3>4
    <2>7. Attached(q)'
        BY <1>1, <2>6 DEF Attached, Queue!Live
    <2> QED BY <2>4, <2>5, <2>7 DEF Kept
<1>3. Alone'
    BY <1>1 DEF Owned, Alone, Running
<1> QED BY <1>2, <1>3 DEF Owned

\* Retrying needs Calm after the retry: then no failure was recorded whose
\* process is still running.
LEMMA UserOwned ==
    ASSUME Shape, Owned, Sluggish = {}, Calm',
           \/ \E i \in Inputs : EnqueueIngest(i)
           \/ \E c \in Channels : EnqueueUpdate(c) \/ DeleteChannel(c) \/ PurgeBundles(c)
           \/ \E j \in Jobs : RetryJob(j) \/ CancelJob(j) \/ HeartbeatLapses(j)
    PROVE  Owned'
<1> USE DEF content
<1>0. spent \in [DOMAIN Budget -> Nat] /\ DOMAIN Budget = {"crash", "fault", "retry", "delete"}
    BY BudgetAssumption DEF Shape, Typed
<1>t. jobs \in [Jobs -> Queue!Row]
    BY SameTable DEF Shape, Table!IInv, Queue!TypeOK, Jobs
<1>1. ASSUME NEW j \in Jobs, NEW c, NEW i, NEW kind, Queue!CreateJob(j, c, i, kind, "queued"),
             UNCHANGED <<content, proc, spent>>
      PROVE  Owned'
    <2>1. jobs[j].status = "none" /\ \A k \in Jobs \ {j} : jobs'[k] = jobs[k]
        BY <1>1, <1>t DEF Queue!CreateJob
    <2>2. ASSUME NEW q \in Procs, Running(q) PROVE jobs'[proc[q].job] = jobs[proc[q].job]
        BY <2>1, <2>2, NoneQueued
    <2> QED BY <1>1, <2>2, OthersRowOwned DEF Upset
<1>2. ASSUME NEW i \in Inputs, EnqueueIngest(i) PROVE Owned'
    BY <1>1, <1>2 DEF EnqueueIngest
<1>3. ASSUME NEW c \in Channels, EnqueueUpdate(c) PROVE Owned'
    BY <1>1, <1>3 DEF EnqueueUpdate
<1>4. ASSUME NEW c \in Channels, PurgeBundles(c) PROVE Owned'
    BY <1>4, OthersRowOwned DEF PurgeBundles, queueVars, Upset
<1>5. ASSUME NEW j \in Jobs, CancelJob(j) PROVE Owned'
    <2>1. jobs[j].status = "queued" /\ \A k \in Jobs \ {j} : jobs'[k] = jobs[k]
        BY <1>5, <1>t DEF CancelJob, Queue!CancelJob
    <2>2. ASSUME NEW q \in Procs, Running(q) PROVE jobs'[proc[q].job] = jobs[proc[q].job]
        BY <2>1, <2>2, NoneQueued
    <2> QED BY <1>5, <2>2, OthersRowOwned DEF CancelJob, Upset
<1>6. ASSUME NEW j \in Jobs, HeartbeatLapses(j) PROVE Owned'
    <2>1. \A k \in Jobs \ {j} : jobs'[k] = jobs[k]
        BY <1>6, <1>t DEF HeartbeatLapses, Queue!HeartbeatLapses
    <2>2. ASSUME NEW q \in Procs, Running(q) PROVE jobs'[proc[q].job] = jobs[proc[q].job]
        BY <1>6, <2>1, <2>2, NoneQueued DEF HeartbeatLapses
    <2> QED BY <1>6, <2>2, OthersRowOwned DEF HeartbeatLapses, Upset
<1>7. ASSUME NEW j \in Jobs, RetryJob(j) PROVE Owned'
    <2>1. jobs[j].status = "failed" /\ \A k \in Jobs \ {j} : jobs'[k] = jobs[k]
        BY <1>7, <1>t DEF RetryJob, Queue!RetryJob
    <2>2. ~Upset
        BY <1>0, <1>7 DEF RetryJob, Spend, Calm, Upset
    <2>3. ASSUME NEW q \in Procs, Running(q) PROVE jobs'[proc[q].job] = jobs[proc[q].job]
        BY <2>1, <2>2, <2>3, NoneQueued
    <2> QED BY <1>7, <2>2, <2>3, OthersRowOwned DEF RetryJob
<1> QED BY <1>2, <1>3, <1>4, <1>5, <1>6, <1>7, DeleteOwned

\* One lemma for each family of steps above; together every step keeps a run in possession of its row.
LEMMA NextOwned ==
    ASSUME Shape, Loaded, Book, Owned, Sluggish = {}, Calm', [Next]_vars
    PROVE  Owned'
<1>1. CASE Next
    BY <1>1, DaemonOwned, BuildOwned, LoadOwned, FaultOwned, InlineOwned, UserOwned
       DEF Next, UserStep, WorkerStep, CliStep, RunStep, BuildStep, LoadStep, Procs
<1>2. CASE UNCHANGED vars
    BY <1>2, OthersRowOwned DEF vars, queueVars, content, Upset
<1> QED BY <1>1, <1>2

LEMMA InitOwned == Init => Owned
<1> SUFFICES ASSUME Init PROVE Owned
    OBVIOUS
<1>1. ASSUME NEW p \in Procs PROVE ~Running(p) /\ proc[p].pc \in {"poll", "idle"}
    <2>1. PICK l \in {"poll", "idle"} : proc[p] = Idle(l)
        BY DEF Init
    <2>2. proc[p].pc = l
        BY <2>1, IdleState DEF Pcs
    <2> QED BY <2>2 DEF Running, RunPcs, BuildPcs, LoadPcs
<1> QED BY <1>1 DEF Owned, Alone, Kept, RowKept, FailedTwice, Attached, At, BeforeBundle

\* The inductive invariant of the three theorems on builders.
OwnedInv == Shape /\ Loaded /\ Book /\ (Calm => Owned)

LEMMA NextOwnedInv ==
    ASSUME Sluggish = {}, OwnedInv, [Next]_vars
    PROVE  OwnedInv'
<1>1. Shape' /\ Loaded' /\ Book'
    BY NextShape, NextLoaded, NextBook DEF OwnedInv
<1>2. Calm' => Calm
    <2>0. /\ DOMAIN Budget = {"crash", "fault", "retry", "delete"}
          /\ spent \in [DOMAIN Budget -> Nat] /\ spent' \in [DOMAIN Budget -> Nat]
        BY <1>1, BudgetAssumption DEF OwnedInv, Shape, Typed
    <2>1. CASE Next
        <3>1. \A k \in DOMAIN Budget : spent[k] <= spent'[k]
            BY <2>1, SpendGrows DEF OwnedInv
        <3> QED BY <2>0, <3>1 DEF Calm
    <2>2. CASE UNCHANGED vars
        BY <2>2 DEF vars, Calm
    <2> QED BY <2>1, <2>2
<1> QED BY <1>1, <1>2, NextOwned DEF OwnedInv

\* The layered invariant behind the next theorems holds while no process is slower than its heartbeat.
THEOREM OwnedInvariant ==
    ASSUME Sluggish = {}
    PROVE  Spec => []OwnedInv
<1>1. Init => OwnedInv
    BY InitShape, InitLoaded, InitBook, InitOwned DEF OwnedInv
<1>2. OwnedInv /\ [Next]_vars => OwnedInv'
    BY NextOwnedInv
<1> QED BY <1>1, <1>2, PTL DEF Spec

\* No retry is made, or nothing raises.  A run that raised has its row written failed twice; a retry in between
\* gives the row to a second process while the first is still in its handler.
QuietRetries == Budget["retry"] = 0 \/ Budget["fault"] = 0

LEMMA AlwaysCalm == Shape /\ QuietRetries => Calm
BY BudgetAssumption DEF Shape, Typed, QuietRetries, Calm

\* A build owns its row of ingest_jobs: while it works the row is running, or the channel was deleted; nobody
\* cancels, reclaims or finishes it.  Sluggish = {} says that a living process beats within the interval of
\* reclaim_stale_jobs (the zombie run shows the failure otherwise).
THEOREM OwnsRow ==
    ASSUME Sluggish = {}, QuietRetries
    PROVE  Spec => []BuilderOwnsRow
<1>1. OwnedInv => BuilderOwnsRow
    <2> SUFFICES ASSUME OwnedInv, NEW p \in Procs, Building(p)
                 PROVE  jobs[proc[p].job].status \in {"running", "gone"}
        BY DEF BuilderOwnsRow
    <2>1. Owned
        BY AlwaysCalm DEF OwnedInv
    <2> QED BY <2>1 DEF Owned, Kept, RowKept, Expected, BeforeBundle, Building, Running, RunPcs, BuildPcs
<1>2. Spec => []OwnedInv
    BY OwnedInvariant
<1> QED BY <1>1, <1>2, PTL

\* Two builds whose rows are there build different channels.
OneLiveBuilder ==
    \A p, q \in Procs :
        p # q /\ Building(p) /\ Building(q) /\ Queue!Live(proc[p].job) /\ Queue!Live(proc[q].job) =>
            proc[p].chan # proc[q].chan

LEMMA OwnedAlone == OwnedInv /\ Calm => OneLiveBuilder
<1> SUFFICES ASSUME OwnedInv, Calm, NEW p \in Procs, NEW q \in Procs, p # q, Building(p), Building(q),
                    Queue!Live(proc[p].job), Queue!Live(proc[q].job), proc[p].chan = proc[q].chan
             PROVE  FALSE
    BY DEF OneLiveBuilder
<1> USE DEF OwnedInv
<1>1. ASSUME NEW x \in {p, q}
      PROVE  /\ Running(x) /\ proc[x].job \in Jobs /\ proc[x].chan \in Channels
             /\ jobs[proc[x].job].status = "running" /\ jobs[proc[x].job].channel = proc[x].chan
    <2>1. proc[x].pc \in BeforeBundle \ {"attach"} /\ proc[x].pc \in Placed /\ Running(x)
        BY DEF Building, BuildPcs, BeforeBundle, Placed, Running, RunPcs
    <2>2. Kept(x) /\ proc[x].job \in Jobs /\ proc[x].chan \in Channels
        BY <2>1 DEF Owned, Shape, Typed, ProcState, Running
    <2>3. Expected(proc[x].pc) = {"running"}
        BY <2>1 DEF Expected, BeforeBundle
    <2>4. jobs[proc[x].job].status # "gone"
        BY DEF Queue!Live, Queue!Statuses, Queue!ActiveStatuses
    <2> QED BY <2>1, <2>2, <2>3, <2>4 DEF Kept, RowKept, Attached
<1>2. proc[p].job # proc[q].job
    BY <1>1 DEF Owned, Alone
<1>3. Table!SameKey(jobs[proc[p].job], jobs[proc[q].job])
    BY <1>1, TableAssumption DEF Table!SameKey, Table!ActiveStatuses
<1> QED BY <1>1, <1>2, <1>3 DEF Shape, Table!IInv, Table!OneActiveJobPerKey, Table!Jobs, Queue!Jobs, Jobs

\* With deletions: no two processes build one channel for two rows that are both there.
THEOREM OneLive ==
    ASSUME Sluggish = {}, QuietRetries
    PROVE  Spec => []OneLiveBuilder
<1>1. OwnedInv => OneLiveBuilder
    BY AlwaysCalm, OwnedAlone DEF OwnedInv
<1>2. Spec => []OwnedInv
    BY OwnedInvariant
<1> QED BY <1>1, <1>2, PTL

-----------------------------------------------------------------------------
\* Without deletions a channel has one builder.

\* Only a deletion removes a row of the table of channels.
LEMMA ChannelsStay ==
    ASSUME Shape, Next
    PROVE  channels \subseteq channels' \/ spent'["delete"] > 0
<1>0. DOMAIN Budget = {"crash", "fault", "retry", "delete"} /\ spent \in [DOMAIN Budget -> Nat]
    BY BudgetAssumption DEF Shape, Typed
<1>1. ASSUME NEW p \in Procs, NEW status, NEW next, StoreUpdate(p, status, next)
      PROVE  channels' = channels
    BY <1>1, StoreUpdateMoves
<1>2. ASSUME NEW p \in Procs,
             Reclaim(p) \/ Claim(p) \/ NothingToClaim(p) \/ Fail(p) \/ Log(p) \/ Restart(p)
      PROVE  channels' = channels
    BY <1>1, <1>2 DEF Reclaim, Claim, NothingToClaim, Fail, Log, Restart, queueVars,
        Queue!ReclaimStaleJobs, Queue!ClaimNextQueuedJob
<1>3. ASSUME NEW p \in Procs, BuildStep(p)
      PROVE  channels \subseteq channels'
    <2>1. CASE ReadKnown(p) \/ FetchVideo(p) \/ WriteBundle(p)
        BY <2>1 DEF ReadKnown, FetchVideo, WriteBundle, queueVars
    <2>2. CASE List(p)
        BY <2>2 DEF List, Queue!UpsertChannel
    <2>3. CASE Attach(p)
        BY <2>3 DEF Attach, Queue!UpdateJob, Raise, queueVars
    <2>4. CASE NothingNew(p) \/ CheckBundle(p) \/ Finish(p) \/ FailBuild(p)
        BY <1>1, <2>4 DEF NothingNew, CheckBundle, Finish, FailBuild
    <2>5. CASE RecordVideo(p)
        BY <1>1, <2>5 DEF RecordVideo, Raise, queueVars
    <2> QED BY <1>3, <2>1, <2>2, <2>3, <2>4, <2>5 DEF BuildStep
<1>4. ASSUME NEW p \in Procs, LoadStep(p)
      PROVE  channels \subseteq channels'
    <2>1. CASE OpenBundle(p)
        BY <2>1 DEF OpenBundle, Queue!UpsertChannel, Raise, queueVars
    <2>2. CASE LoadVideo(p)
        BY <1>1, <2>2 DEF LoadVideo, Raise, queueVars
    <2>3. CASE EmbedChunks(p) \/ MarkEmbedded(p) \/ LoadDone(p) \/ GetJob(p)
        BY <2>3 DEF EmbedChunks, MarkEmbedded, LoadDone, GetJob, queueVars
    <2> QED BY <1>4, <2>1, <2>2, <2>3 DEF LoadStep
<1>5. ASSUME NEW p \in Procs,
             \/ InlineCreate(p) \/ InlineRefused(p) \/ \E i \in Inputs : InlineList(p, i)
             \/ Crash(p) \/ Fault(p) \/ EmbedFault(p)
      PROVE  channels \subseteq channels'
    BY <1>5 DEF InlineCreate, InlineRefused, InlineList, Crash, Fault, EmbedFault, queueVars,
        Queue!CreateJob, Queue!UpsertChannel
<1>6. ASSUME \/ \E i \in Inputs : EnqueueIngest(i)
             \/ \E c \in Channels : EnqueueUpdate(c) \/ PurgeBundles(c)
             \/ \E j \in Jobs : RetryJob(j) \/ CancelJob(j) \/ HeartbeatLapses(j)
      PROVE  channels' = channels
    BY <1>6 DEF EnqueueIngest, EnqueueUpdate, PurgeBundles, RetryJob, CancelJob, HeartbeatLapses, queueVars,
        Queue!CreateJob, Queue!RetryJob, Queue!CancelJob, Queue!HeartbeatLapses
<1>7. ASSUME NEW c \in Channels, DeleteChannel(c) PROVE spent'["delete"] > 0
    BY <1>0, <1>7 DEF DeleteChannel, Spend
<1> QED BY <1>2, <1>3, <1>4, <1>5, <1>6, <1>7
        DEF Next, UserStep, WorkerStep, CliStep, RunStep, BuildStep, LoadStep, Procs

\* A row is gone only after a deletion.
NoneGone == \A j \in Jobs : jobs[j].status = "gone" => spent["delete"] > 0

\* Rows go only in a store call that removes a channel as well.
LEMMA GoneWithChannel ==
    ASSUME Shape, [Queue!Next]_queueVars, channels \subseteq channels', NEW j \in Jobs,
           jobs'[j].status = "gone"
    PROVE  jobs[j].status = "gone"
<1>0. jobs[j] \in Queue!Row /\ jobs \in [Queue!Jobs -> Queue!Row] /\ j \in Queue!Jobs
    BY RowTyped
<1>1. ASSUME NEW c \in Channels, Queue!UpsertChannel(c) \/ Queue!DeleteChannel(c)
      PROVE  jobs[j].status = "gone"
    BY <1>1 DEF Queue!UpsertChannel, Queue!DeleteChannel
<1>2. CASE Queue!Create
    BY <1>0, <1>2 DEF Queue!Create, Queue!CreateJob, Queue!ActiveStatuses
<1>3. CASE Queue!Update
    <2>1. PICK k \in Queue!Jobs, c \in Channels \cup {NoChannel},
               status \in {"keep", "running", "done", "failed"} : Queue!UpdateJob(k, status, c)
        BY <1>3 DEF Queue!Update
    <2> QED BY <1>0, <2>1, UpdatedRow DEF Jobs, Queue!UpdateJob
<1>4. CASE \E k \in Queue!Jobs : \/ Queue!ClaimNextQueuedJob(k) \/ Queue!RetryJob(k)
                                 \/ Queue!CancelJob(k) \/ Queue!HeartbeatLapses(k)
    <2>1. ASSUME NEW k \in Queue!Jobs, Queue!ClaimNextQueuedJob(k) PROVE jobs[j].status = "gone"
        BY <1>0, <2>1 DEF Queue!ClaimNextQueuedJob, Queue!Row
    <2>2. ASSUME NEW k \in Queue!Jobs, Queue!RetryJob(k) PROVE jobs[j].status = "gone"
        BY <1>0, <2>2 DEF Queue!RetryJob, Queue!Row
    <2>3. ASSUME NEW k \in Queue!Jobs, Queue!CancelJob(k) PROVE jobs[j].status = "gone"
        BY <1>0, <2>3 DEF Queue!CancelJob, Queue!Row
    <2>4. ASSUME NEW k \in Queue!Jobs, Queue!HeartbeatLapses(k) PROVE jobs[j].status = "gone"
        BY <1>0, <2>4 DEF Queue!HeartbeatLapses, Queue!Row
    <2> QED BY <1>4, <2>1, <2>2, <2>3, <2>4
<1>5. CASE Queue!ReclaimStaleJobs
    BY <1>5, ReclaimedOrNot
<1>6. CASE UNCHANGED queueVars
    BY <1>6 DEF queueVars
<1> QED BY <1>1, <1>2, <1>3, <1>4, <1>5, <1>6 DEF Queue!Next

LEMMA NextNoneGone == Shape /\ NoneGone /\ [Next]_vars => NoneGone'
<1> SUFFICES ASSUME Shape, NoneGone, [Next]_vars PROVE NoneGone'
    OBVIOUS
<1>0. /\ DOMAIN Budget = {"crash", "fault", "retry", "delete"}
      /\ spent \in [DOMAIN Budget -> Nat] /\ spent' \in [DOMAIN Budget -> Nat]
    BY NextShape, BudgetAssumption DEF Shape, Typed
<1>1. CASE Next
    <2>1. spent["delete"] <= spent'["delete"]
        BY <1>0, <1>1, SpendGrows
    <2>2. ASSUME NEW j \in Jobs, jobs'[j].status = "gone" PROVE spent'["delete"] > 0
        BY <1>0, <1>1, <2>1, <2>2, ChannelsStay, GoneWithChannel, NextShape DEF NoneGone
    <2> QED BY <2>2 DEF NoneGone, Jobs, Queue!Jobs
<1>2. CASE UNCHANGED vars
    BY <1>2 DEF vars, queueVars, NoneGone, Jobs, Queue!Jobs
<1> QED BY <1>1, <1>2

LEMMA InitNoneGone == Init => NoneGone
BY DEF Init, Queue!Init, NoneGone, Jobs

LEMMA NothingDeleted ==
    ASSUME Shape, NoneGone, Book, Budget["delete"] = 0
    PROVE  /\ spent["delete"] = 0
           /\ \A j \in Jobs : jobs[j].status # "gone"
           /\ \A c \in Channels : gen[c] = 0
<1>1. spent["delete"] = 0
    BY BudgetAssumption DEF Shape, Typed
<1> QED BY <1>1 DEF NoneGone, Book, Shape, Typed

\* Without deletions no two processes build the same channel at a time.  With one it may happen: a run whose row
\* is gone upserts its channel again, beside the run of a new job.
THEOREM OneBuilder ==
    ASSUME Sluggish = {}, QuietRetries, Budget["delete"] = 0
    PROVE  Spec => []OneBuilderPerChannel
<1>1. OwnedInv /\ NoneGone => OneBuilderPerChannel
    <2> SUFFICES ASSUME OwnedInv, NoneGone, NEW p \in Procs, NEW q \in Procs, p # q, Building(p), Building(q),
                        <<proc[p].chan, proc[p].gen>> = <<proc[q].chan, proc[q].gen>>
                 PROVE  FALSE
        BY DEF OneBuilderPerChannel
    <2>1. OneLiveBuilder /\ Owned
        BY AlwaysCalm, OwnedAlone DEF OwnedInv
    <2>2. ASSUME NEW x \in {p, q} PROVE Queue!Live(proc[x].job)
        <3>1. Running(x) /\ proc[x].job \in Jobs /\ Kept(x)
            BY <2>1 DEF OwnedInv, Shape, Typed, ProcState, Owned, Building, Running, RunPcs
        <3>2. Expected(proc[x].pc) = {"running"}
            BY DEF Expected, BeforeBundle, Building, BuildPcs
        <3>3. jobs[proc[x].job].status # "gone"
            BY <3>1, NothingDeleted DEF OwnedInv
        <3> QED BY <3>1, <3>2, <3>3 DEF Kept, RowKept, Queue!Live, Queue!Statuses, Queue!ActiveStatuses
    <2> QED BY <2>1, <2>2 DEF OneLiveBuilder
<1>2. Spec => []OwnedInv
    BY OwnedInvariant
<1>3. Spec => []NoneGone
    <2>1. Init => NoneGone
        BY InitNoneGone
    <2>2. Shape /\ NoneGone /\ [Next]_vars => NoneGone'
        BY NextNoneGone
    <2> QED BY <2>1, <2>2, ShapeInvariant, PTL DEF Spec
<1> QED BY <1>1, <1>2, <1>3, PTL

-----------------------------------------------------------------------------
\* What a quiet system has made searchable: Plan.

\* default_bundle_dir gives two channels two directories.
SlugsSeparate == \A i, k \in Inputs : Slug[i] = Slug[k] => Resolves[i] = Resolves[k]

\* Nothing raised and nobody was killed.
Unhurt == spent["fault"] = 0 /\ spent["crash"] = 0

\* v is recorded with drafts.
Bound(recs, v) == v \in DOMAIN recs /\ recs[v].drafts
\* p will store the chunks of v before it is done.
WillEmbed(p, v) ==
    \/ At(p, "fetch") /\ Bound(proc[p].recs, v)
    \/ At(p, "record") /\ (Bound(proc[p].recs, v) \/ (proc[p].video = v /\ proc[p].drafts))
    \/ proc[p].pc \in {"finish", "open"} /\ Bound(bundle[Dir(p)].recs, v)
    \/ At(p, "load") /\ v \in proc[p].todo /\ Bound(proc[p].recs, v)
    \/ proc[p].pc \in {"embed", "mark"} /\ v \in proc[p].todo \ {proc[p].video} /\ Bound(proc[p].recs, v)
\* v has chunks or will get them.
Pledged(v) == chunks[v] # "none" \/ \E p \in Procs : WillEmbed(p, v)

\* Only a process that is storing the chunks of v makes them unsearchable.
Embedding(v) == \/ chunks[v] \in {"none", "searchable"}
                \/ chunks[v] \in Procs /\ At(chunks[v], "embed") /\ proc[chunks[v]].video = v

\* A bundle, or records in hand, say embedded only of such videos.
PledgedRecords(recs) == \A v \in DOMAIN recs : recs[v].status = "embedded" => Pledged(v)

\* A build fetches only while its directory has no bundle, and opens what it has written.
OwnDir(p) ==
    /\ proc[p].pc \in {"fetch", "record"} => /\ bundle[Dir(p)] = NoBundle
                                             /\ proc[p].todo \cap DOMAIN proc[p].recs = {}
    /\ proc[p].pc \in {"finish", "open"} => bundle[Dir(p)] # NoBundle

\* Everything recorded as embedded is pledged, and every directory is the property of one build.
Plan ==
    /\ purging = {}
    /\ \A v \in Videos : Embedding(v) /\ (vstatus[v] = "embedded" => Pledged(v))
    /\ \A d \in Dirs : PledgedRecords(bundle[d].recs)
    /\ \A p \in Procs : PledgedRecords(proc[p].recs) /\ OwnDir(p)

\* Nothing was deleted, nothing raised.
Peace ==
    /\ OwnedInv /\ Owned /\ ~Upset
    /\ \A j \in Jobs : jobs[j].status # "gone"
    /\ \A c \in Channels : gen[c] = 0

LEMMA PeaceOfProc ==
    ASSUME Peace, NEW p \in Procs
    PROVE  /\ proc[p].chan \in Channels => SameChannelRow(p)
           /\ ~At(p, "failBuild")
           /\ Running(p) => proc[p].job \in Jobs /\ Queue!Live(proc[p].job)
<1>1. proc[p] \in ProcState /\ proc[p].gen \in Nat
    BY DEF Peace, OwnedInv, Shape, Typed, ProcState, State
<1>2. proc[p].chan \in Channels => SameChannelRow(p)
    BY <1>1 DEF Peace, OwnedInv, Loaded, RowKnown, SameChannelRow
<1>3. ASSUME Running(p) PROVE proc[p].job \in Jobs /\ Queue!Live(proc[p].job)
    <2>1. /\ proc[p].job \in Jobs
          /\ jobs[proc[p].job].status \in {"running", "done", "failed", "gone"}
        BY <1>3, NoneQueued DEF Peace, OwnedInv
    <2> QED BY <2>1 DEF Peace, Queue!Live, Queue!Statuses, Queue!ActiveStatuses
<1>4. ~At(p, "failBuild")
    BY <1>3 DEF Peace, Owned, Kept, FailedTwice, At, Running, RunPcs
<1> QED BY <1>2, <1>3, <1>4

\* Two processes never fetch into one directory.
LEMMA SeparateDirs ==
    ASSUME Peace, SlugsSeparate, NEW p \in Procs, NEW q \in Procs, p # q,
           proc[p].pc \in {"fetch", "record"}, proc[q].pc \in {"fetch", "record"}
    PROVE  Dir(p) # Dir(q)
<1>1. /\ Building(p) /\ Building(q) /\ Running(p) /\ Running(q)
      /\ proc[p].pc \in BeforeBundle \ {"known", "list"} /\ proc[q].pc \in BeforeBundle \ {"known", "list"}
    BY DEF Building, BuildPcs, Running, RunPcs, BeforeBundle
<1>2. Calm
    BY BudgetAssumption DEF Peace, Calm, Upset, OwnedInv, Shape, Typed
<1>3. proc[p].chan # proc[q].chan
    BY <1>1, <1>2, PeaceOfProc, OwnedAlone DEF Peace, OneLiveBuilder
<1>4. proc[p].job # proc[q].job
    BY <1>1 DEF Peace, Owned, Alone
<1>5. Resolves[proc[p].input] # Resolves[proc[q].input]
    BY <1>1, <1>3 DEF Peace, OwnedInv, Book, Described
<1>6. proc[p].input \in Inputs /\ proc[q].input \in Inputs
    BY DEF Peace, OwnedInv, Shape, Typed, ProcState, State
<1>7. Slug[proc[p].input] # Slug[proc[q].input]
    BY <1>5, <1>6 DEF SlugsSeparate
<1> QED BY <1>4, <1>7 DEF Dir

\* The directory of a process in local state s.
DirOf(s) == IF s.kind = "update" THEN <<"update", s.job>> ELSE <<"main", Slug[s.input]>>

\* What a step of p must do for the others' pledges to stand.
LEMMA PlanKept ==
    ASSUME Peace, SlugsSeparate, Plan, purging' = {},
           NEW p \in Procs, NEW s, Become(p, s),
           \A d \in Dirs : \/ bundle'[d] = bundle[d]
                           \/ /\ At(p, "fetch") /\ d = Dir(p)
                              /\ bundle'[d] # NoBundle /\ bundle'[d].recs = proc[p].recs,
           \A v \in Videos :
                /\ chunks[v] # "none" => chunks'[v] # "none"
                /\ \/ chunks'[v] = "searchable"
                   \/ chunks'[v] = chunks[v] /\ (chunks[v] \in {"none", "searchable"} \/ chunks[v] # p)
                   \/ chunks'[v] = p /\ s.pc = "embed" /\ s.video = v
                /\ WillEmbed(p, v) => Pledged(v)'
                /\ vstatus'[v] = "embedded" => vstatus[v] = "embedded" \/ Pledged(v) \/ Pledged(v)',
           DOMAIN s.recs \subseteq Videos,
           \A v \in DOMAIN s.recs : s.recs[v].status = "embedded" => Pledged(v) \/ Pledged(v)',
           s.pc \in {"fetch", "record"} => /\ bundle'[DirOf(s)] = NoBundle
                                           /\ s.todo \cap DOMAIN s.recs = {},
           s.pc \in {"finish", "open"} => bundle'[DirOf(s)] # NoBundle
    PROVE  Plan'
<1>0. proc'[p] = s /\ \A q \in Procs \ {p} : proc'[q] = proc[q]
    BY DEF Peace, OwnedInv, Shape, Typed, Become
<1>d. ASSUME NEW q \in Procs, proc[q].pc \in {"fetch", "record", "finish", "open"} PROVE Dir(q) \in Dirs
    BY <1>d, DirOfProc DEF Peace, OwnedInv, Shape, Running, RunPcs, BuildPcs, LoadPcs
<1>1. ASSUME NEW v \in Videos, Pledged(v) PROVE Pledged(v)'
    <2>1. CASE chunks[v] # "none"
        BY <2>1 DEF Pledged
    <2>2. CASE WillEmbed(p, v)
        BY <2>2
    <2>3. ASSUME NEW q \in Procs \ {p}, WillEmbed(q, v) PROVE Pledged(v)'
        <3>1. proc'[q] = proc[q] /\ Dir(q)' = Dir(q)
            BY <1>0 DEF Dir
        <3>2. proc[q].pc \in {"finish", "open"} => bundle'[Dir(q)] = bundle[Dir(q)]
            <4> SUFFICES ASSUME proc[q].pc \in {"finish", "open"}, bundle'[Dir(q)] # bundle[Dir(q)]
                         PROVE  FALSE
                OBVIOUS
            <4>1. At(p, "fetch") /\ Dir(q) = Dir(p)
                BY <1>d
            <4> QED BY <4>1 DEF Plan, OwnDir, At
        <3>3. WillEmbed(q, v)'
            BY <2>3, <3>1, <3>2 DEF WillEmbed, At
        <3> QED BY <3>3 DEF Pledged
    <2> QED BY <1>1, <2>1, <2>2, <2>3 DEF Pledged
<1>2. ASSUME NEW v \in Videos PROVE Embedding(v)' /\ (vstatus'[v] = "embedded" => Pledged(v)')
    <2>1. vstatus'[v] = "embedded" => Pledged(v)'
        BY <1>1 DEF Plan
    <2>2. Embedding(v)'
        BY <1>0 DEF Plan, Embedding, At
    <2> QED BY <2>1, <2>2
<1>p. \A q \in Procs : DOMAIN proc[q].recs \subseteq Videos
    BY DEF Peace, OwnedInv, Shape, Typed, ProcState, State, Records
<1>b. \A d \in Dirs : DOMAIN bundle[d].recs \subseteq Videos
    BY NoRecords DEF Peace, OwnedInv, Shape, Typed, Bundles, NoBundle, Records
<1>3. ASSUME NEW d \in Dirs PROVE PledgedRecords(bundle[d].recs)'
    BY <1>1, <1>p, <1>b DEF Plan, PledgedRecords
<1>4. ASSUME NEW q \in Procs PROVE PledgedRecords(proc[q].recs)'
    BY <1>0, <1>1, <1>p DEF Plan, PledgedRecords
<1>5. ASSUME NEW q \in Procs PROVE OwnDir(q)'
    <2>1. CASE q = p
        <3>1. Dir(p)' = DirOf(s)
            BY <1>0 DEF Dir, DirOf
        <3> QED BY <1>0, <2>1, <3>1 DEF OwnDir
    <2>2. CASE q # p
        <3>1. proc'[q] = proc[q] /\ Dir(q)' = Dir(q) /\ OwnDir(q)
            BY <1>0, <2>2 DEF Dir, Plan
        <3>2. CASE proc[q].pc \in {"fetch", "record"}
            <4>1. Dir(q) \in Dirs /\ (At(p, "fetch") => Dir(p) # Dir(q))
                BY <1>d, <2>2, <3>2, SeparateDirs DEF At
            <4> QED BY <3>1, <3>2, <4>1 DEF OwnDir
        <3>3. CASE proc[q].pc \in {"finish", "open"}
            <4>1. Dir(q) \in Dirs
                BY <1>d, <3>3
            <4> QED BY <3>1, <3>3, <4>1 DEF OwnDir
        <3>4. CASE proc[q].pc \notin {"fetch", "record", "finish", "open"}
            BY <3>1, <3>4 DEF OwnDir
        <3> QED BY <3>2, <3>3, <3>4
    <2> QED BY <2>1, <2>2
<1> QED BY <1>2, <1>3, <1>4, <1>5 DEF Plan

\* A step outside the build and the load touches no content but new video rows.
LEMMA NeutralPlan ==
    ASSUME Peace, SlugsSeparate, Plan, NEW p \in Procs, NEW s, Become(p, s),
           UNCHANGED <<chunks, bundle, purging>>,
           vstatus' = vstatus \/ \E vs : vstatus' = Upserted(vs),
           proc[p].pc \notin {"fetch", "record", "finish", "open", "embed", "mark"},
           At(p, "load") => proc[p].todo = {},
           s.pc \notin {"fetch", "record", "finish", "open"},
           s.recs \in {<<>>, proc[p].recs}
    PROVE  Plan'
<1>1. DOMAIN s.recs \subseteq Videos
    BY NoRecords DEF Peace, OwnedInv, Shape, Typed, ProcState, State, Records
<1>2. \A v \in DOMAIN s.recs : s.recs[v].status = "embedded" => Pledged(v)
    BY NoRecords DEF Plan, PledgedRecords
<1>3. ASSUME NEW v \in Videos
      PROVE  /\ vstatus'[v] = "embedded" => vstatus[v] = "embedded"
             /\ ~WillEmbed(p, v)
             /\ chunks[v] \in {"none", "searchable"} \/ chunks[v] # p
    <2>1. vstatus'[v] = "embedded" => vstatus[v] = "embedded"
        BY DEF Upserted
    <2>2. ~WillEmbed(p, v)
        BY DEF WillEmbed, At
    <2>3. chunks[v] \in {"none", "searchable"} \/ chunks[v] # p
        BY DEF Plan, Embedding, At
    <2> QED BY <2>1, <2>2, <2>3
<1>4. purging' = {} /\ chunks' = chunks /\ bundle' = bundle
    BY DEF Plan
<1> QED BY <1>1, <1>2, <1>3, <1>4, PlanKept

LEMMA PeacefulUpdate ==
    ASSUME Peace, NEW p \in Procs, Running(p), NEW status, NEW next, StoreUpdate(p, status, next),
           \/ status \in {"keep", "done", "failed"}
           \/ jobs[proc[p].job].status = "running"
    PROVE  Become(p, next)
BY StoreUpdateKept DEF Peace, OwnedInv

LEMMA IdleRecs ==
    ASSUME NEW l PROVE Idle(l).recs = <<>> /\ Idle(l).pc = l
BY DEF Idle

LEMMA DaemonPlan ==
    ASSUME Peace, SlugsSeparate, Plan, NEW p \in Procs,
           \/ Reclaim(p) \/ Claim(p) \/ NothingToClaim(p) \/ Fail(p) \/ Log(p) \/ Restart(p)
           \/ InlineCreate(p) \/ InlineRefused(p) \/ \E i \in Inputs : InlineList(p, i)
    PROVE  Plan'
<1> USE DEF content
<1>0. proc[p] \in ProcState /\ proc[p] \in State
    BY DEF Peace, OwnedInv, Shape, Typed, ProcState
<1>1. PICK s : /\ Become(p, s)
               /\ s.pc \notin {"fetch", "record", "finish", "open"}
               /\ s.recs \in {<<>>, proc[p].recs}
    <2>1. ASSUME NEW l \in {"claim", "poll"}, Goto(p, l)
          PROVE  \E s : Become(p, s) /\ s.pc = l /\ s.recs = proc[p].recs
        BY <1>0, <2>1 DEF Goto, State
    <2>2. ASSUME NEW l, Become(p, Idle(l))
          PROVE  \E s : Become(p, s) /\ s.pc = l /\ s.recs = <<>>
        BY <2>2, IdleRecs
    <2>3. CASE Reclaim(p) \/ NothingToClaim(p) \/ Restart(p)
        BY <2>1, <2>3 DEF Reclaim, NothingToClaim, Restart
    <2>4. CASE Claim(p)
        <3>0. PICK l \in {"known", "list"} : \E j, i, k, c, g :
                Become(p, [Idle(l) EXCEPT !.job = j, !.input = i, !.kind = k, !.chan = c, !.gen = g])
            BY <2>4 DEF Claim
        <3>1. PICK j, i, k, c, g :
                Become(p, [Idle(l) EXCEPT !.job = j, !.input = i, !.kind = k, !.chan = c, !.gen = g])
            BY <3>0
        <3> DEFINE s == [Idle(l) EXCEPT !.job = j, !.input = i, !.kind = k, !.chan = c, !.gen = g]
        <3>2. s.pc = l /\ s.recs = <<>>
            BY DEF Idle
        <3>3. Become(p, s)
            BY <3>1
        <3> HIDE DEF s
        <3> QED BY <3>2, <3>3
    <2>5. CASE Fail(p)
        <3>1. Running(p)
            BY <2>5 DEF Fail, At, Running, RunPcs
        <3>2. Become(p, Idle("poll"))
            BY <2>5, <3>1, PeacefulUpdate DEF Fail
        <3> QED BY <2>2, <3>2
    <2>6. CASE Log(p) \/ InlineRefused(p)
        <3>1. PICK l \in {"poll", "dead", "exit"} : Become(p, Idle(l))
            BY <2>6 DEF Log, InlineRefused
        <3> QED BY <2>2, <3>1
    <2>7. CASE InlineCreate(p)
        <3>1. PICK j : Become(p, [proc[p] EXCEPT !.pc = "list", !.job = j])
            BY <2>7 DEF InlineCreate
        <3> DEFINE s == [proc[p] EXCEPT !.pc = "list", !.job = j]
        <3>2. s.pc = "list" /\ s.recs = proc[p].recs
            BY <1>0 DEF State
        <3>3. Become(p, s)
            BY <3>1
        <3> HIDE DEF s
        <3> QED BY <3>2, <3>3
    <2>8. ASSUME NEW i \in Inputs, InlineList(p, i)
          PROVE  \E s : Become(p, s) /\ s.pc = "create" /\ s.recs = <<>>
        <3> DEFINE s == [Idle("create") EXCEPT !.input = i, !.chan = Resolves[i], !.gen = gen[Resolves[i]]]
        <3>1. s.pc = "create" /\ s.recs = <<>>
            BY DEF Idle
        <3>2. Become(p, s)
            BY <2>8 DEF InlineList
        <3> HIDE DEF s
        <3> QED BY <3>1, <3>2
    <2> QED BY <2>3, <2>4, <2>5, <2>6, <2>7, <2>8
<1>2. /\ UNCHANGED <<chunks, bundle, purging>>
      /\ vstatus' = vstatus \/ \E vs : vstatus' = Upserted(vs)
      /\ proc[p].pc \notin {"fetch", "record", "finish", "open", "load", "embed", "mark"}
    BY DEF Reclaim, Claim, NothingToClaim, Fail, Log, Restart, InlineCreate, InlineRefused, InlineList, At
<1> QED BY <1>1, <1>2, NeutralPlan DEF At

-----------------------------------------------------------------------------
\* The plan through a build.

LEMMA RunningPcs ==
    ASSUME NEW p \in Procs, proc[p].pc \in BuildPcs \cup LoadPcs \cup BeforeBundle \cup {"getJob"}
    PROVE  Running(p)
BY DEF Running, RunPcs, BuildPcs, LoadPcs, BeforeBundle

LEMMA BuildPlan ==
    ASSUME Peace, SlugsSeparate, Plan, NEW p \in Procs, BuildStep(p)
    PROVE  Plan'
<1> USE DEF content
<1>0. proc[p] \in ProcState /\ proc[p] \in State
    BY DEF Peace, OwnedInv, Shape, Typed, ProcState
<1>a. /\ vstatus \in [Videos -> VStatuses]
      /\ chunks \in [Videos -> {"none", "searchable"} \cup Procs]
      /\ bundle \in [Dirs -> Bundles]
    BY DEF Peace, OwnedInv, Shape, Typed
<1>c. DOMAIN proc[p].recs \subseteq Videos /\ PledgedRecords(proc[p].recs) /\ OwnDir(p)
    BY <1>0 DEF State, Records, Plan
<1>e. ASSUME proc[p].pc # "embed"
      PROVE  \A v \in Videos : chunks[v] \in {"none", "searchable"} \/ chunks[v] # p
    BY <1>e DEF Plan, Embedding, At
<1>r. ASSUME proc[p].pc \in {"check", "fetch", "record", "finish"}
      PROVE  Running(p) /\ Dir(p) \in Dirs /\ SameChannelRow(p) /\ proc[p].chan \in Channels
             /\ proc[p].chan # NoChannel
             /\ jobs[proc[p].job].status = "running"
    <2>1. Running(p) /\ proc[p].chan \in Channels /\ Kept(p)
        BY <1>0, <1>r, RunningPcs DEF BeforeBundle, ProcState, Placed, Peace, Owned
    <2>2. Expected(proc[p].pc) = {"running"}
        BY <1>r DEF Expected, BeforeBundle
    <2>3. jobs[proc[p].job].status = "running"
        BY <2>1, <2>2, PeaceOfProc DEF Kept, RowKept, Peace
    <2> QED BY <2>1, <2>3, PeaceOfProc, DirOfProc, TableAssumption DEF Peace, OwnedInv, Shape
<1>s. ASSUME NEW status, NEW next, StoreUpdate(p, status, next),
             proc[p].pc \in {"check", "fetch", "record", "finish"}
      PROVE  Become(p, next)
    BY <1>s, <1>r, PeacefulUpdate
<1>1. CASE ReadKnown(p) \/ List(p) \/ Attach(p) \/ NothingNew(p) \/ FailBuild(p)
    <2>0. Running(p) /\ proc[p].pc \in {"known", "list", "attach", "nothing"}
        BY <1>1, PeaceOfProc, RunningPcs
           DEF ReadKnown, List, Attach, NothingNew, FailBuild, At, BeforeBundle
    <2>1. PICK s : Become(p, s) /\ (BuildMove(p, s) \/ s = Caught(p))
        BY BuildMoves DEF Peace, OwnedInv
    <2>2. /\ UNCHANGED <<chunks, bundle, purging>>
          /\ vstatus' = vstatus \/ \E vs : vstatus' = Upserted(vs)
        BY <1>1 DEF ReadKnown, List, Attach, NothingNew, FailBuild
    <2>3. proc'[p] = s /\ proc'[p] \in ProcState
        <3>1. Shape'
            BY NextShape DEF Peace, OwnedInv, Next, WorkerStep, CliStep, RunStep, BuildStep, Procs
        <3> QED BY <2>1, <3>1 DEF Shape, Typed, Become, Peace, OwnedInv
    <2>4. s.pc \in {"list", "nothing", "check", "attach", "getJob", "fail", "exit"}
        BY <1>1, <2>0, <2>1, CaughtState
           DEF BuildMove, CheckBundle, FetchVideo, RecordVideo, WriteBundle, Finish, At, BuildPcs,
               Peace, OwnedInv, Shape
    <2>5. ASSUME s.pc = "getJob" PROVE s.recs = <<>>
        <3>1. NothingNew(p)
            BY <2>0, <2>1, <2>4, <2>5, CaughtState DEF BuildMove, BuildPcs, Peace, OwnedInv, Shape
        <3>2. Become(p, [proc[p] EXCEPT !.pc = "getJob"])
            <4>1. jobs[proc[p].job].status # "queued" /\ Running(p)
                BY <2>0, NoneQueued DEF Peace, OwnedInv
            <4> QED BY <2>0, <3>1, PeacefulUpdate DEF NothingNew
        <3>3. proc'[p] = [proc[p] EXCEPT !.pc = "getJob"]
            BY <3>2 DEF Become, Peace, OwnedInv, Shape, Typed
        <3>4. proc[p].recs = <<>>
            BY <1>0, <3>1 DEF NothingNew, At, ProcState, HasRecs
        <3> QED BY <1>0, <2>3, <3>3, <3>4 DEF State
    <2>6. s.recs = <<>>
        BY <2>3, <2>4, <2>5 DEF ProcState, HasRecs
    <2> QED BY <2>0, <2>1, <2>2, <2>4, <2>6, NeutralPlan DEF At
<1>2. CASE CheckBundle(p)
    <2>0. proc[p].pc = "check" /\ proc[p].recs = <<>> /\ UNCHANGED <<chunks, bundle, purging, vstatus>>
        BY <1>0, <1>2 DEF CheckBundle, At, ProcState, HasRecs
    <2>1. PICK s : /\ Become(p, s) /\ s.recs = <<>> /\ DirOf(s) = Dir(p)
                   /\ \/ s.pc = "open" /\ bundle[Dir(p)] # NoBundle
                      \/ s.pc = "fetch" /\ bundle[Dir(p)] = NoBundle
        <3> DEFINE s == [proc[p] EXCEPT !.pc = "open", !.todo = {}]
                   t == [proc[p] EXCEPT !.pc = "fetch"]
        <3>1. /\ s.pc = "open" /\ s.recs = <<>> /\ DirOf(s) = Dir(p)
              /\ t.pc = "fetch" /\ t.recs = <<>> /\ DirOf(t) = Dir(p)
            BY <1>0, <2>0 DEF State, DirOf, Dir
        <3>2. \/ Become(p, s) /\ bundle[Dir(p)] # NoBundle
              \/ Become(p, t) /\ bundle[Dir(p)] = NoBundle
            BY <1>2, <1>s, <2>0 DEF CheckBundle
        <3> HIDE DEF s, t
        <3> QED BY <3>1, <3>2
    <2>2. \A v \in Videos : ~WillEmbed(p, v)
        BY <2>0 DEF WillEmbed, At
    <2>3. DOMAIN s.recs = {}
        BY <2>1, NoRecords
    <2>4. bundle' = bundle /\ chunks' = chunks /\ purging' = {} /\ vstatus' = vstatus
        BY <2>0 DEF Plan
    <2> QED BY <1>e, <2>0, <2>1, <2>2, <2>3, <2>4, PlanKept
<1>3. CASE FetchVideo(p)
    <2>0. proc[p].pc = "fetch" /\ UNCHANGED <<chunks, bundle, purging>>
        BY <1>3 DEF FetchVideo, At
    <2>1. PICK v \in proc[p].todo, out \in Outcomes :
            /\ vstatus' = IF SameChannelRow(p) THEN [vstatus EXCEPT ![v] = Fetched(out)] ELSE vstatus
            /\ Become(p, [proc[p] EXCEPT !.pc = "record", !.video = v, !.drafts = out = "captions"])
        BY <1>3 DEF FetchVideo
    <2> DEFINE b == out = "captions"
               s == [proc[p] EXCEPT !.pc = "record", !.video = v, !.drafts = b]
    <2>2. /\ s.pc = "record" /\ s.recs = proc[p].recs /\ s.todo = proc[p].todo /\ DirOf(s) = Dir(p)
          /\ s.video = v /\ (s.drafts <=> out = "captions")
        BY <1>0 DEF State, DirOf, Dir
    <2>3. Become(p, s)
        BY <2>1
    <2> HIDE DEF s, b
    <2>4. proc'[p] = s
        BY <2>3 DEF Become, Peace, OwnedInv, Shape, Typed
    <2>5. v \in Videos /\ Fetched(out) = "embedded" => out = "captions"
        BY <1>0, <2>1, InputsAssumption DEF State, Fetched
    <2>6. ASSUME NEW w \in Videos, vstatus'[w] = "embedded" PROVE vstatus[w] = "embedded" \/ Pledged(w)'
        <3>1. CASE w = v /\ out = "captions"
            BY <2>2, <2>4, <3>1 DEF Pledged, WillEmbed, At
        <3>2. CASE w # v
            BY <1>a, <2>1, <2>6, <3>2
        <3>3. CASE w = v /\ out # "captions"
            BY <1>a, <2>1, <2>5, <2>6, <3>3
        <3> QED BY <3>1, <3>2, <3>3
    <2>7. ASSUME NEW w \in Videos, WillEmbed(p, w) PROVE Pledged(w)'
        BY <2>0, <2>2, <2>4, <2>7 DEF Pledged, WillEmbed, At
    <2>8. bundle' = bundle /\ chunks' = chunks /\ purging' = {}
        BY <2>0 DEF Plan
    <2>9. bundle'[DirOf(s)] = NoBundle /\ s.todo \cap DOMAIN s.recs = {}
        BY <1>c, <2>0, <2>2 DEF OwnDir
    <2>10. DOMAIN s.recs \subseteq Videos
           /\ \A w \in DOMAIN s.recs : s.recs[w].status = "embedded" => Pledged(w)
        BY <1>c, <2>2 DEF PledgedRecords
    <2>11. \A w \in Videos : chunks[w] \in {"none", "searchable"} \/ chunks[w] # p
        BY <1>e, <2>0
    <2> QED BY <2>2, <2>3, <2>6, <2>7, <2>8, <2>9, <2>10, <2>11, PlanKept
<1>4. CASE RecordVideo(p)
    <2>0. /\ proc[p].pc = "record" /\ UNCHANGED <<chunks, bundle, purging, vstatus>>
          /\ proc[p].video \in proc[p].todo
        BY <1>0, <1>4 DEF RecordVideo, At, ProcState
    <2> DEFINE v == proc[p].video
               r == [status |-> vstatus[v], drafts |-> proc[p].drafts]
               recs == [w \in DOMAIN proc[p].recs \cup {v} |-> IF w = v THEN r ELSE proc[p].recs[w]]
               s == [proc[p] EXCEPT !.pc = "fetch", !.todo = proc[p].todo \ {v}, !.drafts = FALSE,
                                    !.recs = recs]
    <2>1. Become(p, s)
        BY <1>4, <1>r, <1>s, <2>0 DEF RecordVideo
    <2>2. /\ s.pc = "fetch" /\ s.recs = recs /\ s.todo = proc[p].todo \ {v} /\ DirOf(s) = Dir(p)
        BY <1>0 DEF State, DirOf, Dir
    <2> HIDE DEF s
    <2>3. proc'[p] = s
        BY <2>1 DEF Become, Peace, OwnedInv, Shape, Typed
    <2>4. v \in Videos /\ v \notin DOMAIN proc[p].recs
        BY <1>0, <1>c, <2>0 DEF State, OwnDir
    <2>5. /\ DOMAIN recs = DOMAIN proc[p].recs \cup {v} /\ recs[v] = r
          /\ \A w \in DOMAIN proc[p].recs : recs[w] = proc[p].recs[w]
        BY <2>4
    <2>6. r.status = vstatus[v] /\ r.drafts = proc[p].drafts
        OBVIOUS
    <2> HIDE DEF recs, r, v
    <2>7. DOMAIN s.recs \subseteq Videos /\ s.todo \cap DOMAIN s.recs = {}
        BY <1>c, <2>0, <2>2, <2>4, <2>5 DEF OwnDir
    <2>8. ASSUME NEW w \in DOMAIN s.recs, s.recs[w].status = "embedded" PROVE Pledged(w)
        <3>1. CASE w = v
            BY <2>2, <2>4, <2>5, <2>6, <2>8, <3>1 DEF Plan
        <3>2. CASE w # v
            BY <1>c, <2>2, <2>5, <2>8, <3>2 DEF PledgedRecords
        <3> QED BY <3>1, <3>2
    <2>9. ASSUME NEW w \in Videos, WillEmbed(p, w) PROVE Pledged(w)'
        <3>1. Bound(proc[p].recs, w) \/ (v = w /\ proc[p].drafts)
            BY <2>0, <2>9 DEF WillEmbed, At, v
        <3>2. Bound(recs, w)
            BY <2>5, <2>6, <3>1 DEF Bound
        <3> QED BY <2>2, <2>3, <3>2 DEF Pledged, WillEmbed, At
    <2>10. bundle' = bundle /\ chunks' = chunks /\ purging' = {} /\ vstatus' = vstatus
        BY <2>0 DEF Plan
    <2>11. bundle'[DirOf(s)] = NoBundle
        BY <1>c, <2>0, <2>2 DEF OwnDir
    <2>12. \A w \in Videos : chunks[w] \in {"none", "searchable"} \/ chunks[w] # p
        BY <1>e, <2>0
    <2> QED BY <2>1, <2>2, <2>7, <2>8, <2>9, <2>10, <2>11, <2>12, PlanKept
<1>5. CASE WriteBundle(p)
    <2> DEFINE b == [chan |-> proc[p].chan, recs |-> proc[p].recs]
               s == [proc[p] EXCEPT !.pc = "finish", !.recs = <<>>]
    <2>0. /\ proc[p].pc = "fetch" /\ UNCHANGED <<chunks, purging, vstatus>>
          /\ bundle' = [bundle EXCEPT ![Dir(p)] = b] /\ Become(p, s)
        BY <1>5 DEF WriteBundle, At
    <2>1. b.chan = proc[p].chan /\ b.recs = proc[p].recs
        OBVIOUS
    <2>2. b # NoBundle
        BY <1>r, <2>0, <2>1 DEF NoBundle
    <2>3. s.pc = "finish" /\ s.recs = <<>> /\ DirOf(s) = Dir(p)
        BY <1>0 DEF State, DirOf, Dir
    <2> HIDE DEF s, b
    <2>4. proc'[p] = s /\ Dir(p)' = Dir(p)
        BY <2>0, <2>3 DEF Become, Peace, OwnedInv, Shape, Typed, Dir, DirOf
    <2>5. bundle'[Dir(p)] = b /\ \A d \in Dirs : d # Dir(p) => bundle'[d] = bundle[d]
        BY <1>a, <1>r, <2>0
    <2>6. ASSUME NEW w \in Videos, WillEmbed(p, w) PROVE Pledged(w)'
        <3>1. Bound(bundle'[Dir(p)].recs, w)
            BY <2>0, <2>1, <2>5, <2>6 DEF WillEmbed, At
        <3> QED BY <2>3, <2>4, <3>1 DEF Pledged, WillEmbed, At
    <2>7. DOMAIN s.recs = {}
        BY <2>3, NoRecords
    <2>8. chunks' = chunks /\ purging' = {} /\ vstatus' = vstatus
        BY <2>0 DEF Plan
    <2>9. \A w \in Videos : chunks[w] \in {"none", "searchable"} \/ chunks[w] # p
        BY <1>e, <2>0
    <2>10. \A d \in Dirs : \/ bundle'[d] = bundle[d]
                           \/ /\ At(p, "fetch") /\ d = Dir(p)
                              /\ bundle'[d] # NoBundle /\ bundle'[d].recs = proc[p].recs
        BY <2>0, <2>1, <2>2, <2>5 DEF At
    <2>11. bundle'[DirOf(s)] # NoBundle
        BY <2>2, <2>3, <2>5
    <2> QED BY <2>0, <2>3, <2>6, <2>7, <2>8, <2>9, <2>10, <2>11, PlanKept
<1>6. CASE Finish(p)
    <2> DEFINE s == [proc[p] EXCEPT !.pc = "open"]
    <2>0. proc[p].pc = "finish" /\ UNCHANGED <<chunks, bundle, purging, vstatus>> /\ Become(p, s)
        BY <1>6, <1>s DEF Finish, At
    <2>1. s.pc = "open" /\ s.recs = proc[p].recs /\ DirOf(s) = Dir(p)
        BY <1>0 DEF State, DirOf, Dir
    <2> HIDE DEF s
    <2>2. proc'[p] = s /\ Dir(p)' = Dir(p)
        BY <2>0, <2>1 DEF Become, Peace, OwnedInv, Shape, Typed, Dir, DirOf
    <2>3. ASSUME NEW w \in Videos, WillEmbed(p, w) PROVE Pledged(w)'
        BY <2>0, <2>1, <2>2, <2>3 DEF WillEmbed, At, Pledged
    <2>4. DOMAIN s.recs \subseteq Videos
           /\ \A w \in DOMAIN s.recs : s.recs[w].status = "embedded" => Pledged(w)
        BY <1>c, <2>1 DEF PledgedRecords
    <2>5. bundle' = bundle /\ chunks' = chunks /\ purging' = {} /\ vstatus' = vstatus
        BY <2>0 DEF Plan
    <2>6. \A w \in Videos : chunks[w] \in {"none", "searchable"} \/ chunks[w] # p
        BY <1>e, <2>0
    <2>7. bundle'[DirOf(s)] # NoBundle
        BY <1>c, <2>0, <2>1 DEF OwnDir
    <2> QED BY <2>0, <2>1, <2>3, <2>4, <2>5, <2>6, <2>7, PlanKept
<1> QED BY <1>1, <1>2, <1>3, <1>4, <1>5, <1>6 DEF BuildStep

-----------------------------------------------------------------------------
\* The plan through a load, and the last theorem.

LEMMA LoadPlan ==
    ASSUME Peace, SlugsSeparate, Plan, NEW p \in Procs, LoadStep(p)
    PROVE  Plan'
<1> USE DEF content
<1>0. proc[p] \in ProcState /\ proc[p] \in State
    BY DEF Peace, OwnedInv, Shape, Typed, ProcState
<1>a. /\ vstatus \in [Videos -> VStatuses]
      /\ chunks \in [Videos -> {"none", "searchable"} \cup Procs]
      /\ bundle \in [Dirs -> Bundles]
    BY DEF Peace, OwnedInv, Shape, Typed
<1>c. /\ DOMAIN proc[p].recs \subseteq Videos /\ PledgedRecords(proc[p].recs) /\ OwnDir(p)
      /\ LoadedSoFar(p)
    BY <1>0 DEF State, Records, Plan, Peace, OwnedInv, Loaded
<1>e. ASSUME proc[p].pc # "embed"
      PROVE  \A v \in Videos : chunks[v] \in {"none", "searchable"} \/ chunks[v] # p
    BY <1>e DEF Plan, Embedding, At
<1>n. p \notin {"none", "searchable"}
    BY ProcsAssumption
<1>r. Running(p)
    BY RunningPcs DEF LoadStep, OpenBundle, LoadVideo, EmbedChunks, MarkEmbedded, LoadDone, GetJob, At, LoadPcs
<1>t. ASSUME proc[p].pc \in {"load", "embed", "mark"}
      PROVE  SameChannelRow(p) /\ proc[p].todo \subseteq DOMAIN proc[p].recs
    BY <1>0, <1>t, PeaceOfProc DEF ProcState, Placed
<1>1. CASE OpenBundle(p)
    <2> DEFINE b == bundle[Dir(p)]
               s == [proc[p] EXCEPT !.pc = "load", !.chan = b.chan, !.gen = gen[b.chan],
                                    !.recs = b.recs, !.todo = DOMAIN b.recs]
    <2>0. proc[p].pc = "open" /\ b # NoBundle
        BY <1>1, <1>c DEF OpenBundle, At, OwnDir
    <2>1. UNCHANGED <<chunks, bundle, purging, vstatus>> /\ Become(p, s)
        BY <1>1, <2>0 DEF OpenBundle
    <2>2. s.pc = "load" /\ s.recs = b.recs /\ s.todo = DOMAIN b.recs
        BY <1>0 DEF State
    <2>3. Dir(p) \in Dirs
        BY <1>r, DirOfProc DEF Peace, OwnedInv, Shape
    <2>4. b.recs \in Records /\ PledgedRecords(b.recs)
        BY <1>a, <2>3, NoRecords DEF Bundles, NoBundle, Plan
    <2>5. ASSUME NEW w \in Videos, WillEmbed(p, w) PROVE Bound(b.recs, w)
        BY <2>0, <2>5 DEF WillEmbed, At
    <2> HIDE DEF s, b
    <2>6. proc'[p] = s
        BY <2>1 DEF Become, Peace, OwnedInv, Shape, Typed
    <2>7. ASSUME NEW w \in Videos, WillEmbed(p, w) PROVE Pledged(w)'
        BY <2>2, <2>5, <2>6, <2>7 DEF WillEmbed, At, Pledged, Bound
    <2>8. DOMAIN s.recs \subseteq Videos
           /\ \A w \in DOMAIN s.recs : s.recs[w].status = "embedded" => Pledged(w)
        BY <2>2, <2>4 DEF PledgedRecords, Records
    <2>9. bundle' = bundle /\ chunks' = chunks /\ purging' = {} /\ vstatus' = vstatus
        BY <2>1 DEF Plan
    <2>10. \A w \in Videos : chunks[w] \in {"none", "searchable"} \/ chunks[w] # p
        BY <1>e, <2>0
    <2> QED BY <2>1, <2>2, <2>7, <2>8, <2>9, <2>10, PlanKept
<1>2. CASE LoadVideo(p)
    <2>0. proc[p].pc = "load" /\ UNCHANGED <<bundle, purging>>
        BY <1>2 DEF LoadVideo, At
    <2>1. PICK v \in proc[p].todo :
        \/ /\ proc[p].recs[v].drafts
           /\ StoreUpdate(p, "keep", [proc[p] EXCEPT !.pc = "embed", !.video = v])
           /\ vstatus' = Upserted({v})
           /\ chunks' = [chunks EXCEPT ![v] = p]
        \/ /\ ~proc[p].recs[v].drafts
           /\ StoreUpdate(p, "keep", [proc[p] EXCEPT !.todo = proc[p].todo \ {v}])
           /\ vstatus' = [vstatus EXCEPT ![v] = proc[p].recs[v].status]
           /\ UNCHANGED chunks
        BY <1>2, <1>t, <2>0 DEF LoadVideo
    <2>2. v \in DOMAIN proc[p].recs /\ v \in Videos
        BY <1>c, <1>t, <2>0
    <2>3. /\ DOMAIN proc[p].recs \subseteq Videos
          /\ \A w \in DOMAIN proc[p].recs : proc[p].recs[w].status = "embedded" => Pledged(w)
        BY <1>c DEF PledgedRecords
    <2>4. bundle' = bundle /\ purging' = {}
        BY <2>0 DEF Plan
    <2>5. \A w \in Videos : chunks[w] \in {"none", "searchable"} \/ chunks[w] # p
        BY <1>e, <2>0
    <2>6. CASE /\ StoreUpdate(p, "keep", [proc[p] EXCEPT !.pc = "embed", !.video = v])
               /\ vstatus' = Upserted({v})
               /\ chunks' = [chunks EXCEPT ![v] = p]
        <3> DEFINE s == [proc[p] EXCEPT !.pc = "embed", !.video = v]
        <3>1. s.pc = "embed" /\ s.video = v /\ s.todo = proc[p].todo /\ s.recs = proc[p].recs
            BY <1>0 DEF State
        <3>2. Become(p, s)
            BY <1>r, <2>6, PeacefulUpdate
        <3> HIDE DEF s
        <3>3. proc'[p] = s
            BY <3>2 DEF Become, Peace, OwnedInv, Shape, Typed
        <3>4. chunks'[v] = p /\ \A w \in Videos \ {v} : chunks'[w] = chunks[w]
            BY <1>a, <2>2, <2>6
        <3>5. ASSUME NEW w \in Videos, WillEmbed(p, w) PROVE Pledged(w)'
            <4>1. w \in proc[p].todo /\ Bound(proc[p].recs, w)
                BY <2>0, <3>5 DEF WillEmbed, At
            <4>2. CASE w = v
                BY <1>n, <3>4, <4>2 DEF Pledged
            <4>3. CASE w # v
                BY <3>1, <3>3, <4>1, <4>3 DEF WillEmbed, Pledged
            <4> QED BY <4>2, <4>3
        <3>6. \A w \in Videos :
                /\ chunks[w] # "none" => chunks'[w] # "none"
                /\ \/ chunks'[w] = chunks[w] /\ (chunks[w] \in {"none", "searchable"} \/ chunks[w] # p)
                   \/ chunks'[w] = p /\ s.pc = "embed" /\ s.video = w
                /\ vstatus'[w] = "embedded" => vstatus[w] = "embedded"
            BY <1>n, <2>5, <2>6, <3>1, <3>4 DEF Upserted
        <3> QED BY <2>3, <2>4, <3>1, <3>2, <3>5, <3>6, PlanKept
    <2>7. CASE /\ ~proc[p].recs[v].drafts
               /\ StoreUpdate(p, "keep", [proc[p] EXCEPT !.todo = proc[p].todo \ {v}])
               /\ vstatus' = [vstatus EXCEPT ![v] = proc[p].recs[v].status]
               /\ UNCHANGED chunks
        <3> DEFINE s == [proc[p] EXCEPT !.todo = proc[p].todo \ {v}]
        <3>1. s.pc = "load" /\ s.todo = proc[p].todo \ {v} /\ s.recs = proc[p].recs
            BY <1>0, <2>0 DEF State
        <3>2. Become(p, s)
            BY <1>r, <2>7, PeacefulUpdate
        <3> HIDE DEF s
        <3>3. proc'[p] = s
            BY <3>2 DEF Become, Peace, OwnedInv, Shape, Typed
        <3>4. ASSUME NEW w \in Videos, WillEmbed(p, w) PROVE Pledged(w)'
            BY <2>0, <2>7, <3>1, <3>3, <3>4 DEF WillEmbed, At, Pledged, Bound
        <3>5. ASSUME NEW w \in Videos, vstatus'[w] = "embedded" PROVE vstatus[w] = "embedded" \/ Pledged(w)
            <4>1. CASE w = v
                BY <1>a, <2>2, <2>3, <2>7, <3>5, <4>1
            <4>2. CASE w # v
                BY <1>a, <2>7, <3>5, <4>2
            <4> QED BY <4>1, <4>2
        <3> QED BY <2>3, <2>4, <2>5, <2>7, <3>1, <3>2, <3>4, <3>5, PlanKept
    <2> QED BY <2>1, <2>6, <2>7
<1>3. CASE EmbedChunks(p)
    <2> DEFINE s == [proc[p] EXCEPT !.pc = "mark"]
               v == proc[p].video
    <2>0. /\ proc[p].pc = "embed" /\ UNCHANGED <<bundle, purging, vstatus>> /\ Become(p, s)
          /\ chunks' = [chunks EXCEPT ![v] = IF chunks[v] = p THEN "searchable" ELSE chunks[v]]
        BY <1>3 DEF EmbedChunks, At, Goto
    <2>1. s.pc = "mark" /\ s.video = v /\ s.todo = proc[p].todo /\ s.recs = proc[p].recs
        BY <1>0 DEF State
    <2>2. v \in Videos
        BY <1>0 DEF State
    <2>3. /\ chunks'[v] = IF chunks[v] = p THEN "searchable" ELSE chunks[v]
          /\ \A w \in Videos \ {v} : chunks'[w] = chunks[w]
        BY <1>a, <2>0, <2>2
    <2> HIDE DEF s
    <2>4. proc'[p] = s
        BY <2>0 DEF Become, Peace, OwnedInv, Shape, Typed
    <2>5. ASSUME NEW w \in Videos, WillEmbed(p, w) PROVE Pledged(w)'
        BY <2>0, <2>1, <2>4, <2>5 DEF WillEmbed, At, Pledged
    <2>6. ASSUME NEW w \in Videos
          PROVE  /\ chunks[w] # "none" => chunks'[w] # "none"
                 /\ \/ chunks'[w] = "searchable"
                    \/ chunks'[w] = chunks[w] /\ (chunks[w] \in {"none", "searchable"} \/ chunks[w] # p)
        <3>1. CASE w = v
            BY <2>3, <3>1
        <3>2. CASE w # v
            BY <2>3, <3>2 DEF Plan, Embedding
        <3> QED BY <3>1, <3>2
    <2>7. DOMAIN s.recs \subseteq Videos
           /\ \A w \in DOMAIN s.recs : s.recs[w].status = "embedded" => Pledged(w)
        BY <1>c, <2>1 DEF PledgedRecords
    <2>8. bundle' = bundle /\ purging' = {} /\ vstatus' = vstatus
        BY <2>0 DEF Plan
    <2> QED BY <2>0, <2>1, <2>5, <2>6, <2>7, <2>8, PlanKept
<1>4. CASE MarkEmbedded(p)
    <2> DEFINE v == proc[p].video
               s == [proc[p] EXCEPT !.pc = "load", !.todo = proc[p].todo \ {v}]
    <2>0. proc[p].pc = "mark" /\ UNCHANGED <<chunks, bundle, purging>> /\ Become(p, s)
          /\ vstatus' = [vstatus EXCEPT ![v] = "embedded"]
        BY <1>4, <1>t DEF MarkEmbedded, At
    <2>1. s.pc = "load" /\ s.todo = proc[p].todo \ {v} /\ s.recs = proc[p].recs
        BY <1>0 DEF State
    <2>2. v \in Videos
        BY <1>0 DEF State
    <2> HIDE DEF s
    <2>3. proc'[p] = s
        BY <2>0 DEF Become, Peace, OwnedInv, Shape, Typed
    <2>4. chunks[v] # "none"
        <3>1. Safe(p, v)
            BY <1>c, <1>t, <2>0 DEF LoadedSoFar, Loading, At
        <3> QED BY <3>1, ProcsAssumption DEF Safe
    <2>5. ASSUME NEW w \in Videos, WillEmbed(p, w) PROVE Pledged(w)'
        BY <2>0, <2>1, <2>3, <2>5 DEF WillEmbed, At, Pledged
    <2>6. ASSUME NEW w \in Videos, vstatus'[w] = "embedded" PROVE vstatus[w] = "embedded" \/ Pledged(w)
        BY <1>a, <2>0, <2>4, <2>6 DEF Pledged
    <2>7. DOMAIN s.recs \subseteq Videos
           /\ \A w \in DOMAIN s.recs : s.recs[w].status = "embedded" => Pledged(w)
        BY <1>c, <2>1 DEF PledgedRecords
    <2>8. bundle' = bundle /\ chunks' = chunks /\ purging' = {}
        BY <2>0 DEF Plan
    <2>9. \A w \in Videos : chunks[w] \in {"none", "searchable"} \/ chunks[w] # p
        BY <1>e, <2>0
    <2> QED BY <2>0, <2>1, <2>5, <2>6, <2>7, <2>8, <2>9, PlanKept
<1>5. CASE LoadDone(p)
    <2> DEFINE s == [proc[p] EXCEPT !.pc = "getJob"]
    <2>0. /\ proc[p].pc = "load" /\ proc[p].todo = {} /\ Become(p, s)
          /\ UNCHANGED <<chunks, bundle, purging, vstatus>>
        BY <1>5 DEF LoadDone, At, Goto
    <2>1. s.pc = "getJob" /\ s.recs = proc[p].recs
        BY <1>0 DEF State
    <2> HIDE DEF s
    <2> QED BY <2>0, <2>1, NeutralPlan DEF At
<1>6. CASE GetJob(p)
    <2> DEFINE s == [Idle("log") EXCEPT !.job = proc[p].job]
    <2>0. /\ proc[p].pc = "getJob" /\ UNCHANGED <<chunks, bundle, purging, vstatus>>
          /\ Become(p, s) \/ Become(p, Idle("exit"))
        BY <1>6, <1>r, PeaceOfProc DEF GetJob, At
    <2>1. s.pc = "log" /\ s.recs = <<>>
        BY DEF Idle
    <2> HIDE DEF s
    <2>2. Idle("exit").pc = "exit" /\ Idle("exit").recs = <<>>
        BY IdleRecs
    <2> QED BY <2>0, <2>1, <2>2, NeutralPlan DEF At
<1> QED BY <1>1, <1>2, <1>3, <1>4, <1>5, <1>6 DEF LoadStep

\* Users touch no content while nothing is deleted or being purged.
LEMMA UserPlan ==
    ASSUME Peace, Plan, spent'["delete"] = 0,
           \/ \E i \in Inputs : EnqueueIngest(i)
           \/ \E c \in Channels : EnqueueUpdate(c) \/ DeleteChannel(c) \/ PurgeBundles(c)
           \/ \E j \in Jobs : RetryJob(j) \/ CancelJob(j) \/ HeartbeatLapses(j)
    PROVE  UNCHANGED <<vstatus, chunks, bundle, purging, proc>>
<1>1. DOMAIN Budget = {"crash", "fault", "retry", "delete"} /\ spent \in [DOMAIN Budget -> Nat]
    BY BudgetAssumption DEF Peace, OwnedInv, Shape, Typed
<1>2. ASSUME NEW c \in Channels PROVE ~DeleteChannel(c) /\ ~PurgeBundles(c)
    BY <1>1 DEF DeleteChannel, Spend, PurgeBundles, Plan
<1> QED BY <1>2 DEF EnqueueIngest, EnqueueUpdate, RetryJob, CancelJob, HeartbeatLapses, content

LEMMA NextPlan ==
    ASSUME Peace, SlugsSeparate, Plan, [Next]_vars, Unhurt', spent'["delete"] = 0
    PROVE  Plan'
<1>s. ASSUME UNCHANGED <<vstatus, chunks, bundle, purging, proc>> PROVE Plan'
    <2>1. \A p \in Procs : Dir(p)' = Dir(p)
        BY <1>s DEF Dir
    <2>2. \A p \in Procs, v \in Videos : WillEmbed(p, v) => WillEmbed(p, v)'
        BY <1>s, <2>1 DEF WillEmbed, At
    <2>3. \A v \in Videos : Pledged(v) => Pledged(v)'
        BY <1>s, <2>2 DEF Pledged
    <2>4. /\ \A p \in Procs : DOMAIN proc[p].recs \subseteq Videos
          /\ \A d \in Dirs : DOMAIN bundle[d].recs \subseteq Videos
        BY NoRecords DEF Peace, OwnedInv, Shape, Typed, ProcState, State, Bundles, NoBundle, Records
    <2>5. /\ \A d \in Dirs : PledgedRecords(bundle[d].recs)'
          /\ \A p \in Procs : PledgedRecords(proc[p].recs)'
        BY <1>s, <2>3, <2>4 DEF Plan, PledgedRecords
    <2>6. \A p \in Procs : OwnDir(p)'
        BY <1>s, <2>1 DEF Plan, OwnDir
    <2>7. \A v \in Videos : Embedding(v)' /\ (vstatus'[v] = "embedded" => Pledged(v)')
        BY <1>s, <2>3 DEF Plan, Embedding, At
    <2> QED BY <1>s, <2>5, <2>6, <2>7 DEF Plan
<1>1. CASE Next
    <2>1. ASSUME NEW p \in Procs PROVE ~Crash(p) /\ ~Fault(p) /\ ~EmbedFault(p)
        <3>1. DOMAIN Budget = {"crash", "fault", "retry", "delete"} /\ spent \in [DOMAIN Budget -> Nat]
            BY BudgetAssumption DEF Peace, OwnedInv, Shape, Typed
        <3> QED BY <3>1 DEF Crash, Fault, EmbedFault, Spend, Unhurt
    <2> QED BY <1>1, <1>s, <2>1, DaemonPlan, BuildPlan, LoadPlan, UserPlan
            DEF Next, UserStep, WorkerStep, CliStep, RunStep, BuildStep, LoadStep, Procs
<1>2. CASE UNCHANGED vars
    BY <1>2, <1>s DEF vars, content
<1> QED BY <1>1, <1>2

LEMMA InitPlan == Init => Plan
<1> SUFFICES ASSUME Init PROVE Plan
    OBVIOUS
<1>1. ASSUME NEW p \in Procs PROVE proc[p].recs = <<>> /\ proc[p].pc \in {"poll", "idle"}
    BY IdleRecs DEF Init
<1> QED BY <1>1, NoRecords DEF Init, Plan, Embedding, PledgedRecords, OwnDir, NoBundle

\* The inductive invariant of the theorem on a quiet system.
PlanInv == OwnedInv /\ NoneGone /\ (Unhurt => Plan)

LEMMA PlanInvPeace ==
    ASSUME PlanInv, Unhurt, Budget["delete"] = 0
    PROVE  Peace
<1>1. ~Upset /\ Calm
    BY NothingDeleted DEF PlanInv, OwnedInv, Unhurt, Upset, Calm
<1> QED BY <1>1, NothingDeleted DEF Peace, PlanInv, OwnedInv

LEMMA NextPlanInv ==
    ASSUME Sluggish = {}, SlugsSeparate, Budget["delete"] = 0, PlanInv, [Next]_vars
    PROVE  PlanInv'
<1>1. OwnedInv' /\ NoneGone'
    BY NextOwnedInv, NextNoneGone DEF PlanInv, OwnedInv
<1>2. ASSUME Unhurt' PROVE Plan'
    <2>0. /\ DOMAIN Budget = {"crash", "fault", "retry", "delete"}
          /\ spent \in [DOMAIN Budget -> Nat] /\ spent' \in [DOMAIN Budget -> Nat]
        BY <1>1, BudgetAssumption DEF PlanInv, OwnedInv, Shape, Typed
    <2>1. Unhurt
        <3>1. CASE Next
            <4>1. \A k \in DOMAIN Budget : spent[k] <= spent'[k]
                BY <3>1, SpendGrows DEF PlanInv, OwnedInv
            <4> QED BY <1>2, <2>0, <4>1 DEF Unhurt
        <3>2. CASE UNCHANGED vars
            BY <1>2, <3>2 DEF vars, Unhurt
        <3> QED BY <3>1, <3>2
    <2>2. spent'["delete"] = 0
        BY <1>1, <2>0 DEF OwnedInv, Shape, Typed
    <2> QED BY <1>2, <2>1, <2>2, PlanInvPeace, NextPlan DEF PlanInv
<1> QED BY <1>1, <1>2 DEF PlanInv

\* When nobody runs any more, and nothing raised, was killed or deleted, every video recorded as embedded is
\* searchable.  SlugsSeparate is what default_bundle_dir (core/dataset/bundle.py) does not give: two handles
\* without Latin letters or digits get one directory, and one channel then loads the other's bundle.
THEOREM QuietSearchable ==
    ASSUME Sluggish = {}, SlugsSeparate, Budget["delete"] = 0
    PROVE  Spec => []QuietMeansSearchable
<1>1. PlanInv => QuietMeansSearchable
    <2> SUFFICES ASSUME PlanInv, \A p \in Procs : ~Running(p), Unhurt,
                        NEW v \in Videos, vstatus[v] = "embedded"
                 PROVE  chunks[v] = "searchable"
        BY DEF QuietMeansSearchable, Unhurt
    <2>1. Pledged(v) /\ Embedding(v)
        BY DEF PlanInv, Plan
    <2>2. \A p \in Procs : ~WillEmbed(p, v) /\ ~At(p, "embed")
        BY DEF WillEmbed, Running, RunPcs, BuildPcs, LoadPcs, At
    <2> QED BY <2>1, <2>2 DEF Pledged, Embedding
<1>2. Init => PlanInv
    BY InitShape, InitLoaded, InitBook, InitOwned, InitNoneGone, InitPlan DEF PlanInv, OwnedInv
<1>3. PlanInv /\ [Next]_vars => PlanInv'
    BY NextPlanInv
<1> QED BY <1>1, <1>2, <1>3, PTL DEF Spec

=============================================================================
