---------------------------- MODULE IngestPipeline ----------------------------
(***************************************************************************)
(* The processes that run ingest jobs: worker daemons (core/worker/        *)
(* daemon.py), inline CLI runs (core/ingest/runner.py) and the users who   *)
(* enqueue, retry, cancel and delete (core/ingest/jobs.py, the UI).  The   *)
(* pipeline of core/ingest/pipeline.py is walked stage by stage: a step    *)
(* ends wherever a crash, an exception or another process's step could     *)
(* find the job, the bundle, a video's status or its chunks in a new state.*)
(*                                                                         *)
(* The job table is that of JobQueue, whose store calls are the actions    *)
(* Queue!...; this module adds the content tables and the bundle files.    *)
(***************************************************************************)
EXTENDS Integers, FiniteSets

CONSTANTS
    MaxJobs, Channels, NoChannel, Inputs, MaxAttempts,   \* see JobQueue
    Videos,
    Workers,     \* worker daemons
    Clis,        \* `aac ingest` processes, each run at most once
    Sluggish,    \* processes that may go JOB_STALE_AFTER_S without a heartbeat
    Resolves,    \* [Inputs -> Channels]: the channel YouTube names for an input
    Handle,      \* [Channels -> Inputs]: the input stored as channels.handle
    Slug,        \* [Inputs -> Slugs]: default_bundle_dir
    Listings,    \* [Channels -> sets of videos]: what a listing may return
    Outcomes,    \* what a captions fetch may give: see Fetched
    Budget       \* bounds: [crash, fault, retry, delete |-> how many of each]

Procs == Workers \cup Clis

ASSUME ProcsAssumption ==
    Workers \cap Clis = {} /\ Sluggish \subseteq Procs /\ {"none", "searchable"} \cap Procs = {}
ASSUME InputsAssumption ==
    /\ Resolves \in [Inputs -> Channels]
    /\ \A c \in Channels : Handle[c] \in Inputs /\ Resolves[Handle[c]] = c
    /\ \A c \in Channels : Listings[c] \subseteq SUBSET Videos
    /\ \A c, d \in Channels : c # d => (UNION Listings[c]) \cap (UNION Listings[d]) = {}
    /\ Inputs # {} /\ Videos # {}
    /\ Outcomes \subseteq {"captions", "empty", "none", "error"}
ASSUME BudgetAssumption == Budget \in [{"crash", "fault", "retry", "delete"} -> Nat]
ASSUME TableAssumption ==
    MaxJobs \in Nat /\ MaxAttempts \in Nat \ {0} /\ NoChannel \notin Channels   \* see JobQueue

VARIABLES
    jobs, channels, starts,   \* the tables of JobQueue
    gen,      \* [Channels -> Nat]: tells the channel_id of a re-created channel from the old one
    vstatus,  \* [Videos -> VStatuses]: videos.status
    chunks,   \* [Videos -> "none", "searchable" or the process whose unembedded rows are there]
    bundle,   \* [Dirs -> NoBundle or what the directory's files hold]
    purging,  \* channels deleted whose bundle directories are not removed yet
    proc,     \* [Procs -> local state]
    spent     \* how much of Budget is used

Queue == INSTANCE JobQueue
queueVars == <<jobs, channels, starts>>
content == <<gen, vstatus, chunks, bundle, purging>>
vars == <<queueVars, content, proc, spent>>

Jobs == Queue!Jobs

\* "absent" is no row; 'pending' also stands for 'fetched', which no query
\* tells from it.
VStatuses == {"absent", "pending", "chunked", "embedded", "no_captions", "failed"}
Processed == {"embedded", "no_captions"}

Dirs == {<<"main", Slug[i]>> : i \in Inputs} \cup {<<"update", j>> : j \in Jobs}
NoBundle == [chan |-> NoChannel, recs |-> <<>>]
Record == [status : VStatuses, drafts : BOOLEAN]
Records == UNION {[D -> Record] : D \in SUBSET Videos}

BuildPcs == {"fetch", "record", "finish"}
LoadPcs == {"open", "load", "embed", "mark"}
RunPcs == BuildPcs \cup LoadPcs \cup
          {"known", "list", "attach", "check", "failBuild", "fail", "nothing", "getJob", "log"}
Pcs == RunPcs \cup {"poll", "claim", "dead", "idle", "create", "exit"}

Idle(l) == [pc |-> l, job |-> 0, input |-> CHOOSE i \in Inputs : TRUE, kind |-> "ingest",
            chan |-> NoChannel, gen |-> 0, known |-> {}, todo |-> {},
            recs |-> <<>>, video |-> CHOOSE v \in Videos : TRUE, drafts |-> FALSE]

TypeOK ==
    /\ Queue!TypeOK
    /\ gen \in [Channels -> Nat]
    /\ vstatus \in [Videos -> VStatuses]
    /\ chunks \in [Videos -> {"none", "searchable"} \cup Procs]
    /\ \A d \in Dirs : /\ bundle[d].chan \in Channels \cup {NoChannel}
                       /\ bundle[d].recs \in Records
    /\ purging \subseteq Channels
    /\ \A p \in Procs : /\ proc[p].pc \in Pcs
                        /\ proc[p].job \in Jobs \cup {0}
                        /\ proc[p].recs \in Records
                        /\ proc[p].todo \cup proc[p].known \subseteq Videos
    /\ \A k \in DOMAIN Budget : spent[k] \in 0..Budget[k]

Init ==
    /\ Queue!Init
    /\ gen = [c \in Channels |-> 0]
    /\ vstatus = [v \in Videos |-> "absent"]
    /\ chunks = [v \in Videos |-> "none"]
    /\ bundle = [d \in Dirs |-> NoBundle]
    /\ purging = {}
    /\ proc = [p \in Procs |-> Idle(IF p \in Workers THEN "poll" ELSE "idle")]
    /\ spent = [k \in DOMAIN Budget |-> 0]

-----------------------------------------------------------------------------
\* Local control.

At(p, l) == proc[p].pc = l
Become(p, s) == proc' = [proc EXCEPT ![p] = s]
Goto(p, l) == Become(p, [proc[p] EXCEPT !.pc = l])

\* Where an exception raised at p's present step is caught: build_dataset's
\* handler, then the daemon's; a CLI process ends with it.
Caught(p) ==
    IF proc[p].pc \in BuildPcs THEN [Idle("failBuild") EXCEPT !.job = proc[p].job]
    ELSE IF p \in Workers THEN [Idle("fail") EXCEPT !.job = proc[p].job]
    ELSE Idle("exit")
Raise(p) == Become(p, Caught(p)) /\ UNCHANGED queueVars

Running(p) == proc[p].pc \in RunPcs
Dir(p) == IF proc[p].kind = "update" THEN <<"update", proc[p].job>>
          ELSE <<"main", Slug[proc[p].input]>>
\* The channel row whose id p holds has not been deleted since.
SameChannelRow(p) == proc[p].chan \in channels /\ proc[p].gen = gen[proc[p].chan]

\* store.update_job on p's job: writes the row, matches no row (the job was
\* deleted), or raises ActiveJobExistsError.
StoreUpdate(p, status, next) ==
    LET j == proc[p].job IN
    \/ Queue!UpdateJob(j, status, NoChannel) /\ Become(p, next)
    \/ ~Queue!Live(j) /\ Become(p, next) /\ UNCHANGED queueVars
    \/ /\ Queue!Live(j)
       /\ Queue!Collides(j, Queue!Updated(j, status, NoChannel))
       /\ Raise(p)

\* INSERT ... ON CONFLICT DO UPDATE: an existing row keeps its status.
Upserted(vs) == [v \in Videos |->
    IF v \in vs /\ vstatus[v] = "absent" THEN "pending" ELSE vstatus[v]]

-----------------------------------------------------------------------------
\* The daemon's loop (poll_and_run).

\* Wrong variant of Reclaim: the loop polls without ever reclaiming.
PollOnly(w) == At(w, "poll") /\ Goto(w, "claim") /\ UNCHANGED <<queueVars, content, spent>>

Reclaim(w) ==
    /\ At(w, "poll")
    /\ \/ Queue!ReclaimStaleJobs
       \/ ~(\E j \in Jobs : Queue!Reclaimable(j)) /\ UNCHANGED queueVars
    /\ Goto(w, "claim")
    /\ UNCHANGED <<content, spent>>

Claim(w) ==
    /\ At(w, "claim")
    /\ \E j \in Jobs :
        /\ Queue!ClaimNextQueuedJob(j)
        /\ LET c == jobs[j].channel IN
           Become(w, [Idle(IF jobs[j].kind = "update" THEN "known" ELSE "list") EXCEPT
                !.job = j, !.input = jobs[j].input, !.kind = jobs[j].kind,
                !.chan = c, !.gen = IF c = NoChannel THEN 0 ELSE gen[c]])
    /\ UNCHANGED <<content, spent>>

NothingToClaim(w) ==
    /\ At(w, "claim")
    /\ \A j \in Jobs : jobs[j].status # "queued"
    /\ Goto(w, "poll")
    /\ UNCHANGED <<queueVars, content, spent>>

\* The daemon's own handler: records the failure a second time when
\* build_dataset already has.
Fail(w) ==
    /\ At(w, "fail")
    /\ StoreUpdate(w, "failed", Idle("poll"))
    /\ UNCHANGED <<content, spent>>

\* get_job for the log line, outside the try: a deleted row kills the daemon.
Log(w) ==
    /\ At(w, "log")
    /\ Become(w, Idle(IF Queue!Live(proc[w].job) THEN "poll" ELSE "dead"))
    /\ UNCHANGED <<queueVars, content, spent>>

\* compose restarts a worker container that exited.
Restart(w) ==
    /\ At(w, "dead")
    /\ Goto(w, "poll")
    /\ UNCHANGED <<queueVars, content, spent>>

-----------------------------------------------------------------------------
\* run_ingest_job and run_update_job, up to the bundle.

\* list_processed_video_ids, before the listing; empty for a deleted channel.
ReadKnown(p) ==
    /\ At(p, "known")
    /\ Become(p, [proc[p] EXCEPT !.pc = "list", !.known =
            IF SameChannelRow(p) THEN {v \in Videos : vstatus[v] \in Processed} ELSE {}])
    /\ UNCHANGED <<queueVars, content, spent>>

\* stage_list_and_upsert: the listing and the upserts it leads to, which only
\* add 'pending' rows; cut short by an exception they are Fault.
List(p) ==
    /\ At(p, "list")
    /\ LET c == Resolves[proc[p].input] IN \E listed \in Listings[c] :
        /\ Queue!UpsertChannel(c)
        /\ vstatus' = Upserted(listed)
        /\ LET todo == listed \ proc[p].known
               next == IF proc[p].kind = "update"
                       THEN IF todo = {} THEN "nothing" ELSE "check"
                       ELSE IF proc[p].chan = c /\ proc[p].gen = gen[c]
                            THEN "check" ELSE "attach"
           IN  Become(p, [proc[p] EXCEPT !.pc = next, !.chan = c, !.gen = gen[c],
                                         !.todo = todo, !.known = {}])
    /\ UNCHANGED <<gen, chunks, bundle, purging, spent>>

\* The backfill of channel_id: refused by the unique index when the channel
\* has another active job, and by the foreign key when it was deleted.
Attach(p) ==
    /\ At(p, "attach")
    /\ LET j == proc[p].job
           c == proc[p].chan
       IN  \/ SameChannelRow(p) /\ Queue!UpdateJob(j, "keep", c) /\ Goto(p, "check")
           \/ ~Queue!Live(j) /\ Goto(p, "check") /\ UNCHANGED queueVars
           \/ /\ Queue!Live(j)
              /\ SameChannelRow(p) => Queue!Collides(j, Queue!Updated(j, "keep", c))
              /\ Raise(p)
    /\ UNCHANGED <<content, spent>>

\* run_update_job with no new videos.
NothingNew(p) ==
    /\ At(p, "nothing")
    /\ StoreUpdate(p, "done", [proc[p] EXCEPT !.pc = "getJob"])
    /\ UNCHANGED <<content, spent>>

\* build_dataset's entry: a bundle already there makes the job done.
CheckBundle(p) ==
    /\ At(p, "check")
    /\ IF bundle[Dir(p)] # NoBundle
       THEN StoreUpdate(p, "done", [proc[p] EXCEPT !.pc = "open", !.todo = {}])
       ELSE StoreUpdate(p, "running", [proc[p] EXCEPT !.pc = "fetch"])
    /\ UNCHANGED <<content, spent>>

\* Wrong variant of Fetched: an outcome stored as it is named.
FetchedVerbatim(out) == IF out = "captions" THEN "embedded" ELSE out

\* The status a video ends its build with, for each outcome of its captions
\* fetch: captions with text, captions without text, none, an error.
Fetched(out) == CASE out = "captions" -> "embedded"
                  [] out = "empty" -> "chunked"
                  [] out = "none" -> "no_captions"
                  [] out = "error" -> "failed"

\* stage_fetch_captions, chunking and embedding of one video; the statuses
\* go to Postgres although the chunks stay in memory.
FetchVideo(p) ==
    /\ At(p, "fetch")
    /\ \E v \in proc[p].todo, out \in Outcomes :
        /\ vstatus' = IF SameChannelRow(p) THEN [vstatus EXCEPT ![v] = Fetched(out)]
                      ELSE vstatus
        /\ Become(p, [proc[p] EXCEPT !.pc = "record", !.video = v, !.drafts = out = "captions"])
    /\ UNCHANGED <<queueVars, gen, chunks, bundle, purging, spent>>

\* get_video_status reads the status back for the record (a deleted row is
\* an exception), then the progress update is the heartbeat.
RecordVideo(p) ==
    /\ At(p, "record")
    /\ LET v == proc[p].video
           r == [status |-> vstatus[v], drafts |-> proc[p].drafts]
           done == proc[p].recs
       IN  IF SameChannelRow(p)
           THEN StoreUpdate(p, "keep", [proc[p] EXCEPT
                    !.pc = "fetch", !.todo = @ \ {v}, !.drafts = FALSE,
                    !.recs = [w \in DOMAIN done \cup {v} |-> IF w = v THEN r ELSE done[w]]])
           ELSE Raise(p)
    /\ UNCHANGED <<content, spent>>

\* write_bundle, whose last file makes the directory count as a bundle.
WriteBundle(p) ==
    /\ At(p, "fetch")
    /\ proc[p].todo = {}
    /\ bundle' = [bundle EXCEPT ![Dir(p)] = [chan |-> proc[p].chan, recs |-> proc[p].recs]]
    /\ Become(p, [proc[p] EXCEPT !.pc = "finish", !.recs = <<>>])
    /\ UNCHANGED <<queueVars, gen, vstatus, chunks, purging, spent>>

\* build_dataset's last statement: the job is done before anything is loaded.
Finish(p) ==
    /\ At(p, "finish")
    /\ StoreUpdate(p, "done", [proc[p] EXCEPT !.pc = "open"])
    /\ UNCHANGED <<content, spent>>

\* build_dataset's handler, which re-raises.
FailBuild(p) ==
    /\ At(p, "failBuild")
    /\ StoreUpdate(p, "failed", Caught(p))
    /\ UNCHANGED <<content, spent>>

-----------------------------------------------------------------------------
\* read_bundle and load_bundle_into_store.

OpenBundle(p) ==
    /\ At(p, "open")
    /\ LET b == bundle[Dir(p)] IN
       IF b = NoBundle THEN Raise(p)
       ELSE /\ Queue!UpsertChannel(b.chan)
            /\ Become(p, [proc[p] EXCEPT !.pc = "load", !.chan = b.chan, !.gen = gen[b.chan],
                                         !.recs = b.recs, !.todo = DOMAIN b.recs])
    /\ UNCHANGED <<content, spent>>

\* Wrong variant of LoadVideo: videos Postgres already calls embedded are skipped.
LoadUnlessEmbedded(p) ==
    /\ At(p, "load")
    /\ \E v \in proc[p].todo :
        IF ~SameChannelRow(p) THEN Raise(p) /\ UNCHANGED <<vstatus, chunks>>
        ELSE IF vstatus[v] = "embedded"
        THEN /\ StoreUpdate(p, "keep", [proc[p] EXCEPT !.todo = @ \ {v}])
             /\ UNCHANGED <<vstatus, chunks>>
        ELSE /\ StoreUpdate(p, "keep", [proc[p] EXCEPT !.pc = "embed", !.video = v])
             /\ vstatus' = Upserted({v})
             /\ chunks' = [chunks EXCEPT ![v] = p]
    /\ UNCHANGED <<gen, bundle, purging, spent>>

\* One video of the load loop, as far as replace_chunks: heartbeat, upsert,
\* then either the recorded status or fresh rows with no embedding yet.
LoadVideo(p) ==
    /\ At(p, "load")
    /\ \E v \in proc[p].todo :
        IF ~SameChannelRow(p) THEN Raise(p) /\ UNCHANGED <<vstatus, chunks>>
        ELSE IF proc[p].recs[v].drafts
        THEN /\ StoreUpdate(p, "keep", [proc[p] EXCEPT !.pc = "embed", !.video = v])
             /\ vstatus' = Upserted({v})
             /\ chunks' = [chunks EXCEPT ![v] = p]
        ELSE /\ StoreUpdate(p, "keep", [proc[p] EXCEPT !.todo = @ \ {v}])
             /\ vstatus' = [vstatus EXCEPT ![v] = proc[p].recs[v].status]
             /\ UNCHANGED chunks
    /\ UNCHANGED <<gen, bundle, purging, spent>>

\* Wrong variant of EmbedChunks: only rows that are not there any more are updated.
EmbedOldChunks(p) ==
    /\ At(p, "embed")
    /\ Goto(p, "mark")
    /\ UNCHANGED <<queueVars, content, spent>>

\* set_chunk_embeddings, by chunk id: rows another process has replaced since
\* are not there to update.
EmbedChunks(p) ==
    /\ At(p, "embed")
    /\ LET v == proc[p].video IN
       chunks' = [chunks EXCEPT ![v] = IF @ = p THEN "searchable" ELSE @]
    /\ Goto(p, "mark")
    /\ UNCHANGED <<queueVars, gen, vstatus, bundle, purging, spent>>

MarkEmbedded(p) ==
    /\ At(p, "mark")
    /\ LET v == proc[p].video IN
        /\ vstatus' = IF SameChannelRow(p) THEN [vstatus EXCEPT ![v] = "embedded"] ELSE vstatus
        /\ Become(p, [proc[p] EXCEPT !.pc = "load", !.todo = @ \ {v}])
    /\ UNCHANGED <<queueVars, gen, chunks, bundle, purging, spent>>

\* The best-effort refreshes after the load change nothing modelled here.
LoadDone(p) ==
    /\ At(p, "load")
    /\ proc[p].todo = {}
    /\ Goto(p, "getJob")
    /\ UNCHANGED <<queueVars, content, spent>>

\* The runner's own get_job, inside the daemon's try.
GetJob(p) ==
    /\ At(p, "getJob")
    /\ IF ~Queue!Live(proc[p].job) THEN Become(p, Caught(p))
       ELSE IF p \in Workers THEN Become(p, [Idle("log") EXCEPT !.job = proc[p].job])
       ELSE Become(p, Idle("exit"))
    /\ UNCHANGED <<queueVars, content, spent>>

-----------------------------------------------------------------------------
\* Faults.

Spend(k) == spent[k] < Budget[k] /\ spent' = [spent EXCEPT ![k] = @ + 1]

\* The process is killed: nothing but its local state is lost.
Crash(p) ==
    /\ IF p \in Workers THEN ~At(p, "dead") ELSE Running(p)
    /\ Spend("crash")
    /\ Become(p, Idle(IF p \in Workers THEN "dead" ELSE "exit"))
    /\ UNCHANGED <<queueVars, content>>

\* A network, provider, file or database call of p's present step raises (in
\* the load also UNIQUE (video_id, idx), when two loads replace one video's
\* chunks in overlapping transactions).
\* In the daemon's handler and after it no try is left, and the daemon ends.
Fault(p) ==
    /\ Running(p)
    /\ Spend("fault")
    /\ IF proc[p].pc \in {"fail", "log"} THEN Become(p, Idle("dead"))
       ELSE Become(p, Caught(p))
    /\ UNCHANGED <<queueVars, content>>

\* The embedding provider refuses a video that is already chunked.
EmbedFault(p) ==
    /\ At(p, "fetch")
    /\ Spend("fault")
    /\ \E v \in proc[p].todo :
        vstatus' = IF SameChannelRow(p) THEN [vstatus EXCEPT ![v] = "chunked"] ELSE vstatus
    /\ Become(p, Caught(p))
    /\ UNCHANGED <<queueVars, gen, chunks, bundle, purging>>

\* JOB_STALE_AFTER_S passes: for a job no process runs, or whose process is sluggish.
HeartbeatLapses(j) ==
    /\ \A p \in Procs : Running(p) /\ proc[p].job = j => p \in Sluggish
    /\ Queue!HeartbeatLapses(j)
    /\ UNCHANGED <<content, proc, spent>>

-----------------------------------------------------------------------------
\* Users, the scheduler and CLI processes (core/ingest/jobs.py, runner.py).

\* ensure_no_active_job: only the channel's latest job is looked at.
NoActiveJob(c) ==
    \A j \in Jobs :
        /\ Queue!Live(j) /\ jobs[j].channel = c
        /\ \A k \in Jobs : k > j => ~(Queue!Live(k) /\ jobs[k].channel = c)
        => ~Queue!Active(j)

\* channel_id is NULL when the input is not the stored handle, when the
\* channel is new, and when its row appeared after the lookup.
EnqueueIngest(i) ==
    /\ \E j \in Jobs :
        LET c == Resolves[i] IN
        \/ Queue!CreateJob(j, NoChannel, i, "ingest", "queued")
        \/ /\ c \in channels /\ i = Handle[c] /\ NoActiveJob(c)
           /\ Queue!CreateJob(j, c, i, "ingest", "queued")
    /\ UNCHANGED <<content, proc, spent>>

EnqueueUpdate(c) ==
    /\ c \in channels
    /\ NoActiveJob(c)
    /\ \E j \in Jobs : Queue!CreateJob(j, c, Handle[c], "update", "queued")
    /\ UNCHANGED <<content, proc, spent>>

RetryJob(j) ==
    /\ jobs[j].channel # NoChannel => NoActiveJob(jobs[j].channel)
    /\ Spend("retry")
    /\ Queue!RetryJob(j)
    /\ UNCHANGED <<content, proc>>

\* Wrong variant of CancelJob: without WHERE status = 'queued'.
CancelActiveJob(j) ==
    /\ Queue!Active(j)
    /\ jobs' = [jobs EXCEPT ![j].status = "cancelled"]
    /\ UNCHANGED <<channels, starts, content, proc, spent>>

CancelJob(j) ==
    /\ Queue!CancelJob(j)
    /\ UNCHANGED <<content, proc, spent>>

\* run_delete_channel: the rows first, cascading to videos and chunks ...
DeleteChannel(c) ==
    /\ Spend("delete")
    /\ Queue!DeleteChannel(c)
    /\ gen' = [gen EXCEPT ![c] = @ + 1]
    /\ LET gone == UNION Listings[c] IN
        /\ vstatus' = [v \in Videos |-> IF v \in gone THEN "absent" ELSE vstatus[v]]
        /\ chunks' = [v \in Videos |-> IF v \in gone THEN "none" ELSE chunks[v]]
    /\ purging' = purging \cup {c}
    /\ UNCHANGED <<bundle, proc>>

\* ... then the top-level bundle directories whose manifest names the channel
\* and the one its handle maps to, with the update directories inside them.
PurgeBundles(c) ==
    /\ c \in purging
    /\ purging' = purging \ {c}
    /\ LET Top(d) == IF d[1] = "main" THEN d ELSE <<"main", Slug[jobs[d[2]].input]>>
           purged == {d \in Dirs : \/ bundle[Top(d)].chan = c
                                  \/ Top(d) = <<"main", Slug[Handle[c]]>>}
       IN  bundle' = [d \in Dirs |-> IF d \in purged THEN NoBundle ELSE bundle[d]]
    /\ UNCHANGED <<queueVars, gen, vstatus, chunks, proc, spent>>

\* run_ingest_inline: list and upsert, then insert the row already running.
InlineList(p, i) ==
    /\ At(p, "idle")
    /\ LET c == Resolves[i] IN
        /\ Queue!UpsertChannel(c)
        /\ \E listed \in Listings[c] : vstatus' = Upserted(listed)
        /\ Become(p, [Idle("create") EXCEPT !.input = i, !.chan = c, !.gen = gen[c]])
    /\ UNCHANGED <<gen, chunks, bundle, purging, spent>>

\* Wrong variant of InlineCreate: the row is inserted claimable.
InlineCreateQueued(p) ==
    /\ At(p, "create")
    /\ SameChannelRow(p)
    /\ NoActiveJob(proc[p].chan)
    /\ \E j \in Jobs :
        /\ Queue!CreateJob(j, proc[p].chan, proc[p].input, "ingest", "queued")
        /\ Become(p, [proc[p] EXCEPT !.pc = "list", !.job = j])
    /\ UNCHANGED <<content, spent>>

InlineCreate(p) ==
    /\ At(p, "create")
    /\ SameChannelRow(p)
    /\ NoActiveJob(proc[p].chan)
    /\ \E j \in Jobs :
        /\ Queue!CreateJob(j, proc[p].chan, proc[p].input, "ingest", "running")
        /\ Become(p, [proc[p] EXCEPT !.pc = "list", !.job = j])
    /\ UNCHANGED <<content, spent>>

\* An active job, or a channel deleted meanwhile: the command ends with an error.
InlineRefused(p) ==
    /\ At(p, "create")
    /\ SameChannelRow(p) => \E j \in Jobs : Queue!Active(j) /\ jobs[j].channel = proc[p].chan
    /\ Become(p, Idle("exit"))
    /\ UNCHANGED <<queueVars, content, spent>>

-----------------------------------------------------------------------------

\* The steps a live process takes by itself.
RunStep(p) ==
    \/ ReadKnown(p) \/ List(p) \/ Attach(p) \/ NothingNew(p) \/ CheckBundle(p)
    \/ FetchVideo(p) \/ RecordVideo(p) \/ WriteBundle(p) \/ Finish(p) \/ FailBuild(p)
    \/ OpenBundle(p) \/ LoadVideo(p) \/ EmbedChunks(p) \/ MarkEmbedded(p)
    \/ LoadDone(p) \/ GetJob(p)

WorkerStep(w) ==
    \/ Reclaim(w) \/ Claim(w) \/ NothingToClaim(w)
    \/ RunStep(w) \/ Fail(w) \/ Log(w) \/ Restart(w)

CliStep(p) == InlineCreate(p) \/ InlineRefused(p) \/ RunStep(p)

UserStep ==
    \/ \E i \in Inputs : EnqueueIngest(i) \/ \E p \in Clis : InlineList(p, i)
    \/ \E c \in Channels : EnqueueUpdate(c) \/ DeleteChannel(c)
    \/ \E j \in Jobs : RetryJob(j) \/ CancelJob(j)

Next ==
    \/ \E w \in Workers : WorkerStep(w)
    \/ \E p \in Clis : CliStep(p)
    \/ \E p \in Procs : Crash(p) \/ Fault(p) \/ EmbedFault(p)
    \/ \E j \in Jobs : HeartbeatLapses(j)
    \/ \E c \in Channels : PurgeBundles(c)
    \/ UserStep

Spec == Init /\ [][Next]_vars

\* Processes that are not killed keep running, compose restarts workers, and
\* time passes.  Users, crashes and faults are not fair.
Fairness ==
    /\ \A w \in Workers : WF_vars(WorkerStep(w))
    /\ \A p \in Clis : WF_vars(CliStep(p))
    /\ \A j \in Jobs : WF_vars(HeartbeatLapses(j))

FairSpec == Spec /\ Fairness

-----------------------------------------------------------------------------
\* Properties.

Building(p) == proc[p].pc \in BuildPcs

\* The processes use the job table only through its store calls: every step
\* of every process is one JobQueue step or none.
ImplementsQueue == Queue!Spec

\* No two processes build a bundle for one channel row at a time, whatever
\* was reclaimed, enqueued or started inline meanwhile.
OneBuilderPerChannel ==
    \A p, q \in Procs : p # q /\ Building(p) /\ Building(q) =>
        <<proc[p].chan, proc[p].gen>> # <<proc[q].chan, proc[q].gen>>

\* While a process builds, its row says so: nobody requeued, cancelled,
\* failed or finished the job behind its back.
BuilderOwnsRow ==
    \A p \in Procs : Building(p) => jobs[proc[p].job].status \in {"running", "gone"}

\* A run that reaches its end has made every captioned video of its bundle
\* searchable, or another process is replacing that video's chunks.
CompletedRunIsSearchable ==
    \A p \in Procs : At(p, "getJob") /\ SameChannelRow(p) =>
        \A v \in DOMAIN proc[p].recs :
            proc[p].recs[v].drafts => chunks[v] \in {"searchable"} \cup (Procs \ {p})

\* When no process runs a job and nothing ever crashed or raised, a video
\* whose status is 'embedded' can be found by search (core/store/base.py:
\* "actually searchable/answerable").
QuietMeansSearchable ==
    (\A p \in Procs : ~Running(p)) /\ spent.crash = 0 /\ spent.fault = 0 =>
        \A v \in Videos : vstatus[v] = "embedded" => chunks[v] = "searchable"

\* A job reported done that no process works on has had its bundle loaded.
JobDir(j) == IF jobs[j].kind = "update" THEN <<"update", j>> ELSE <<"main", Slug[jobs[j].input]>>
DoneMeansLoaded ==
    \A j \in Jobs :
        jobs[j].status = "done" /\ (\A p \in Procs : Running(p) => proc[p].job # j) =>
            \A v \in DOMAIN bundle[JobDir(j)].recs :
                bundle[JobDir(j)].recs[v].drafts => chunks[v] = "searchable"

\* Every queued or running job is settled in the end: no crash, fault or
\* refused write leaves a row active for ever.
JobsSettle == \A j \in Jobs : Queue!Active(j) ~> ~Queue!Active(j)
=============================================================================
