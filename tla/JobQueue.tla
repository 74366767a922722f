------------------------------- MODULE JobQueue -------------------------------
(***************************************************************************)
(* The ingest_jobs table of core/store/pgvector_store.py, with the two     *)
(* partial unique indexes of migration 0005, under its most general        *)
(* client: any caller (worker, CLI, UI, scheduler) may issue any store     *)
(* call at any moment.  One action is one store call, which the code runs  *)
(* as one Postgres transaction.  What holds here is what the database      *)
(* alone guarantees, whatever the callers do.  IngestPipeline models the   *)
(* callers and is shown to implement this specification.                   *)
(***************************************************************************)
EXTENDS Integers

CONSTANTS
    MaxJobs,      \* bound: how many rows may ever be inserted
    Channels,     \* YouTube channels; at most one channels row for each
    NoChannel,    \* SQL NULL in ingest_jobs.channel_id
    Inputs,       \* the values of payload->>'channel_input'
    MaxAttempts   \* core.constants.MAX_JOB_ATTEMPTS

ASSUME MaxJobsAssumption == MaxJobs \in Nat
ASSUME MaxAttemptsAssumption == MaxAttempts \in Nat \ {0}
ASSUME NoChannelAssumption == NoChannel \notin Channels

VARIABLES
    jobs,         \* [Jobs -> Row]: the table; a row's number is its created_at rank
    channels,     \* the channels that have a row in table channels
    starts        \* history: runs started of each job since insertion or the last user retry

vars == <<jobs, channels, starts>>

Jobs == 1..MaxJobs
Kinds == {"ingest", "update"}
ActiveStatuses == {"queued", "running"}
Statuses == ActiveStatuses \cup {"done", "failed", "cancelled"}

\* status "none" is a row not inserted yet, "gone" one removed with its channel.
Row == [status: Statuses \cup {"none", "gone"},
        channel: Channels \cup {NoChannel},
        input: Inputs,
        kind: Kinds,
        attempts: 0..(MaxAttempts - 1),   \* progress->>'attempts', 0 when missing
        stale: BOOLEAN]                   \* heartbeat_at older than JOB_STALE_AFTER_S

TypeOK ==
    /\ jobs \in [Jobs -> Row]
    /\ channels \subseteq Channels
    /\ starts \in [Jobs -> Nat]

Live(j) == jobs[j].status \in Statuses
Active(j) == jobs[j].status \in ActiveStatuses

\* Two rows the partial unique indexes may not hold together.
SameKey(r, s) ==
    /\ r.status \in ActiveStatuses
    /\ s.status \in ActiveStatuses
    /\ r.channel = s.channel
    /\ r.channel = NoChannel => r.input = s.input

\* Wrong variant of Collides: migration 0005 without its second index, the one
\* for rows whose channel_id is NULL.
CollidesOnChannelOnly(j, r) ==
    r.channel # NoChannel /\ \E k \in Jobs \ {j} : SameKey(r, jobs[k])

\* UniqueViolation (ActiveJobExistsError): writing row r for job j would collide.
Collides(j, r) == \E k \in Jobs \ {j} : SameKey(r, jobs[k])

Init ==
    /\ \E i \in Inputs : jobs = [j \in Jobs |->
            [status |-> "none", channel |-> NoChannel, input |-> i,
             kind |-> "ingest", attempts |-> 0, stale |-> FALSE]]
    /\ channels = {}
    /\ starts = [j \in Jobs |-> 0]

-----------------------------------------------------------------------------

UpsertChannel(c) ==
    /\ channels' = channels \cup {c}
    /\ UNCHANGED <<jobs, starts>>

\* status is "queued" (enqueue) or "running" (a CLI process that runs the job itself).
CreateJob(j, c, i, kind, status) ==
    /\ jobs[j].status = "none"
    /\ \A k \in Jobs : k < j => jobs[k].status # "none"
    /\ c \in channels \cup {NoChannel}
    /\ LET r == [status |-> status, channel |-> c, input |-> i,
                 kind |-> kind, attempts |-> 0, stale |-> FALSE]
       IN  /\ ~Collides(j, r)
           /\ jobs' = [jobs EXCEPT ![j] = r]
    /\ starts' = [starts EXCEPT ![j] = IF status = "running" THEN 1 ELSE 0]
    /\ UNCHANGED channels

\* SELECT ... ORDER BY created_at FOR UPDATE SKIP LOCKED LIMIT 1, then UPDATE.
ClaimNextQueuedJob(j) ==
    /\ jobs[j].status = "queued"
    /\ \A k \in Jobs : k < j => jobs[k].status # "queued"
    /\ jobs' = [jobs EXCEPT ![j].status = "running", ![j].stale = FALSE]
    /\ starts' = [starts EXCEPT ![j] = @ + 1]
    /\ UNCHANGED channels

\* Wrong variant of Updated: progress replaced by the caller's, not merged into.
UpdatedForgettingAttempts(j, status, c) ==
    [jobs[j] EXCEPT !.status = IF status = "keep" THEN @ ELSE status,
                    !.channel = IF c = NoChannel THEN @ ELSE c,
                    !.stale = FALSE, !.attempts = 0]

\* The row update_job writes: status "keep" and channel NoChannel leave the
\* column alone; every call bumps the heartbeat and merges progress, so
\* attempts survives.  No condition on the row's present status.
Updated(j, status, c) ==
    [jobs[j] EXCEPT !.status = IF status = "keep" THEN @ ELSE status,
                    !.channel = IF c = NoChannel THEN @ ELSE c,
                    !.stale = FALSE]

UpdateJob(j, status, c) ==
    /\ Live(j)
    /\ c \in channels \cup {NoChannel}
    /\ ~Collides(j, Updated(j, status, c))
    /\ jobs' = [jobs EXCEPT ![j] = Updated(j, status, c)]
    /\ UNCHANGED <<channels, starts>>

RetryJob(j) ==
    /\ jobs[j].status = "failed"
    /\ LET r == [jobs[j] EXCEPT !.status = "queued", !.stale = FALSE]
       IN  /\ ~Collides(j, r)
           /\ jobs' = [jobs EXCEPT ![j] = r]
    /\ starts' = [starts EXCEPT ![j] = 0]
    /\ UNCHANGED channels

CancelJob(j) ==
    /\ jobs[j].status = "queued"
    /\ jobs' = [jobs EXCEPT ![j].status = "cancelled"]
    /\ UNCHANGED <<channels, starts>>

\* A running row goes JOB_STALE_AFTER_S without a heartbeat.
HeartbeatLapses(j) ==
    /\ jobs[j].status = "running"
    /\ ~jobs[j].stale
    /\ jobs' = [jobs EXCEPT ![j].stale = TRUE]
    /\ UNCHANGED <<channels, starts>>

\* Wrong variant of Reclaimed: a stale job is requeued however often it was.
RequeuedAgain(r) == [r EXCEPT !.status = "queued", !.stale = FALSE, !.attempts = @ + 1]

\* The row a stale running job becomes: failed on its last attempt, else requeued.
Reclaimed(r) ==
    IF r.attempts >= MaxAttempts - 1
    THEN [r EXCEPT !.status = "failed", !.stale = FALSE]
    ELSE [r EXCEPT !.status = "queued", !.stale = FALSE, !.attempts = @ + 1]

Reclaimable(j) == jobs[j].status = "running" /\ jobs[j].stale

\* Both UPDATEs of reclaim_stale_jobs, one transaction, no uniqueness handling.
ReclaimStaleJobs ==
    /\ \E j \in Jobs : Reclaimable(j)
    /\ jobs' = [j \in Jobs |-> IF Reclaimable(j) THEN Reclaimed(jobs[j]) ELSE jobs[j]]
    /\ UNCHANGED <<channels, starts>>

\* Wrong variant of DeleteChannel: ingest_jobs.channel_id without ON DELETE CASCADE.
DeleteChannelOnly(c) ==
    /\ c \in channels
    /\ channels' = channels \ {c}
    /\ UNCHANGED <<jobs, starts>>

\* DELETE FROM channels; its jobs cascade.
DeleteChannel(c) ==
    /\ c \in channels
    /\ channels' = channels \ {c}
    /\ jobs' = [j \in Jobs |-> IF Live(j) /\ jobs[j].channel = c
                               THEN [jobs[j] EXCEPT !.status = "gone", !.stale = FALSE]
                               ELSE jobs[j]]
    /\ UNCHANGED starts

Create ==
    \E j \in Jobs, c \in Channels \cup {NoChannel}, i \in Inputs,
       kind \in Kinds, status \in ActiveStatuses : CreateJob(j, c, i, kind, status)

Update ==
    \E j \in Jobs, c \in Channels \cup {NoChannel},
       status \in {"keep", "running", "done", "failed"} : UpdateJob(j, status, c)

Next ==
    \/ \E c \in Channels : UpsertChannel(c) \/ DeleteChannel(c)
    \/ Create
    \/ Update
    \/ \E j \in Jobs : \/ ClaimNextQueuedJob(j)
                       \/ RetryJob(j)
                       \/ CancelJob(j)
                       \/ HeartbeatLapses(j)
    \/ ReclaimStaleJobs

Spec == Init /\ [][Next]_vars

-----------------------------------------------------------------------------

\* At most one queued or running job for a channel, and for a channel not
\* resolved yet at most one for its input (migration 0005), although claim,
\* reclaim and cancel write the rows without handling a collision.
OneActiveJobPerKey ==
    \A j, k \in Jobs : j # k => ~SameKey(jobs[j], jobs[k])

\* A job is started at most MAX_JOB_ATTEMPTS times between two user retries:
\* a poison job cannot re-embed a channel forever, however its attempts
\* interleave with the updates of workers that were given up for dead.
PoisonJobBounded == \A j \in Jobs : starts[j] <= MaxAttempts

\* Every row's channel exists: a delete leaves no job of the channel behind.
NoOrphanJob ==
    \A j \in Jobs : Live(j) /\ jobs[j].channel # NoChannel => jobs[j].channel \in channels
=============================================================================
