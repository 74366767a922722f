--------------------------- MODULE JobQueueProofs ---------------------------
(***************************************************************************)
(* What the ingest_jobs table guarantees for every number of rows,         *)
(* channels, inputs and attempts, proved by one inductive invariant.       *)
(***************************************************************************)
EXTENDS JobQueue, TLAPS

\* A job waiting to be claimed has used no more starts than reclaims; a job
\* that is or was started has used at most one more.
StartsPaidFor ==
    \A j \in Jobs : /\ starts[j] <= jobs[j].attempts + 1
                    /\ jobs[j].status = "queued" => starts[j] <= jobs[j].attempts

IInv ==
    /\ TypeOK
    /\ OneActiveJobPerKey
    /\ NoOrphanJob
    /\ StartsPaidFor

-----------------------------------------------------------------------------
\* Lemmas about one row.

\* SameKey does not depend on the order of the rows.
LEMMA SameKeySymmetric ==
    ASSUME NEW r, NEW s, SameKey(r, s)
    PROVE  SameKey(s, r)
BY DEF SameKey

\* Writing a row that does not collide keeps the unique indexes (every store
\* call that inserts or rewrites one row).
LEMMA WriteKeepsKeys ==
    ASSUME TypeOK, OneActiveJobPerKey, NEW j \in Jobs, NEW r,
           ~Collides(j, r), jobs' = [jobs EXCEPT ![j] = r]
    PROVE  OneActiveJobPerKey'
<1> SUFFICES ASSUME NEW a \in Jobs, NEW b \in Jobs, a # b,
                    SameKey(jobs'[a], jobs'[b])
             PROVE  FALSE
    BY DEF OneActiveJobPerKey, SameKey, Jobs
<1>1. CASE a = j
    <2>1. jobs'[a] = r /\ jobs'[b] = jobs[b]
        BY <1>1 DEF TypeOK
    <2> QED BY <1>1, <2>1 DEF Collides
<1>2. CASE b = j
    <2>1. jobs'[b] = r /\ jobs'[a] = jobs[a]
        BY <1>2 DEF TypeOK
    <2> QED BY <1>2, <2>1, SameKeySymmetric DEF Collides
<1>3. CASE a # j /\ b # j
    BY <1>3 DEF TypeOK, OneActiveJobPerKey
<1> QED BY <1>1, <1>2, <1>3

\* Rewriting rows without activating one or moving an active one to another
\* channel or input keeps the unique indexes: claim, cancel, reclaim and the
\* cascade of a delete need no uniqueness handling.
LEMMA RewriteKeepsKeys ==
    ASSUME OneActiveJobPerKey,
           \A j \in Jobs : jobs'[j].status \in ActiveStatuses =>
                /\ jobs[j].status \in ActiveStatuses
                /\ jobs'[j].channel = jobs[j].channel
                /\ jobs'[j].input = jobs[j].input
    PROVE  OneActiveJobPerKey'
<1> SUFFICES ASSUME NEW a \in Jobs, NEW b \in Jobs, a # b,
                    SameKey(jobs'[a], jobs'[b])
             PROVE  FALSE
    BY DEF OneActiveJobPerKey, SameKey, Jobs
<1>1. SameKey(jobs[a], jobs[b])
    BY DEF SameKey
<1> QED BY <1>1 DEF OneActiveJobPerKey

\* A row reclaimed from running is a row again, failed on its last attempt.
LEMMA ReclaimedRow ==
    ASSUME NEW r \in Row, r.status = "running"
    PROVE  /\ Reclaimed(r) \in Row
           /\ Reclaimed(r).channel = r.channel
           /\ Reclaimed(r).input = r.input
           /\ \/ Reclaimed(r).status = "failed" /\ Reclaimed(r).attempts = r.attempts
              \/ Reclaimed(r).status = "queued" /\ Reclaimed(r).attempts = r.attempts + 1
<1>1. CASE r.attempts >= MaxAttempts - 1
    <2>1. Reclaimed(r) = [r EXCEPT !.status = "failed", !.stale = FALSE]
        BY <1>1 DEF Reclaimed
    <2> QED BY <2>1 DEF Row, Statuses
<1>2. CASE ~(r.attempts >= MaxAttempts - 1)
    <2>1. Reclaimed(r) = [r EXCEPT !.status = "queued", !.stale = FALSE,
                                   !.attempts = r.attempts + 1]
        BY <1>2 DEF Reclaimed
    <2>2. r.attempts + 1 \in 0..(MaxAttempts - 1)
        BY <1>2, MaxAttemptsAssumption DEF Row
    <2> QED BY <2>1, <2>2 DEF Row, Statuses, ActiveStatuses
<1> QED BY <1>1, <1>2

-----------------------------------------------------------------------------
\* The inductive invariant.

LEMMA InitIInv == Init => IInv
<1> SUFFICES ASSUME Init PROVE IInv
    OBVIOUS
<1>1. PICK i \in Inputs : jobs = [j \in Jobs |->
            [status |-> "none", channel |-> NoChannel, input |-> i,
             kind |-> "ingest", attempts |-> 0, stale |-> FALSE]]
    BY DEF Init
<1>2. TypeOK
    BY <1>1, MaxAttemptsAssumption DEF Init, TypeOK, Row, Kinds
<1>3. OneActiveJobPerKey
    BY <1>1 DEF OneActiveJobPerKey, SameKey, ActiveStatuses
<1>4. NoOrphanJob
    BY <1>1 DEF NoOrphanJob, Live, Statuses, ActiveStatuses
<1>5. StartsPaidFor
    BY <1>1 DEF Init, StartsPaidFor
<1> QED BY <1>2, <1>3, <1>4, <1>5 DEF IInv

\* Inserting a row (create_job).
LEMMA CreateKeepsIInv ==
    ASSUME IInv, NEW j \in Jobs, NEW c \in Channels \cup {NoChannel},
           NEW i \in Inputs, NEW kind \in Kinds, NEW status \in ActiveStatuses,
           CreateJob(j, c, i, kind, status)
    PROVE  IInv'
<1> DEFINE r == [status |-> status, channel |-> c, input |-> i,
                 kind |-> kind, attempts |-> 0, stale |-> FALSE]
<1>1. /\ jobs' = [jobs EXCEPT ![j] = r]
      /\ ~Collides(j, r)
      /\ c \in channels \cup {NoChannel}
      /\ channels' = channels
      /\ starts' = [starts EXCEPT ![j] = IF status = "running" THEN 1 ELSE 0]
    BY DEF CreateJob
<1>2. r \in Row
    BY MaxAttemptsAssumption DEF Row, Statuses
<1>3. TypeOK'
    BY <1>1, <1>2 DEF IInv, TypeOK
<1>4. OneActiveJobPerKey'
    BY <1>1, WriteKeepsKeys DEF IInv
<1>5. NoOrphanJob'
    BY <1>1 DEF IInv, TypeOK, NoOrphanJob, Live
<1>6. StartsPaidFor'
    BY <1>1 DEF IInv, TypeOK, StartsPaidFor, ActiveStatuses
<1> QED BY <1>3, <1>4, <1>5, <1>6 DEF IInv

\* Rewriting a row in place (update_job), whatever its present status.
LEMMA UpdateKeepsIInv ==
    ASSUME IInv, NEW j \in Jobs, NEW c \in Channels \cup {NoChannel},
           NEW status \in {"keep", "running", "done", "failed"},
           UpdateJob(j, status, c)
    PROVE  IInv'
<1> DEFINE r == Updated(j, status, c)
<1>1. /\ jobs' = [jobs EXCEPT ![j] = r]
      /\ ~Collides(j, r)
      /\ Live(j)
      /\ c \in channels \cup {NoChannel}
      /\ channels' = channels /\ starts' = starts
    BY DEF UpdateJob
<1>2. /\ r \in Row
      /\ r.attempts = jobs[j].attempts
      /\ r.channel = (IF c = NoChannel THEN jobs[j].channel ELSE c)
      /\ r.status = "queued" => jobs[j].status = "queued"
    BY DEF IInv, TypeOK, Row, Updated, Statuses, ActiveStatuses
<1>3. TypeOK'
    BY <1>1, <1>2 DEF IInv, TypeOK
<1>4. OneActiveJobPerKey'
    BY <1>1, WriteKeepsKeys DEF IInv
<1>5. NoOrphanJob'
    BY <1>1, <1>2 DEF IInv, TypeOK, NoOrphanJob, Live
<1>6. StartsPaidFor'
    BY <1>1, <1>2 DEF IInv, TypeOK, StartsPaidFor
<1> QED BY <1>3, <1>4, <1>5, <1>6 DEF IInv

\* A user retry: the one write, besides an update, that activates a row.
LEMMA RetryKeepsIInv ==
    ASSUME IInv, NEW j \in Jobs, RetryJob(j)
    PROVE  IInv'
<1> DEFINE r == [jobs[j] EXCEPT !.status = "queued", !.stale = FALSE]
<1>1. /\ jobs' = [jobs EXCEPT ![j] = r]
      /\ ~Collides(j, r)
      /\ jobs[j].status = "failed"
      /\ channels' = channels
      /\ starts' = [starts EXCEPT ![j] = 0]
    BY DEF RetryJob
<1>2. /\ r \in Row
      /\ r.attempts = jobs[j].attempts
      /\ r.channel = jobs[j].channel
    BY DEF IInv, TypeOK, Row, Statuses, ActiveStatuses
<1>3. TypeOK'
    BY <1>1, <1>2 DEF IInv, TypeOK
<1>4. OneActiveJobPerKey'
    BY <1>1, WriteKeepsKeys DEF IInv
<1>5. NoOrphanJob'
    BY <1>1, <1>2 DEF IInv, TypeOK, NoOrphanJob, Live, Statuses
<1>6. StartsPaidFor'
    <2>1. jobs[j].attempts \in Nat
        BY MaxAttemptsAssumption DEF IInv, TypeOK, Row
    <2> QED BY <1>1, <1>2, <2>1 DEF IInv, TypeOK, StartsPaidFor
<1> QED BY <1>3, <1>4, <1>5, <1>6 DEF IInv

\* The writes that need no uniqueness handling: claim, cancel, a heartbeat
\* that lapses, reclaim.
LEMMA ClaimKeepsIInv ==
    ASSUME IInv, NEW j \in Jobs, ClaimNextQueuedJob(j)
    PROVE  IInv'
<1> DEFINE r == [jobs[j] EXCEPT !.status = "running", !.stale = FALSE]
<1>1. /\ jobs' = [jobs EXCEPT ![j] = r]
      /\ jobs[j].status = "queued"
      /\ channels' = channels
      /\ starts' = [starts EXCEPT ![j] = starts[j] + 1]
    BY DEF ClaimNextQueuedJob, IInv, TypeOK
<1>2. /\ r \in Row
      /\ r.status = "running"
      /\ r.attempts = jobs[j].attempts
      /\ r.channel = jobs[j].channel
      /\ r.input = jobs[j].input
    BY DEF IInv, TypeOK, Row, Statuses, ActiveStatuses
<1>3. TypeOK'
    BY <1>1, <1>2 DEF IInv, TypeOK
<1>4. OneActiveJobPerKey'
    BY <1>1, <1>2, RewriteKeepsKeys DEF IInv, TypeOK, ActiveStatuses
<1>5. NoOrphanJob'
    BY <1>1, <1>2 DEF IInv, TypeOK, NoOrphanJob, Live, Statuses, ActiveStatuses
<1>6. StartsPaidFor'
    <2>1. jobs[j].attempts \in Int
        BY MaxAttemptsAssumption DEF IInv, TypeOK, Row
    <2> QED BY <1>1, <1>2, <2>1 DEF IInv, TypeOK, StartsPaidFor
<1> QED BY <1>3, <1>4, <1>5, <1>6 DEF IInv

LEMMA CancelKeepsIInv ==
    ASSUME IInv, NEW j \in Jobs, CancelJob(j)
    PROVE  IInv'
<1> DEFINE r == [jobs[j] EXCEPT !.status = "cancelled"]
<1>1. /\ jobs' = [jobs EXCEPT ![j] = r]
      /\ jobs[j].status = "queued"
      /\ channels' = channels /\ starts' = starts
    BY DEF CancelJob
<1>2. /\ r \in Row
      /\ r.status = "cancelled"
      /\ r.attempts = jobs[j].attempts
      /\ r.channel = jobs[j].channel
    BY DEF IInv, TypeOK, Row, Statuses, ActiveStatuses
<1>3. TypeOK'
    BY <1>1, <1>2 DEF IInv, TypeOK
<1>4. OneActiveJobPerKey'
    BY <1>1, <1>2, RewriteKeepsKeys DEF IInv, TypeOK, ActiveStatuses
<1>5. NoOrphanJob'
    BY <1>1, <1>2 DEF IInv, TypeOK, NoOrphanJob, Live, Statuses, ActiveStatuses
<1>6. StartsPaidFor'
    BY <1>1, <1>2 DEF IInv, TypeOK, StartsPaidFor
<1> QED BY <1>3, <1>4, <1>5, <1>6 DEF IInv

LEMMA LapseKeepsIInv ==
    ASSUME IInv, NEW j \in Jobs, HeartbeatLapses(j)
    PROVE  IInv'
<1> DEFINE r == [jobs[j] EXCEPT !.stale = TRUE]
<1>1. /\ jobs' = [jobs EXCEPT ![j] = r]
      /\ channels' = channels /\ starts' = starts
    BY DEF HeartbeatLapses
<1>2. /\ r \in Row
      /\ r.status = jobs[j].status
      /\ r.attempts = jobs[j].attempts
      /\ r.channel = jobs[j].channel
      /\ r.input = jobs[j].input
    BY DEF IInv, TypeOK, Row
<1>3. TypeOK'
    BY <1>1, <1>2 DEF IInv, TypeOK
<1>4. OneActiveJobPerKey'
    BY <1>1, <1>2, RewriteKeepsKeys DEF IInv, TypeOK
<1>5. NoOrphanJob'
    BY <1>1, <1>2 DEF IInv, TypeOK, NoOrphanJob, Live
<1>6. StartsPaidFor'
    BY <1>1, <1>2 DEF IInv, TypeOK, StartsPaidFor
<1> QED BY <1>3, <1>4, <1>5, <1>6 DEF IInv

LEMMA ReclaimKeepsIInv ==
    ASSUME IInv, ReclaimStaleJobs
    PROVE  IInv'
<1>1. /\ jobs' = [j \in Jobs |-> IF Reclaimable(j) THEN Reclaimed(jobs[j]) ELSE jobs[j]]
      /\ channels' = channels /\ starts' = starts
    BY DEF ReclaimStaleJobs
<1>2. ASSUME NEW j \in Jobs
      PROVE  /\ jobs'[j] \in Row
             /\ jobs'[j].channel = jobs[j].channel
             /\ jobs'[j].input = jobs[j].input
             /\ \/ jobs'[j] = jobs[j]
                \/ /\ jobs[j].status = "running"
                   /\ jobs'[j].status = "failed"
                   /\ jobs'[j].attempts = jobs[j].attempts
                \/ /\ jobs[j].status = "running"
                   /\ jobs'[j].status = "queued"
                   /\ jobs'[j].attempts = jobs[j].attempts + 1
    <2>1. jobs[j] \in Row
        BY DEF IInv, TypeOK
    <2>2. CASE Reclaimable(j)
        <3>1. jobs'[j] = Reclaimed(jobs[j]) /\ jobs[j].status = "running"
            BY <1>1, <2>2 DEF Reclaimable
        <3> QED BY <2>1, <3>1, ReclaimedRow
    <2>3. CASE ~Reclaimable(j)
        BY <1>1, <2>1, <2>3
    <2> QED BY <2>2, <2>3
<1>3. TypeOK'
    BY <1>1, <1>2 DEF IInv, TypeOK
<1>4. OneActiveJobPerKey'
    BY <1>2, RewriteKeepsKeys DEF IInv, ActiveStatuses
<1>5. NoOrphanJob'
    BY <1>1, <1>2 DEF IInv, NoOrphanJob, Live, Statuses, ActiveStatuses
<1>6. StartsPaidFor'
    <2> SUFFICES ASSUME NEW j \in Jobs
                 PROVE  /\ starts'[j] <= jobs'[j].attempts + 1
                        /\ jobs'[j].status = "queued" => starts'[j] <= jobs'[j].attempts
        BY DEF StartsPaidFor
    <2>1. starts[j] \in Nat /\ jobs[j].attempts \in Int
        BY MaxAttemptsAssumption DEF IInv, TypeOK, Row
    <2>2. /\ starts[j] <= jobs[j].attempts + 1
          /\ jobs[j].status = "queued" => starts[j] <= jobs[j].attempts
        BY DEF IInv, StartsPaidFor
    <2> QED BY <1>1, <1>2, <2>1, <2>2
<1> QED BY <1>3, <1>4, <1>5, <1>6 DEF IInv

\* A delete removes exactly the rows that would become orphans.
LEMMA DeleteKeepsIInv ==
    ASSUME IInv, NEW c \in Channels, DeleteChannel(c)
    PROVE  IInv'
<1>1. /\ jobs' = [j \in Jobs |-> IF Live(j) /\ jobs[j].channel = c
                                 THEN [jobs[j] EXCEPT !.status = "gone", !.stale = FALSE]
                                 ELSE jobs[j]]
      /\ channels' = channels \ {c} /\ starts' = starts
    BY DEF DeleteChannel
<1>2. ASSUME NEW j \in Jobs
      PROVE  /\ jobs'[j] \in Row
             /\ jobs'[j].attempts = jobs[j].attempts
             /\ \/ /\ jobs'[j] = jobs[j]
                   /\ ~(Live(j) /\ jobs[j].channel = c)
                \/ jobs'[j].status = "gone"
    <2>1. jobs[j] \in Row
        BY DEF IInv, TypeOK
    <2>2. CASE Live(j) /\ jobs[j].channel = c
        <3>1. jobs'[j] = [jobs[j] EXCEPT !.status = "gone", !.stale = FALSE]
            BY <1>1, <2>2
        <3> QED BY <2>1, <3>1 DEF Row
    <2>3. CASE ~(Live(j) /\ jobs[j].channel = c)
        BY <1>1, <2>1, <2>3
    <2> QED BY <2>2, <2>3
<1>3. TypeOK'
    BY <1>1, <1>2 DEF IInv, TypeOK
<1>4. OneActiveJobPerKey'
    BY <1>2, RewriteKeepsKeys DEF IInv, ActiveStatuses
<1>5. NoOrphanJob'
    BY <1>1, <1>2 DEF IInv, NoOrphanJob, Live, Statuses, ActiveStatuses
<1>6. StartsPaidFor'
    BY <1>1, <1>2 DEF IInv, StartsPaidFor
<1> QED BY <1>3, <1>4, <1>5, <1>6 DEF IInv

LEMMA UpsertKeepsIInv ==
    ASSUME IInv, NEW c \in Channels, UpsertChannel(c)
    PROVE  IInv'
<1>1. channels' = channels \cup {c} /\ jobs' = jobs /\ starts' = starts
    BY DEF UpsertChannel
<1>2. TypeOK'
    BY <1>1 DEF IInv, TypeOK
<1>3. OneActiveJobPerKey' /\ StartsPaidFor'
    BY <1>1 DEF IInv, OneActiveJobPerKey, StartsPaidFor
<1>4. NoOrphanJob'
    BY <1>1 DEF IInv, NoOrphanJob, Live
<1> QED BY <1>2, <1>3, <1>4 DEF IInv

\* Every store call keeps the inductive invariant.
LEMMA NextKeepsIInv == IInv /\ [Next]_vars => IInv'
<1> SUFFICES ASSUME IInv, [Next]_vars PROVE IInv'
    OBVIOUS
<1>1. ASSUME NEW c \in Channels, UpsertChannel(c) PROVE IInv'
    BY <1>1, UpsertKeepsIInv
<1>2. ASSUME NEW c \in Channels, DeleteChannel(c) PROVE IInv'
    BY <1>2, DeleteKeepsIInv
<1>3. CASE Create
    BY <1>3, CreateKeepsIInv DEF Create
<1>4. CASE Update
    BY <1>4, UpdateKeepsIInv DEF Update
<1>5. ASSUME NEW j \in Jobs, ClaimNextQueuedJob(j) PROVE IInv'
    BY <1>5, ClaimKeepsIInv
<1>6. ASSUME NEW j \in Jobs, RetryJob(j) PROVE IInv'
    BY <1>6, RetryKeepsIInv
<1>7. ASSUME NEW j \in Jobs, CancelJob(j) PROVE IInv'
    BY <1>7, CancelKeepsIInv
<1>8. ASSUME NEW j \in Jobs, HeartbeatLapses(j) PROVE IInv'
    BY <1>8, LapseKeepsIInv
<1>9. CASE ReclaimStaleJobs
    BY <1>9, ReclaimKeepsIInv
<1>10. CASE UNCHANGED vars
    BY <1>10 DEF vars, IInv, TypeOK, OneActiveJobPerKey, NoOrphanJob, Live, StartsPaidFor
<1> QED
    BY <1>1, <1>2, <1>3, <1>4, <1>5, <1>6, <1>7, <1>8, <1>9, <1>10 DEF Next

-----------------------------------------------------------------------------
\* The theorems.

\* The inductive invariant holds of every behaviour of the store calls.
THEOREM Invariance == Spec => []IInv
<1>1. Init => IInv
    BY InitIInv
<1>2. IInv /\ [Next]_vars => IInv'
    BY NextKeepsIInv
<1> QED BY <1>1, <1>2, PTL DEF Spec

\* No interleaving of store calls leaves the table ill-formed: attempts stays
\* below MAX_JOB_ATTEMPTS whatever update_job merges and reclaim increments.
THEOREM TypeCorrectness == Spec => []TypeOK
<1>1. IInv => TypeOK
    BY DEF IInv
<1> QED BY <1>1, Invariance, PTL

\* Migration 0005's promise: at most one queued or running job per channel,
\* for any number of callers, jobs and channels.
THEOREM OneActiveJob == Spec => []OneActiveJobPerKey
<1>1. IInv => OneActiveJobPerKey
    BY DEF IInv
<1> QED BY <1>1, Invariance, PTL

\* A job row never outlives its channel row.
THEOREM NoOrphan == Spec => []NoOrphanJob
<1>1. IInv => NoOrphanJob
    BY DEF IInv
<1> QED BY <1>1, Invariance, PTL

\* reclaim_stale_jobs bounds the starts of a poison job by MAX_JOB_ATTEMPTS
\* for every value of that constant.
THEOREM PoisonBound == Spec => []PoisonJobBounded
<1>1. IInv => PoisonJobBounded
    <2> SUFFICES ASSUME IInv, NEW j \in Jobs
                 PROVE  starts[j] <= MaxAttempts
        BY DEF PoisonJobBounded
    <2>1. starts[j] \in Nat /\ jobs[j].attempts \in 0..(MaxAttempts - 1)
        BY DEF IInv, TypeOK, Row
    <2>2. starts[j] <= jobs[j].attempts + 1
        BY DEF IInv, StartsPaidFor
    <2> QED BY <2>1, <2>2, MaxAttemptsAssumption
<1> QED BY <1>1, Invariance, PTL
=============================================================================
