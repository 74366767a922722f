------------------------------ MODULE Scheduler ------------------------------
(***************************************************************************)
(* The auto-ingest scheduler: core/worker/scheduler.py, called by the loop *)
(* of every worker daemon, on the columns auto_update and last_checked_at  *)
(* of the channels table and on the job queue.  A tick reads the opted-in  *)
(* channels once and then, channel by channel, enqueues an update in one   *)
(* transaction and marks the channel checked in another; users, other      *)
(* workers and jobs go on in between.                                      *)
(*                                                                         *)
(* Of the job table only the active job of each channel is kept: JobQueue  *)
(* shows there is at most one.  Time is counted in units, last_checked_at  *)
(* as the time since then.                                                 *)
(***************************************************************************)
EXTENDS Integers, FiniteSets

CONSTANTS
    Workers,
    Channels,
    Interval,    \* auto_ingest_interval_hours; 0 turns the scheduler off
    Jitter,      \* [Channels -> Nat]: jitter_for
    MaxEvents,   \* bound: edits by users, database errors inside a tick and workers killed
    Never        \* last_checked_at IS NULL

ASSUME SchedulerAssumption ==
    /\ Interval \in Nat /\ Jitter \in [Channels -> Nat]
    /\ \E c \in Channels : \A d \in Channels : Jitter[d] <= Jitter[c]
    /\ MaxEvents \in Nat /\ Never \notin Nat
    /\ IsFiniteSet(Workers) /\ Workers \cap {"none", "queued"} = {}

VARIABLES
    rows,      \* channels that have a row
    auto,      \* channels.auto_update
    age,       \* [Channels -> time since last_checked_at, or Never]
    job,       \* [Channels -> "none", "queued" or the worker that runs the active job]
    tick,      \* [Workers -> the tick in progress]
    scheduled, \* history: jobs the scheduler made of each channel since it last became due
    aborted,   \* history: ticks that ended between an enqueue and its mark
    events

vars == <<rows, auto, age, job, tick, scheduled, aborted, events>>

\* Ages beyond the last due time are not told apart.
Cap == Interval + (CHOOSE n \in {Jitter[c] : c \in Channels} : \A c \in Channels : Jitter[c] <= n)
NoTick == [pc |-> "idle", todo |-> {}, at |-> 0, chan |-> CHOOSE c \in Channels : TRUE]

TypeOK ==
    /\ rows \subseteq Channels /\ auto \subseteq Channels
    /\ age \in [Channels -> 0..Cap \cup {Never}]
    /\ job \in [Channels -> Workers \cup {"none", "queued"}]
    /\ tick \in [Workers -> [pc : {"idle", "enqueue", "mark"}, todo : SUBSET Channels,
                             at : 0..Cap, chan : Channels]]
    /\ events \in 0..MaxEvents
    \* a row that goes takes its job along, and a worker runs one job at a time, between ticks
    /\ \A c \in Channels : job[c] = "queued" => c \in rows
    /\ \A c, d \in Channels : job[c] = job[d] /\ job[c] \in Workers => c = d
    /\ \A w \in Workers : tick[w].pc # "idle" => \A c \in Channels : job[c] # w

Init ==
    /\ rows = Channels
    /\ auto \in SUBSET Channels
    /\ age = [c \in Channels |-> Never]
    /\ job = [c \in Channels |-> "none"]
    /\ tick = [w \in Workers |-> NoTick]
    /\ scheduled = [c \in Channels |-> 0]
    /\ aborted = 0 /\ events = 0

\* What the program promises to check: never checked, or not since the interval.
Overdue(c, n) == n = Never \/ n >= Interval + Jitter[c]

\* Wrong variant of IsDue: the interval compared in SQL, where NULL is not less.
IsDueInSql(c) == age[c] # Never /\ age[c] >= Interval + Jitter[c]

IsDue(c) ==
    \/ age[c] = Never
    \/ age[c] >= Interval + Jitter[c]

Idle(w) == tick[w].pc = "idle" /\ \A c \in Channels : job[c] # w
Running(c) == job[c] \in Workers
Event == events < MaxEvents /\ events' = events + 1

-----------------------------------------------------------------------------
\* run_auto_ingest_tick.

\* list_auto_update_channels; `now` is taken just before.
StartTick(w) ==
    /\ Interval > 0 /\ Idle(w)
    /\ LET due == {c \in rows \cap auto : IsDue(c)} IN
        /\ due # {}
        /\ tick' = [tick EXCEPT ![w] = [NoTick EXCEPT !.pc = "enqueue", !.todo = due]]
    /\ UNCHANGED <<rows, auto, age, job, scheduled, aborted, events>>

\* Wrong variant of Enqueue: the channel is not looked up again.
EnqueueUnchecked(w) ==
    /\ tick[w].pc = "enqueue"
    /\ \E c \in tick[w].todo :
        /\ tick' = [tick EXCEPT ![w].pc = "mark", ![w].chan = c]
        /\ job' = IF job[c] = "none" THEN [job EXCEPT ![c] = "queued"] ELSE job
    /\ UNCHANGED <<rows, auto, age, scheduled, aborted, events>>

\* enqueue_update_job: a channel that is gone raises ChannelNotFoundError, which
\* nobody catches before the worker's loop; an active job is no error.
Enqueue(w) ==
    /\ tick[w].pc = "enqueue"
    /\ \E c \in tick[w].todo :
        IF c \notin rows
        THEN tick' = [tick EXCEPT ![w] = NoTick] /\ UNCHANGED <<job, scheduled>>
        ELSE /\ tick' = [tick EXCEPT ![w].pc = "mark", ![w].chan = c]
             /\ IF job[c] = "none"
                THEN /\ job' = [job EXCEPT ![c] = "queued"]
                     /\ scheduled' = [scheduled EXCEPT ![c] = @ + 1]
                ELSE UNCHANGED <<job, scheduled>>
    /\ UNCHANGED <<rows, auto, age, aborted, events>>

Proceed(w, c) ==
    LET rest == tick[w].todo \ {c} IN
    tick' = [tick EXCEPT ![w] = IF rest = {} THEN NoTick
                                 ELSE [NoTick EXCEPT !.pc = "enqueue", !.todo = rest, !.at = tick[w].at]]

\* Wrong variant of Mark: in the except branch, for a channel whose job runs already.
MarkRefused(w) ==
    /\ tick[w].pc = "mark"
    /\ LET c == tick[w].chan IN
        /\ age' = [age EXCEPT ![c] = IF c \in rows /\ Running(c) THEN tick[w].at ELSE @]
        /\ Proceed(w, c)
    /\ UNCHANGED <<rows, auto, job, scheduled, aborted, events>>

\* mark_channel_checked with the tick's `now`; an UPDATE of no row is no error.
Mark(w) ==
    /\ tick[w].pc = "mark"
    /\ LET c == tick[w].chan IN
        /\ age' = [age EXCEPT ![c] = IF c \in rows THEN tick[w].at ELSE @]
        /\ Proceed(w, c)
    /\ UNCHANGED <<rows, auto, job, scheduled, aborted, events>>

\* A database error ends the tick; the worker's loop logs it and goes on.
TickFails(w) ==
    /\ tick[w].pc # "idle" /\ Event
    /\ tick' = [tick EXCEPT ![w] = NoTick]
    /\ aborted' = IF tick[w].pc = "mark" THEN aborted + 1 ELSE aborted
    /\ UNCHANGED <<rows, auto, age, job, scheduled>>

-----------------------------------------------------------------------------
\* The rest of the worker's loop, and its end.

ClaimNext(w) ==
    /\ Idle(w)
    /\ \E c \in Channels : job[c] = "queued" /\ job' = [job EXCEPT ![c] = w]
    /\ UNCHANGED <<rows, auto, age, tick, scheduled, aborted, events>>

\* Whatever the pipeline makes of it, the job ends (JobsSettle of IngestPipeline).
EndJob(w) ==
    /\ \E c \in Channels : job[c] = w /\ job' = [job EXCEPT ![c] = "none"]
    /\ UNCHANGED <<rows, auto, age, tick, scheduled, aborted, events>>

\* The process dies and is started again; its job goes back to the queue when it
\* has become stale, unless its channel is gone.
Die(w) ==
    /\ Event
    /\ tick' = [tick EXCEPT ![w] = NoTick]
    /\ aborted' = IF tick[w].pc = "mark" THEN aborted + 1 ELSE aborted
    /\ job' = [c \in Channels |-> IF job[c] # w THEN job[c]
                                  ELSE IF c \in rows THEN "queued" ELSE "none"]
    /\ UNCHANGED <<rows, auto, age, scheduled>>

\* Time passes for every last_checked_at and every `now` alike.  A tick, some
\* milliseconds of SQL, does not outlast an interval of hours.
TimePasses ==
    /\ \A w \in Workers : tick[w].pc # "idle" => tick[w].at + 1 < Interval
    /\ LET older(n) == IF n = Never THEN n ELSE IF n < Cap THEN n + 1 ELSE n IN
        /\ age' = [c \in Channels |-> older(age[c])]
        /\ tick' = [w \in Workers |-> IF tick[w].pc = "idle" THEN tick[w]
                                      ELSE [tick[w] EXCEPT !.at = older(@)]]
        /\ scheduled' = [c \in Channels |->
                IF Overdue(c, older(age[c])) /\ ~Overdue(c, age[c]) THEN 0 ELSE scheduled[c]]
    /\ UNCHANGED <<rows, auto, job, aborted, events>>

\* set_channel_auto_update, "check for new videos", "Delete channel".
UserEdits ==
    /\ Event
    /\ \E c \in rows :
        \/ /\ auto' = IF c \in auto THEN auto \ {c} ELSE auto \cup {c}
           /\ UNCHANGED <<rows, job>>
        \/ /\ job[c] = "none" /\ job' = [job EXCEPT ![c] = "queued"]
           /\ UNCHANGED <<rows, auto>>
        \/ /\ rows' = rows \ {c} /\ auto' = auto \ {c}
           /\ job' = [job EXCEPT ![c] = IF Running(c) THEN @ ELSE "none"]
    /\ UNCHANGED <<age, tick, scheduled, aborted>>

WorkerStep(w) ==
    \/ StartTick(w) \/ Enqueue(w) \/ Mark(w) \/ TickFails(w) \/ ClaimNext(w) \/ EndJob(w)
    \/ Die(w)

Next == TimePasses \/ UserEdits \/ \E w \in Workers : WorkerStep(w)

\* Every pass of the loop looks at the clock before it claims, and while jobs run
\* the time between two ticks passes: strong fairness of the tick.  A tick goes on
\* by itself, and a job ends.
Fairness ==
    \A w \in Workers : /\ SF_vars(StartTick(w))
                       /\ WF_vars(Enqueue(w) \/ Mark(w))
                       /\ WF_vars(EndJob(w))

Spec == Init /\ [][Next]_vars /\ Fairness

-----------------------------------------------------------------------------
\* scheduler.py:44 says a channel "isn't retried on the very next tick": from one
\* due time to the next every worker enqueues a channel at most once, and once
\* more for each tick that ended before its mark.
ScheduledOncePerWorker ==
    \A c \in Channels : scheduled[c] <= Cardinality(Workers) + aborted

\* A channel that is due and stays opted in gets checked, though ticks fail,
\* other channels are deleted in mid-tick and workers die and restart
\* (run_auto_ingest_tick's promise to keep "updates flowing").
DueGetsChecked ==
    Interval > 0 => \A c \in Channels : (c \in rows \cap auto /\ Overdue(c, age[c])) ~>
                        (c \notin rows \cap auto \/ ~Overdue(c, age[c]))
=============================================================================
