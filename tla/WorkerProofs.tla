------------------------------ MODULE WorkerProofs ------------------------------
(***************************************************************************)
(* What holds of the worker daemon and its neighbours for every value of   *)
(* the constants: how any process comes up on a database that others       *)
(* migrate (Startup), and what the auto-ingest scheduler of the loop it    *)
(* then runs enqueues (Scheduler).  The two share no state, so each has an *)
(* inductive invariant of its own.                                         *)
(***************************************************************************)
EXTENDS Startup, Scheduler, FiniteSetTheorems, TLAPS

(***************************************************************************)
(* Part 1, Startup: what apply_all and get_pool guarantee for every number *)
(* of processes, migrations, refused statements and deaths.                *)
(***************************************************************************)

\* What a session found applied is applied; one that leaves apply_all without
\* an error has found or applied every file, and has lost none by its commit.
KnownIsApplied == \A p \in Procs : known[p] \subseteq applied
CommittedFirst == \A f \in applied : 1..f \subseteq applied
LeavesNothing ==
    \A p \in Procs :
        /\ pc[p] = "boot" => ~using[p]
        /\ pc[p] \in {"unlock", "commit"} /\ ~refused[p] => Files \subseteq known[p] \cup tx[p]
        /\ pc[p] = "checked" /\ using[p] /\ ~refused[p] => applied = Files

StartupInv ==
    /\ StartupTypeOK
    /\ AppliedInOrder
    /\ KnownIsApplied
    /\ CommittedFirst
    /\ LeavesNothing
    /\ ServingOnFullSchema

-----------------------------------------------------------------------------
\* Lemmas about the sets of files.

\* The first pending file extends a prefix of the files (ApplyFile).
LEMMA NextFileExtends ==
    ASSUME NumFiles \in Nat, NEW S \in SUBSET Files, \A f \in S : 1..f \subseteq S,
           NEW g \in Files, \A h \in Files : h < g => h \in S
    PROVE  \A f \in S \cup {g} : 1..f \subseteq S \cup {g}
<1> SUFFICES ASSUME NEW f \in S \cup {g}, NEW h \in 1..f
             PROVE  h \in S \cup {g}
    OBVIOUS
<1>1. CASE f \in S
    BY <1>1
<1>2. CASE f = g
    BY <1>2 DEF Files
<1> QED BY <1>1, <1>2

\* One session adding the first file it is missing, which nobody else has, to its
\* transaction keeps the order (ApplyFile).
LEMMA ApplyKeepsOrder ==
    ASSUME StartupInv, NumFiles \in Nat, NEW p \in Procs, NEW f \in Pending(p),
           \A g \in Pending(p) : f <= g, f \notin applied,
           \A q \in Procs \ {p} : f \notin tx[q],
           tx' = [tx EXCEPT ![p] = @ \cup {f}], applied' = applied
    PROVE  AppliedInOrder'
<1>1. f \in Files /\ tx \in [Procs -> SUBSET Files] /\ applied \subseteq Files
    BY DEF StartupInv, StartupTypeOK, Pending
<1>2. tx'[p] = tx[p] \cup {f} /\ \A q \in Procs \ {p} : tx'[q] = tx[q]
    BY <1>1
<1>3. \A h \in Files : h < f => h \in applied \cup tx[p]
    <2> SUFFICES ASSUME NEW h \in Files, h < f, h \notin applied \cup tx[p]
                 PROVE  FALSE
        OBVIOUS
    <2>1. h \in Pending(p)
        BY DEF Pending, StartupInv, KnownIsApplied
    <2> QED BY <2>1, <1>1 DEF Files
<1>4. \A g \in (applied \cup tx[p]) \cup {f} : 1..g \subseteq (applied \cup tx[p]) \cup {f}
    <2> DEFINE S == applied \cup tx[p]
    <2>1. S \in SUBSET Files /\ \A g \in S : 1..g \subseteq S
        BY <1>1 DEF StartupInv, AppliedInOrder
    <2>2. \A h \in Files : h < f => h \in S
        BY <1>3
    <2> HIDE DEF S
    <2>3. \A g \in S \cup {f} : 1..g \subseteq S \cup {f}
        BY <2>1, <2>2, <1>1, NextFileExtends
    <2> QED BY <2>3 DEF S
<1>5. AppliedInOrder
    BY DEF StartupInv
<1> SUFFICES ASSUME NEW q \in Procs
             PROVE  /\ applied' \cap tx'[q] = {}
                    /\ \A g \in applied' \cup tx'[q] : 1..g \subseteq applied' \cup tx'[q]
                    /\ \A r \in Procs \ {q} : tx'[q] \cap tx'[r] = {}
    BY DEF AppliedInOrder
<1>6. applied \cap tx[q] = {} /\ \A r \in Procs \ {q} : tx[q] \cap tx[r] = {}
    BY <1>5 DEF AppliedInOrder
<1>7. applied' \cap tx'[q] = {}
    BY <1>2, <1>6
<1>8. \A g \in applied' \cup tx'[q] : 1..g \subseteq applied' \cup tx'[q]
    <2>1. CASE q = p
        <3>1. applied' \cup tx'[q] = (applied \cup tx[p]) \cup {f}
            BY <2>1, <1>2
        <3> QED BY <3>1, <1>4
    <2>2. CASE q # p
        <3>1. applied' \cup tx'[q] = applied \cup tx[q]
            BY <2>2, <1>2
        <3> QED BY <3>1, <1>5 DEF AppliedInOrder
    <2> QED BY <2>1, <2>2
<1>9. \A r \in Procs \ {q} : tx'[q] \cap tx'[r] = {}
    BY <1>2, <1>6
<1> QED BY <1>7, <1>8, <1>9

\* Committing one session's files, or losing those of a dead session, keeps the
\* order (Commit, Kill).
LEMMA MoveKeepsOrder ==
    ASSUME AppliedInOrder, CommittedFirst, tx \in [Procs -> SUBSET Files], NEW p \in Procs,
           tx' = [tx EXCEPT ![p] = {}],
           applied' = applied \/ applied' = applied \cup tx[p]
    PROVE  AppliedInOrder' /\ CommittedFirst'
<1>1. tx'[p] = {} /\ \A q \in Procs \ {p} : tx'[q] = tx[q]
    OBVIOUS
<1>2. \A q \in Procs : \A g \in applied \cup tx[q] : 1..g \subseteq applied \cup tx[q]
    BY DEF AppliedInOrder
<1>3. CommittedFirst'
    BY <1>2 DEF CommittedFirst
<1>4. ASSUME NEW q \in Procs
      PROVE  /\ applied' \cap tx'[q] = {}
             /\ \A r \in Procs \ {q} : tx'[q] \cap tx'[r] = {}
    BY <1>1 DEF AppliedInOrder
<1>5. ASSUME NEW q \in Procs
      PROVE  \A g \in applied' \cup tx'[q] : 1..g \subseteq applied' \cup tx'[q]
    <2>1. CASE q = p
        BY <2>1, <1>1, <1>3 DEF CommittedFirst
    <2>2. CASE q # p
        <3>1. tx'[q] = tx[q]
            BY <2>2, <1>1
        <3> SUFFICES ASSUME NEW g \in applied' \cup tx[q]
                     PROVE  1..g \subseteq applied' \cup tx[q]
            BY <3>1
        <3>2. CASE g \in applied \cup tx[q]
            BY <3>2, <1>2
        <3>3. CASE g \in tx[p] /\ applied' = applied \cup tx[p]
            BY <3>3, <1>2
        <3> QED BY <3>2, <3>3
    <2> QED BY <2>1, <2>2
<1> QED BY <1>3, <1>4, <1>5 DEF AppliedInOrder

-----------------------------------------------------------------------------
\* The inductive invariant: nothing is applied at first.
LEMMA StartupInitInv ==
    ASSUME StartupInit
    PROVE  StartupInv
<1>1. StartupTypeOK
    BY StartupAssumption DEF StartupInit, StartupTypeOK, Pcs, ApplyPcs
<1>2. AppliedInOrder /\ CommittedFirst /\ KnownIsApplied /\ LeavesNothing /\ ServingOnFullSchema
    BY DEF StartupInit, AppliedInOrder, CommittedFirst, KnownIsApplied, LeavesNothing, ServingOnFullSchema
<1> QED BY <1>1, <1>2 DEF StartupInv

\* No step of a process, and no death or restart, breaks it.
LEMMA StartupStepInv ==
    ASSUME StartupInv, [StartupNext]_startupVars
    PROVE  StartupInv'
<1> USE StartupAssumption DEF StartupInv
<1>1. ASSUME NEW p \in Procs, Boot(p)
      PROVE  StartupInv'
    <2>1. StartupTypeOK'
        BY <1>1 DEF Boot, Goto, StartupTypeOK, Pcs, ApplyPcs
    <2>2. AppliedInOrder' /\ CommittedFirst'
        BY <1>1 DEF Boot, AppliedInOrder, CommittedFirst
    <2>3. KnownIsApplied' /\ LeavesNothing' /\ ServingOnFullSchema'
        BY <1>1 DEF Boot, Goto, StartupTypeOK, KnownIsApplied, LeavesNothing, ServingOnFullSchema
    <2> QED BY <2>1, <2>2, <2>3
<1>2. ASSUME NEW p \in Procs, Conclude(p)
      PROVE  StartupInv'
    <2>1. StartupTypeOK'
        BY <1>2 DEF Conclude, Goto, StartupTypeOK, Pcs, ApplyPcs
    <2>2. AppliedInOrder' /\ CommittedFirst'
        BY <1>2 DEF Conclude, AppliedInOrder, CommittedFirst
    <2>3. KnownIsApplied' /\ LeavesNothing' /\ ServingOnFullSchema'
        BY <1>2 DEF Conclude, Goto, StartupTypeOK, KnownIsApplied, LeavesNothing, ServingOnFullSchema
    <2> QED BY <2>1, <2>2, <2>3
<1>3. ASSUME NEW p \in Procs, Lock(p)
      PROVE  StartupInv'
    <2>1. StartupTypeOK'
        BY <1>3 DEF Lock, Goto, StartupTypeOK, Pcs, ApplyPcs
    <2>2. AppliedInOrder' /\ CommittedFirst'
        BY <1>3 DEF Lock, AppliedInOrder, CommittedFirst
    <2>3. KnownIsApplied' /\ LeavesNothing' /\ ServingOnFullSchema'
        BY <1>3 DEF Lock, Goto, StartupTypeOK, KnownIsApplied, LeavesNothing, ServingOnFullSchema
    <2> QED BY <2>1, <2>2, <2>3
<1>4. ASSUME NEW p \in Procs, EnsureTable(p)
      PROVE  StartupInv'
    <2>1. StartupTypeOK'
        BY <1>4 DEF EnsureTable, Goto, StartupTypeOK, Pcs, ApplyPcs
    <2>2. AppliedInOrder' /\ CommittedFirst'
        BY <1>4 DEF EnsureTable, AppliedInOrder, CommittedFirst
    <2>3. KnownIsApplied' /\ LeavesNothing' /\ ServingOnFullSchema'
        BY <1>4 DEF EnsureTable, Goto, StartupTypeOK, KnownIsApplied, LeavesNothing, ServingOnFullSchema
    <2> QED BY <2>1, <2>2, <2>3
<1>5. ASSUME NEW p \in Procs, GetApplied(p)
      PROVE  StartupInv'
    <2>1. StartupTypeOK'
        BY <1>5 DEF GetApplied, Goto, StartupTypeOK, Pcs, ApplyPcs
    <2>2. AppliedInOrder' /\ CommittedFirst'
        BY <1>5 DEF GetApplied, AppliedInOrder, CommittedFirst
    <2>3. KnownIsApplied' /\ LeavesNothing' /\ ServingOnFullSchema'
        BY <1>5 DEF GetApplied, Goto, StartupTypeOK, KnownIsApplied, LeavesNothing, ServingOnFullSchema
    <2> QED BY <2>1, <2>2, <2>3
<1>6. ASSUME NEW p \in Procs, ApplyFile(p)
      PROVE  StartupInv'
    <2> PICK f \in Pending(p) :
            /\ \A g \in Pending(p) : f <= g
            /\ IF f \in applied THEN Refuse(p) /\ UNCHANGED tx
               ELSE /\ \A q \in Procs \ {p} : f \notin tx[q]
                    /\ tx' = [tx EXCEPT ![p] = @ \cup {f}]
                    /\ UNCHANGED <<refused, pc>>
        BY <1>6 DEF ApplyFile
    <2>1. StartupTypeOK'
        <3>1. CASE f \in applied
            <4>1. tx' = tx /\ Refuse(p)
                BY <3>1
            <4> QED BY <4>1, <1>6 DEF ApplyFile, Refuse, Goto, StartupTypeOK, Pcs, ApplyPcs
        <3>2. CASE f \notin applied
            <4>1. tx' = [tx EXCEPT ![p] = @ \cup {f}] /\ pc' = pc /\ refused' = refused
                BY <3>2
            <4>2. f \in Files
                BY DEF Pending
            <4> QED BY <4>1, <4>2, <1>6 DEF ApplyFile, StartupTypeOK, Pcs, ApplyPcs
        <3> QED BY <3>1, <3>2
    <2>2. AppliedInOrder'
        <3>1. CASE f \in applied
            BY <1>6, <3>1 DEF ApplyFile, Refuse, AppliedInOrder
        <3>2. CASE f \notin applied
            BY <1>6, <3>2, ApplyKeepsOrder DEF ApplyFile
        <3> QED BY <3>1, <3>2
    <2>3. CommittedFirst' /\ KnownIsApplied' /\ LeavesNothing' /\ ServingOnFullSchema'
        BY <1>6 DEF ApplyFile, Refuse, Goto, StartupTypeOK, CommittedFirst, KnownIsApplied, LeavesNothing,
            ServingOnFullSchema
    <2> QED BY <2>1, <2>2, <2>3
<1>7. ASSUME NEW p \in Procs, ServerRefuses(p)
      PROVE  StartupInv'
    <2>1. StartupTypeOK'
        BY <1>7 DEF ServerRefuses, Refuse, Goto, StartupTypeOK, Pcs, ApplyPcs
    <2>2. AppliedInOrder' /\ CommittedFirst'
        BY <1>7 DEF ServerRefuses, AppliedInOrder, CommittedFirst
    <2>3. KnownIsApplied' /\ LeavesNothing' /\ ServingOnFullSchema'
        BY <1>7 DEF ServerRefuses, Refuse, Goto, StartupTypeOK, KnownIsApplied, LeavesNothing, ServingOnFullSchema
    <2> QED BY <2>1, <2>2, <2>3
<1>8. ASSUME NEW p \in Procs, NothingPending(p)
      PROVE  StartupInv'
    <2>1. StartupTypeOK'
        BY <1>8 DEF NothingPending, Goto, StartupTypeOK, Pcs, ApplyPcs
    <2>2. AppliedInOrder' /\ CommittedFirst'
        BY <1>8 DEF NothingPending, AppliedInOrder, CommittedFirst
    <2>3. KnownIsApplied' /\ LeavesNothing' /\ ServingOnFullSchema'
        BY <1>8 DEF NothingPending, Goto, StartupTypeOK, KnownIsApplied, LeavesNothing, ServingOnFullSchema, Pending
    <2> QED BY <2>1, <2>2, <2>3
<1>9. ASSUME NEW p \in Procs, Unlock(p)
      PROVE  StartupInv'
    <2>1. StartupTypeOK'
        BY <1>9 DEF Unlock, Goto, StartupTypeOK, Pcs, ApplyPcs
    <2>2. AppliedInOrder' /\ CommittedFirst'
        BY <1>9 DEF Unlock, AppliedInOrder, CommittedFirst
    <2>3. KnownIsApplied' /\ LeavesNothing' /\ ServingOnFullSchema'
        BY <1>9 DEF Unlock, Goto, StartupTypeOK, KnownIsApplied, LeavesNothing, ServingOnFullSchema
    <2> QED BY <2>1, <2>2, <2>3
<1>10. ASSUME NEW p \in Procs, Commit(p)
      PROVE  StartupInv'
    <2>1. StartupTypeOK'
        BY <1>10 DEF Commit, Goto, StartupTypeOK, Pcs, ApplyPcs
    <2>2. AppliedInOrder' /\ CommittedFirst'
        BY <1>10, MoveKeepsOrder DEF Commit, StartupTypeOK
    <2>3. KnownIsApplied' /\ LeavesNothing' /\ ServingOnFullSchema'
        BY <1>10 DEF Commit, Goto, StartupTypeOK, KnownIsApplied, LeavesNothing, ServingOnFullSchema
    <2> QED BY <2>1, <2>2, <2>3
<1>11. ASSUME NEW p \in Procs, Kill(p)
      PROVE  StartupInv'
    <2>1. StartupTypeOK'
        BY <1>11 DEF Kill, Goto, StartupTypeOK, Pcs, ApplyPcs
    <2>2. AppliedInOrder' /\ CommittedFirst'
        BY <1>11, MoveKeepsOrder DEF Kill, StartupTypeOK
    <2>3. KnownIsApplied' /\ LeavesNothing' /\ ServingOnFullSchema'
        BY <1>11 DEF Kill, Goto, StartupTypeOK, KnownIsApplied, LeavesNothing, ServingOnFullSchema
    <2> QED BY <2>1, <2>2, <2>3
<1>12. ASSUME NEW p \in Procs, Restart(p)
      PROVE  StartupInv'
    <2>1. StartupTypeOK'
        BY <1>12 DEF Restart, Goto, StartupTypeOK, Pcs, ApplyPcs
    <2>2. AppliedInOrder' /\ CommittedFirst'
        BY <1>12 DEF Restart, AppliedInOrder, CommittedFirst
    <2>3. KnownIsApplied' /\ LeavesNothing' /\ ServingOnFullSchema'
        BY <1>12 DEF Restart, Goto, StartupTypeOK, KnownIsApplied, LeavesNothing, ServingOnFullSchema
    <2> QED BY <2>1, <2>2, <2>3
<1>13. CASE UNCHANGED startupVars
    BY <1>13 DEF startupVars, StartupTypeOK, AppliedInOrder, CommittedFirst, KnownIsApplied, LeavesNothing,
        ServingOnFullSchema, Pcs, ApplyPcs
<1> QED BY <1>1, <1>2, <1>3, <1>4, <1>5, <1>6, <1>7, <1>8, <1>9, <1>10, <1>11, <1>12, <1>13 DEF StartupNext, ApplyAll

\* The inductive invariant holds.
LEMMA StartupInvariance == StartupSpec => []StartupInv
<1>1. StartupInit => StartupInv
    BY StartupInitInv
<1>2. StartupInv /\ [StartupNext]_startupVars => StartupInv'
    BY StartupStepInv
<1> QED BY <1>1, <1>2, PTL DEF StartupSpec

-----------------------------------------------------------------------------
\* Every process is in a known place, at most one session holds the advisory lock,
\* and only from there to its commit has it an open transaction (apply_all).
THEOREM StartupTypeCorrectness == StartupSpec => []StartupTypeOK
<1>1. StartupInv => StartupTypeOK
    BY DEF StartupInv
<1> QED BY <1>1, StartupInvariance, PTL

\* For every number of processes, migrations, refusals and deaths, the committed
\* files and those of any open transaction are the first ones by name, and no two
\* sessions have applied the same file, although the lock is released before the
\* commit (apply_all).
THEOREM Order == StartupSpec => []AppliedInOrder
<1>1. StartupInv => AppliedInOrder
    BY DEF StartupInv
<1> QED BY <1>1, StartupInvariance, PTL

\* A process that uses the store finds every migration applied (get_pool).
THEOREM FullSchema == StartupSpec => []ServingOnFullSchema
<1>1. StartupInv => ServingOnFullSchema
    BY DEF StartupInv
<1> QED BY <1>1, StartupInvariance, PTL

(***************************************************************************)
(* Part 2, Scheduler: what the ticks guarantee for every number of workers *)
(* and channels, every interval and every jitter.                          *)
(***************************************************************************)

\* Workers whose tick has enqueued c and not yet marked it, and those whose tick
\* has still to come to c.
Marking(c) == {w \in Workers : tick[w].pc = "mark" /\ tick[w].chan = c}
Ahead(c) == {w \in Workers : /\ tick[w].pc # "idle" /\ c \in tick[w].todo
                             /\ ~(tick[w].pc = "mark" /\ tick[w].chan = c)}

\* The workers that may have enqueued c since it last became due: while c is due
\* they have not marked it, and once it is marked only a tick that began before
\* comes to it again.
Spent(c) ==
    IF c \notin rows THEN Workers
    ELSE IF Overdue(c, age[c]) THEN Marking(c) ELSE Workers \ Ahead(c)

Counters == scheduled \in [Channels -> Nat] /\ aborted \in Nat
Counted == \A c \in Channels : scheduled[c] <= Cardinality(Spent(c)) + aborted

\* A tick is younger than the interval, so that what it marks is not due.
ShortTicks == \A w \in Workers : tick[w].pc # "idle" => tick[w].at < Interval

IInv == TypeOK /\ Counters /\ ShortTicks /\ Counted

Tick == [pc : {"idle", "enqueue", "mark"}, todo : SUBSET Channels, at : 0..Cap, chan : Channels]

-----------------------------------------------------------------------------
\* Lemmas about the constants and about counting workers.

LEMMA Bounds == Cap \in Nat /\ NoTick \in Tick /\ NoTick.pc = "idle" /\ NoTick.todo = {}
<1>1. PICK c \in Channels : \A d \in Channels : Jitter[d] <= Jitter[c]
    BY SchedulerAssumption
<1> DEFINE Largest(n) == \A d \in Channels : Jitter[d] <= n
<1>2. \E n \in {Jitter[d] : d \in Channels} : Largest(n)
    BY <1>1
<1>3. (CHOOSE n \in {Jitter[d] : d \in Channels} : Largest(n)) \in {Jitter[d] : d \in Channels}
    BY <1>2
<1>4. Cap \in Nat
    BY <1>3, SchedulerAssumption DEF Cap
<1>5. (CHOOSE d \in Channels : TRUE) \in Channels
    BY <1>1
<1> QED BY <1>4, <1>5 DEF NoTick, Tick

LEMMA StillEnough ==
    ASSUME NEW S \in SUBSET Workers, NEW T \in SUBSET Workers, S \subseteq T,
           NEW n \in Nat, NEW a \in Nat, NEW b \in Nat, n <= Cardinality(S) + a, a <= b
    PROVE  n <= Cardinality(T) + b
<1>1. IsFiniteSet(T) /\ IsFiniteSet(S)
    BY SchedulerAssumption, FS_Subset
<1>2. Cardinality(S) <= Cardinality(T) /\ Cardinality(S) \in Nat /\ Cardinality(T) \in Nat
    BY <1>1, FS_Subset, FS_CardinalityType
<1> QED BY <1>2

LEMMA OneMore ==
    ASSUME NEW S \in SUBSET Workers, NEW T \in SUBSET Workers, NEW w \in Workers,
           w \notin S, S \cup {w} \subseteq T, NEW n \in Nat, NEW a \in Nat, n <= Cardinality(S) + a
    PROVE  n + 1 <= Cardinality(T) + a
<1>1. IsFiniteSet(S) /\ IsFiniteSet(T)
    BY SchedulerAssumption, FS_Subset
<1>2. Cardinality(S \cup {w}) = Cardinality(S) + 1
    BY <1>1, FS_AddElement
<1>3. Cardinality(S \cup {w}) <= Cardinality(T)
    BY <1>1, FS_Subset
<1>4. Cardinality(S) \in Nat /\ Cardinality(T) \in Nat
    BY <1>1, FS_CardinalityType
<1> QED BY <1>2, <1>3, <1>4

LEMMA OneLess ==
    ASSUME NEW S \in SUBSET Workers, NEW T \in SUBSET Workers, NEW w \in Workers,
           S \subseteq T \cup {w}, NEW n \in Nat, NEW a \in Nat, n <= Cardinality(S) + a
    PROVE  n <= Cardinality(T) + a + 1
<1>1. IsFiniteSet(S) /\ IsFiniteSet(T)
    BY SchedulerAssumption, FS_Subset
<1>2. /\ IsFiniteSet(T \cup {w})
      /\ Cardinality(T \cup {w}) = IF w \in T THEN Cardinality(T) ELSE Cardinality(T) + 1
    BY <1>1, FS_AddElement
<1>3. Cardinality(S) <= Cardinality(T \cup {w})
    BY <1>2, FS_Subset
<1>4. Cardinality(S) \in Nat /\ Cardinality(T) \in Nat
    BY <1>1, FS_CardinalityType
<1> QED BY <1>2, <1>3, <1>4

LEMMA SpentAreWorkers ==
    ASSUME NEW c
    PROVE  Spent(c) \in SUBSET Workers /\ Spent(c)' \in SUBSET Workers
    BY DEF Spent, Marking, Ahead

\* A step that enqueues nothing and takes no worker out of Spent.
LEMMA NothingSpent ==
    ASSUME IInv, UNCHANGED scheduled, aborted' = aborted,
           \A c \in Channels : Spent(c) \subseteq Spent(c)'
    PROVE  Counted'
<1> SUFFICES ASSUME NEW c \in Channels
             PROVE  scheduled[c] <= Cardinality(Spent(c)') + aborted
    BY DEF Counted
<1> QED BY SpentAreWorkers, StillEnough DEF IInv, Counters, Counted

\* A tick of w that ends where it is.
LEMMA TickEnds ==
    ASSUME IInv, NEW w \in Workers, UNCHANGED <<rows, age, scheduled>>,
           tick' = [tick EXCEPT ![w] = NoTick],
           aborted' = IF tick[w].pc = "mark" THEN aborted + 1 ELSE aborted
    PROVE  Counted' /\ Counters' /\ ShortTicks'
<1>1. Counters' /\ ShortTicks'
    BY Bounds DEF IInv, Counters, ShortTicks, TypeOK
<1>2. ASSUME NEW c \in Channels
      PROVE  scheduled[c] <= Cardinality(Spent(c)') + aborted'
    <2>1. CASE tick[w].pc = "mark"
        <3>1. Spent(c) \subseteq Spent(c)' \cup {w}
            BY <2>1, Bounds DEF IInv, TypeOK, Spent, Marking, Ahead
        <3>2. /\ scheduled[c] \in Nat /\ aborted \in Nat
              /\ scheduled[c] <= Cardinality(Spent(c)) + aborted
            BY DEF IInv, Counters, Counted
        <3>3. scheduled[c] <= Cardinality(Spent(c)') + aborted + 1
            BY <3>1, <3>2, SpentAreWorkers, OneLess
        <3>4. Cardinality(Spent(c)') \in Nat
            BY SpentAreWorkers, SchedulerAssumption, FS_Subset, FS_CardinalityType
        <3> QED BY <2>1, <3>2, <3>3, <3>4
    <2>2. CASE tick[w].pc # "mark"
        <3>1. Spent(c) \subseteq Spent(c)'
            BY <2>2, Bounds DEF IInv, TypeOK, Spent, Marking, Ahead
        <3> QED BY <2>2, <3>1, SpentAreWorkers, StillEnough DEF IInv, Counters, Counted
    <2> QED BY <2>1, <2>2
<1> QED BY <1>1, <1>2 DEF Counted

-----------------------------------------------------------------------------
\* The steps of a tick.

LEMMA StartTickInv ==
    ASSUME IInv, NEW w \in Workers, StartTick(w)
    PROVE  IInv'
<1> DEFINE due == {c \in rows \cap auto : IsDue(c)}
<1>t. PICK t : t = [NoTick EXCEPT !.pc = "enqueue", !.todo = due]
    OBVIOUS
<1>1. /\ Interval > 0 /\ Idle(w) /\ tick' = [tick EXCEPT ![w] = t]
      /\ UNCHANGED <<rows, auto, age, job, scheduled, aborted, events>>
    BY <1>t DEF StartTick
<1>2. t \in Tick /\ t.pc = "enqueue" /\ t.todo = due /\ t.at = 0
    <2>1. due \in SUBSET Channels
        BY DEF IInv, TypeOK
    <2>2. NoTick \in Tick /\ NoTick.at = 0
        BY Bounds DEF NoTick
    <2> QED BY <1>t, <2>1, <2>2 DEF Tick
<1>3. TypeOK'
    BY <1>1, <1>2 DEF IInv, TypeOK, Idle, Tick
<1>4. ASSUME NEW c \in Channels
      PROVE  Spent(c) \subseteq Spent(c)'
    <2>1. c \in due => c \in rows /\ Overdue(c, age[c])
        BY DEF IsDue, Overdue
    <2>2. Marking(c) \subseteq Marking(c)'
        BY <1>1 DEF IInv, TypeOK, Marking, Idle
    <2>3. c \notin due => Ahead(c)' \subseteq Ahead(c)
        BY <1>1, <1>2 DEF IInv, TypeOK, Ahead
    <2> QED BY <1>1, <2>1, <2>2, <2>3 DEF Spent
<1>5. Counters' /\ ShortTicks'
    BY <1>1, <1>2, SchedulerAssumption DEF IInv, Counters, ShortTicks, TypeOK
<1> QED BY <1>1, <1>3, <1>4, <1>5, NothingSpent DEF IInv

LEMMA EnqueueInv ==
    ASSUME IInv, NEW w \in Workers, Enqueue(w)
    PROVE  IInv'
<1>1. PICK c \in tick[w].todo :
        IF c \notin rows
        THEN tick' = [tick EXCEPT ![w] = NoTick] /\ UNCHANGED <<job, scheduled>>
        ELSE /\ tick' = [tick EXCEPT ![w].pc = "mark", ![w].chan = c]
             /\ IF job[c] = "none"
                THEN /\ job' = [job EXCEPT ![c] = "queued"]
                     /\ scheduled' = [scheduled EXCEPT ![c] = @ + 1]
                ELSE UNCHANGED <<job, scheduled>>
    BY DEF Enqueue
<1>2. /\ c \in Channels /\ tick[w].pc = "enqueue"
      /\ UNCHANGED <<rows, auto, age, aborted, events>>
    BY DEF Enqueue, IInv, TypeOK
<1>3. CASE c \notin rows
    <2>1. /\ tick' = [tick EXCEPT ![w] = NoTick] /\ UNCHANGED <<job, scheduled>>
        BY <1>1, <1>3
    <2>2. TypeOK'
        BY <2>1, <1>2, Bounds DEF IInv, TypeOK, Tick
    <2> QED BY <2>1, <2>2, <1>2, TickEnds DEF IInv
<1>4. CASE c \in rows
    <2>1. tick' = [tick EXCEPT ![w].pc = "mark", ![w].chan = c]
        BY <1>1, <1>4
    <2>2. /\ job' = [job EXCEPT ![c] = IF job[c] = "none" THEN "queued" ELSE job[c]]
          /\ scheduled' = scheduled \/ scheduled' = [scheduled EXCEPT ![c] = @ + 1]
        BY <1>1, <1>4 DEF IInv, TypeOK
    <2>3. /\ tick' \in [Workers -> Tick]
          /\ \A v \in Workers : tick'[v].at = tick[v].at /\ tick'[v].todo = tick[v].todo
          /\ \A v \in Workers \ {w} : tick'[v] = tick[v]
          /\ tick'[w].pc = "mark" /\ tick'[w].chan = c
        <3>1. tick \in [Workers -> Tick]
            BY DEF IInv, TypeOK, Tick
        <3>2. tick' = [tick EXCEPT ![w] = [tick[w] EXCEPT !.pc = "mark", !.chan = c]]
            BY <2>1, <3>1
        <3>3. [tick[w] EXCEPT !.pc = "mark", !.chan = c] \in Tick
            BY <3>1, <1>2 DEF Tick
        <3> QED BY <3>1, <3>2, <3>3 DEF Tick
    <2>4. TypeOK'
        BY <2>1, <2>2, <2>3, <1>2, <1>4, SchedulerAssumption DEF IInv, TypeOK, Tick
    <2>5. Counters' /\ ShortTicks'
        <3>1. Counters'
            BY <2>2, <1>2 DEF IInv, Counters
        <3>2. ASSUME NEW v \in Workers, tick'[v].pc # "idle" PROVE tick'[v].at < Interval
            <4>1. tick[v].pc # "idle" /\ tick'[v].at = tick[v].at
                BY <2>3, <3>2, <1>2
            <4> QED BY <4>1 DEF IInv, ShortTicks
        <3> QED BY <3>1, <3>2 DEF ShortTicks
    <2>6. ASSUME NEW d \in Channels, d # c
          PROVE  Spent(d) \subseteq Spent(d)'
        BY <2>1, <2>6, <1>2 DEF IInv, TypeOK, Spent, Marking, Ahead
    <2>7. w \notin Spent(c) /\ Spent(c) \cup {w} \subseteq Spent(c)'
        BY <2>1, <1>2, <1>4 DEF IInv, TypeOK, Spent, Marking, Ahead
    <2>8. ASSUME NEW d \in Channels
          PROVE  scheduled'[d] <= Cardinality(Spent(d)') + aborted'
        <3>1. CASE scheduled' = scheduled \/ d # c
            <4>1. Spent(d) \subseteq Spent(d)' /\ scheduled'[d] = scheduled[d]
                BY <3>1, <2>2, <2>6, <2>7 DEF IInv, Counters
            <4> QED BY <4>1, <1>2, SpentAreWorkers, StillEnough DEF IInv, Counters, Counted
        <3>2. CASE scheduled' # scheduled /\ d = c
            <4>1. scheduled'[c] = scheduled[c] + 1
                BY <3>2, <2>2, <1>2 DEF IInv, Counters
            <4>2. scheduled[c] + 1 <= Cardinality(Spent(c)') + aborted
                BY <2>7, <1>2, SpentAreWorkers, OneMore DEF IInv, Counters, Counted
            <4> QED BY <4>1, <4>2, <3>2, <1>2
        <3> QED BY <3>1, <3>2
    <2> QED BY <2>4, <2>5, <2>8 DEF IInv, Counted
<1> QED BY <1>3, <1>4

LEMMA MarkInv ==
    ASSUME IInv, NEW w \in Workers, Mark(w)
    PROVE  IInv'
<1>c. PICK c : c = tick[w].chan
    OBVIOUS
<1>t. PICK t : t = IF tick[w].todo \ {c} = {} THEN NoTick
                   ELSE [NoTick EXCEPT !.pc = "enqueue", !.todo = tick[w].todo \ {c}, !.at = tick[w].at]
    OBVIOUS
<1>1. /\ tick[w].pc = "mark" /\ c = tick[w].chan /\ c \in Channels
      /\ age' = [age EXCEPT ![c] = IF c \in rows THEN tick[w].at ELSE @]
      /\ tick' = [tick EXCEPT ![w] = t]
      /\ UNCHANGED <<rows, auto, job, scheduled, aborted, events>>
    BY <1>c, <1>t DEF Mark, Proceed, IInv, TypeOK
<1>2. /\ t \in Tick
      /\ \/ t.pc = "idle"
         \/ /\ t.pc = "enqueue" /\ t.at = tick[w].at
            /\ t.todo = tick[w].todo \ {c}
    <2>1. CASE tick[w].todo \ {c} = {}
        <3>1. t = NoTick
            BY <2>1, <1>t
        <3> QED BY <3>1, Bounds
    <2>2. CASE tick[w].todo \ {c} # {}
        <3>1. t = [NoTick EXCEPT !.pc = "enqueue", !.todo = tick[w].todo \ {c}, !.at = tick[w].at]
            BY <2>2, <1>t
        <3>2. tick[w].todo \ {c} \in SUBSET Channels /\ tick[w].at \in 0..Cap
            BY DEF IInv, TypeOK
        <3>3. NoTick \in Tick
            BY Bounds
        <3> QED BY <3>1, <3>2, <3>3 DEF Tick
    <2> QED BY <2>1, <2>2
<1>3. TypeOK'
    BY <1>1, <1>2, Bounds DEF IInv, TypeOK, Tick
<1>4. Counters' /\ ShortTicks'
    BY <1>1, <1>2, Bounds DEF IInv, TypeOK, Counters, ShortTicks
<1>5. c \in rows => ~Overdue(c, age'[c])
    <2>1. tick[w].at < Interval /\ tick[w].at \in Nat
        BY <1>1, Bounds DEF IInv, TypeOK, ShortTicks
    <2>2. Jitter[c] \in Nat /\ Interval \in Nat /\ tick[w].at # Never
        BY <1>1, <2>1, SchedulerAssumption
    <2>3. c \in rows => age'[c] = tick[w].at
        BY <1>1 DEF IInv, TypeOK
    <2> QED BY <2>1, <2>2, <2>3 DEF Overdue
<1>6. ASSUME NEW d \in Channels
      PROVE  Spent(d) \subseteq Spent(d)'
    <2>1. CASE d = c
        BY <2>1, <1>1, <1>2, <1>5 DEF IInv, TypeOK, Spent, Marking, Ahead
    <2>2. CASE d # c
        <3>1. age'[d] = age[d]
            BY <2>2, <1>1 DEF IInv, TypeOK
        <3>2. Marking(d) \subseteq Marking(d)'
            BY <2>2, <1>1 DEF IInv, TypeOK, Marking
        <3>3. Ahead(d)' \subseteq Ahead(d)
            BY <2>2, <1>1, <1>2 DEF IInv, TypeOK, Ahead
        <3> QED BY <3>1, <3>2, <3>3, <1>1 DEF Spent
    <2> QED BY <2>1, <2>2
<1> QED BY <1>1, <1>3, <1>4, <1>6, NothingSpent DEF IInv

-----------------------------------------------------------------------------
\* The other steps.

LEMMA TimePassesInv ==
    ASSUME IInv, TimePasses
    PROVE  IInv'
<1> DEFINE older(n) == IF n = Never THEN n ELSE IF n < Cap THEN n + 1 ELSE n
<1>1. /\ \A w \in Workers : tick[w].pc # "idle" => tick[w].at + 1 < Interval
      /\ age' = [c \in Channels |-> older(age[c])]
      /\ tick' = [w \in Workers |-> IF tick[w].pc = "idle" THEN tick[w]
                                    ELSE [tick[w] EXCEPT !.at = older(@)]]
      /\ scheduled' = [c \in Channels |->
              IF Overdue(c, older(age[c])) /\ ~Overdue(c, age[c]) THEN 0 ELSE scheduled[c]]
      /\ UNCHANGED <<rows, auto, job, aborted, events>>
    BY DEF TimePasses
<1>2. \A n \in 0..Cap \cup {Never} :
        /\ older(n) \in 0..Cap \cup {Never}
        /\ \A c \in Channels : Overdue(c, n) => Overdue(c, older(n))
        /\ n # Never => older(n) \in 0..Cap /\ older(n) <= n + 1
    BY Bounds, SchedulerAssumption DEF Overdue
<1> HIDE DEF older
<1>3. Never \notin 0..Cap
    BY SchedulerAssumption, Bounds
<1>4. ASSUME NEW w \in Workers
      PROVE  /\ tick'[w] \in Tick
             /\ tick'[w].pc = tick[w].pc /\ tick'[w].todo = tick[w].todo /\ tick'[w].chan = tick[w].chan
             /\ tick[w].pc # "idle" => tick'[w].at < Interval
    <2>1. tick[w] \in Tick /\ tick[w].at \in 0..Cap
        BY DEF IInv, TypeOK, Tick
    <2>2. older(tick[w].at) \in 0..Cap /\ older(tick[w].at) <= tick[w].at + 1
        BY <2>1, <1>2, <1>3
    <2>3. CASE tick[w].pc = "idle"
        BY <2>1, <2>3, <1>1
    <2>4. CASE tick[w].pc # "idle"
        <3>1. tick'[w] = [tick[w] EXCEPT !.at = older(@)]
            BY <1>1, <2>4
        <3>2. older(tick[w].at) < Interval
            BY <1>1, <2>1, <2>2, <2>4, Bounds, SchedulerAssumption
        <3> QED BY <3>1, <3>2, <2>1, <2>2 DEF Tick
    <2> QED BY <2>3, <2>4
<1>5. TypeOK'
    <2>1. age' \in [Channels -> 0..Cap \cup {Never}]
        BY <1>1, <1>2 DEF IInv, TypeOK
    <2>2. tick' \in [Workers -> Tick]
        BY <1>1, <1>4
    <2> QED BY <2>1, <2>2, <1>1, <1>4 DEF IInv, TypeOK, Tick
<1>6. Counters' /\ ShortTicks'
    BY <1>1, <1>4 DEF IInv, Counters, ShortTicks
<1>7. ASSUME NEW c \in Channels
      PROVE  scheduled'[c] <= Cardinality(Spent(c)') + aborted'
    <2>1. Marking(c)' = Marking(c) /\ Ahead(c)' = Ahead(c)
        BY <1>4 DEF Marking, Ahead
    <2>2. age'[c] = older(age[c]) /\ (Overdue(c, age[c]) => Overdue(c, age'[c]))
        BY <1>1, <1>2 DEF IInv, TypeOK
    <2>3. Spent(c)' \in SUBSET Workers /\ Cardinality(Spent(c)') \in Nat
        BY SpentAreWorkers, SchedulerAssumption, FS_Subset, FS_CardinalityType
    <2>4. CASE Overdue(c, older(age[c])) /\ ~Overdue(c, age[c])
        BY <2>3, <2>4, <1>1, <1>6 DEF Counters
    <2>5. CASE ~(Overdue(c, older(age[c])) /\ ~Overdue(c, age[c]))
        <3>1. Spent(c)' = Spent(c) /\ scheduled'[c] = scheduled[c]
            BY <2>1, <2>2, <2>5, <1>1 DEF Spent
        <3> QED BY <3>1, <1>1 DEF IInv, Counted
    <2> QED BY <2>4, <2>5
<1> QED BY <1>5, <1>6, <1>7 DEF IInv, Counted

LEMMA WorkerInv ==
    ASSUME IInv, NEW w \in Workers, WorkerStep(w)
    PROVE  IInv'
<1>1. ASSUME TickFails(w) PROVE IInv'
    <2>1. events' \in 0..MaxEvents
        BY <1>1, SchedulerAssumption DEF TickFails, Event, IInv, TypeOK
    <2>2. TypeOK'
        BY <1>1, <2>1, Bounds DEF TickFails, IInv, TypeOK, Tick
    <2> QED BY <1>1, <2>2, TickEnds DEF TickFails, IInv
<1>2. ASSUME Die(w) PROVE IInv'
    <2>1. /\ tick' = [tick EXCEPT ![w] = NoTick] /\ UNCHANGED <<rows, auto, age, scheduled>>
          /\ job' = [c \in Channels |-> IF job[c] # w THEN job[c]
                                        ELSE IF c \in rows THEN "queued" ELSE "none"]
          /\ events' \in 0..MaxEvents
        BY <1>2, SchedulerAssumption DEF Die, Event, IInv, TypeOK
    <2>2. TypeOK'
        BY <2>1, Bounds, SchedulerAssumption DEF IInv, TypeOK, Tick
    <2> QED BY <1>2, <2>1, <2>2, TickEnds DEF Die, IInv
<1>3. ASSUME ClaimNext(w) \/ EndJob(w) PROVE IInv'
    <2>1. UNCHANGED <<rows, auto, age, tick, scheduled, aborted, events>>
        BY <1>3 DEF ClaimNext, EndJob
    <2>2. TypeOK'
        BY <1>3, SchedulerAssumption DEF ClaimNext, EndJob, Idle, IInv, TypeOK
    <2>3. \A c \in Channels : Spent(c)' = Spent(c)
        BY <2>1 DEF Spent, Marking, Ahead
    <2> QED BY <2>1, <2>2, <2>3 DEF IInv, Counters, ShortTicks, Counted
<1> QED BY <1>1, <1>2, <1>3, StartTickInv, EnqueueInv, MarkInv DEF WorkerStep

LEMMA UserEditsInv ==
    ASSUME IInv, UserEdits
    PROVE  IInv'
<1>1. /\ UNCHANGED <<age, tick, scheduled, aborted>> /\ rows' \subseteq rows
      /\ events' \in 0..MaxEvents
    BY SchedulerAssumption DEF UserEdits, Event, IInv, TypeOK
<1>2. TypeOK'
    BY <1>1, SchedulerAssumption DEF UserEdits, Running, IInv, TypeOK
<1>3. \A c \in Channels : Spent(c) \subseteq Spent(c)'
    BY <1>1 DEF Spent, Marking, Ahead
<1>4. Counters' /\ ShortTicks'
    BY <1>1 DEF IInv, Counters, ShortTicks
<1> QED BY <1>1, <1>2, <1>3, <1>4, NothingSpent DEF IInv

LEMMA InitInv ==
    ASSUME Init
    PROVE  IInv
<1>1. TypeOK
    BY Bounds, SchedulerAssumption DEF Init, TypeOK, Tick
<1>2. Counters /\ ShortTicks
    BY Bounds DEF Init, Counters, ShortTicks
<1>3. ASSUME NEW c \in Channels PROVE scheduled[c] <= Cardinality(Spent(c)) + aborted
    <2>1. Cardinality(Spent(c)) \in Nat
        BY SpentAreWorkers, SchedulerAssumption, FS_Subset, FS_CardinalityType
    <2> QED BY <2>1 DEF Init
<1> QED BY <1>1, <1>2, <1>3 DEF IInv, Counted

LEMMA Invariance == Spec => []IInv
<1>1. Init => IInv
    BY InitInv
<1>2. IInv /\ [Next]_vars => IInv'
    <2> SUFFICES ASSUME IInv, [Next]_vars PROVE IInv'
        OBVIOUS
    <2>1. CASE UNCHANGED vars
        <3>1. \A c \in Channels : Spent(c)' = Spent(c)
            BY <2>1 DEF vars, Spent, Marking, Ahead
        <3> QED BY <2>1, <3>1 DEF vars, IInv, TypeOK, Counters, ShortTicks, Counted
    <2> QED BY <2>1, TimePassesInv, UserEditsInv, WorkerInv DEF Next
<1> QED BY <1>1, <1>2, PTL DEF Spec

-----------------------------------------------------------------------------
\* The theorems.

\* Rows, jobs and ticks keep their type; a worker does one thing at a time.
THEOREM TypeCorrectness == Spec => []TypeOK
<1>1. IInv => TypeOK
    BY DEF IInv
<1> QED BY <1>1, Invariance, PTL

\* However many workers tick from the same last_checked_at, each enqueues a due
\* channel once (run_auto_ingest_tick).
THEOREM ScheduledOnce == Spec => []ScheduledOncePerWorker
<1>1. IInv => ScheduledOncePerWorker
    <2> SUFFICES ASSUME IInv, NEW c \in Channels
                 PROVE  scheduled[c] <= Cardinality(Workers) + aborted
        BY DEF ScheduledOncePerWorker
    <2>1. Spent(c) \in SUBSET Workers
        BY SpentAreWorkers
    <2> QED BY <2>1, StillEnough DEF IInv, Counters, Counted
<1> QED BY <1>1, Invariance, PTL
=============================================================================
