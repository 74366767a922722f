-------------------------------- MODULE Startup --------------------------------
(***************************************************************************)
(* How a process of the program comes up: the checks of its role           *)
(* (core/doctor.py), among them core/db/migrate.py's apply_all, which every *)
(* process runs against one Postgres, at boot, in each health check and    *)
(* again before its first use of the store (core/db/__init__.py get_pool). *)
(*                                                                         *)
(* psycopg opens a transaction at the first statement.  The one that       *)
(* get_applied opens stays open until the last commit, so that every       *)
(* file's own transaction is a savepoint inside it; the advisory lock      *)
(* belongs to the session and is released before that commit.              *)
(***************************************************************************)
EXTENDS Integers, FiniteSets

CONSTANTS
    Procs,
    Role,       \* [Procs -> "worker", "api" or "health" (one `aac doctor` run)]
    NumFiles,   \* migrations 1..NumFiles, in filename order
    Breakages,  \* sets of checks that may fail for reasons outside the database
    MaxFaults,  \* bound: statements of a migration the server refuses
    MaxDeaths,  \* bound: processes killed
    Nobody

ASSUME StartupAssumption ==
    /\ NumFiles \in Nat /\ MaxFaults \in Nat /\ MaxDeaths \in Nat /\ Nobody \notin Procs
    /\ Role \in [Procs -> {"worker", "api", "health"}]

VARIABLES
    holder,   \* the session that holds the advisory lock, or Nobody
    applied,  \* files whose effect and schema_migrations row are committed
    tx,       \* [Procs -> files applied in the open transaction of p's session]
    known,    \* [Procs -> what get_applied returned]
    refused,  \* [Procs -> whether apply_all is on its way out with an error]
    pc,       \* [Procs -> where p is]
    using,    \* [Procs -> whether apply_all runs for get_pool, no longer for a check]
    broken,   \* the member of Breakages this installation has
    faults, deaths

startupVars == <<holder, applied, tx, known, refused, pc, using, broken, faults, deaths>>

Files == 1..NumFiles

\* "boot": checks before the database; the stages of apply_all; "checked": after
\* it; "serving": uses the store; "down": ended.
ApplyPcs == {"lock", "table", "read", "apply", "unlock", "commit"}
Pcs == ApplyPcs \cup {"boot", "checked", "serving", "down"}

StartupTypeOK ==
    /\ holder \in Procs \cup {Nobody}
    /\ applied \subseteq Files
    /\ tx \in [Procs -> SUBSET Files] /\ known \in [Procs -> SUBSET Files]
    /\ refused \in [Procs -> BOOLEAN] /\ using \in [Procs -> BOOLEAN]
    /\ pc \in [Procs -> Pcs]
    /\ broken \in Breakages
    /\ faults \in 0..MaxFaults /\ deaths \in 0..MaxDeaths
    \* a session writes only from the time it took the lock to its commit
    /\ \A p \in Procs : tx[p] # {} => pc[p] \in {"apply", "unlock", "commit"}
    /\ \A p \in Procs : (holder = p) <=> pc[p] \in {"table", "read", "apply", "unlock"}

StartupInit ==
    /\ holder = Nobody
    /\ applied = {}
    /\ tx = [p \in Procs |-> {}]
    /\ known = [p \in Procs |-> {}]
    /\ refused = [p \in Procs |-> FALSE]
    /\ pc = [p \in Procs |-> "boot"]
    /\ using = [p \in Procs |-> FALSE]
    /\ broken \in Breakages
    /\ faults = 0
    /\ deaths = 0

Goto(p, l) == pc' = [pc EXCEPT ![p] = l]
-----------------------------------------------------------------------------
\* The checks of a role (doctor.py).

RoleChecks == [
    worker |-> {"env_vars", "database", "data_dirs", "openai_key", "yt_dlp"},
    api |-> {"env_vars", "database", "embedding_dim", "openai_key", "chat_provider_key"},
    health |-> {"env_vars", "database", "embedding_dim", "data_dirs", "openai_key",
                "chat_provider_key", "yt_dlp"}]

\* When the environment is unusable, all checks that need its settings report
\* "skipped", which is no failure.
FailingChecks(role) ==
    RoleChecks[role] \cap
        IF "env_vars" \in broken THEN broken \cap {"env_vars", "yt_dlp"} ELSE broken

\* check_embedding_dim_consistency samples the store.
AsksStore(p) == "embedding_dim" \in RoleChecks[Role[p]] /\ "env_vars" \notin broken

\* create_app reads the settings itself; the others come to the database check,
\* which is skipped when the settings name no database.
Boot(p) ==
    /\ pc[p] = "boot"
    /\ Goto(p, CASE "env_vars" \notin broken -> "lock"
                 [] Role[p] = "api" -> "down"
                 [] OTHER -> "checked")
    /\ UNCHANGED <<holder, applied, tx, known, refused, using, broken, faults, deaths>>

\* Wrong variant of Conclude: get_pool remembers that it failed, as its
\* lru_cache would a returned value.
ConcludeForGood(p) ==
    /\ pc[p] = "checked"
    /\ Goto(p, CASE Role[p] = "health" /\ (using[p] \/ ~AsksStore(p)) -> "down"
                 [] Role[p] # "health" /\ using[p] /\ ~refused[p] -> "serving"
                 [] Role[p] # "health" /\ using[p] /\ refused[p] -> "checked"
                 [] OTHER -> "lock")
    /\ using' = [using EXCEPT ![p] = TRUE]
    /\ refused' = [refused EXCEPT ![p] = using[p] /\ refused[p]]
    /\ UNCHANGED <<holder, applied, tx, known, broken, faults, deaths>>

\* Wrong variant of Conclude: get_pool does not look how apply_all ended.
ConcludeBlindly(p) ==
    /\ pc[p] = "checked"
    /\ Goto(p, IF using[p] THEN "serving" ELSE "lock")
    /\ using' = [using EXCEPT ![p] = TRUE]
    /\ UNCHANGED <<holder, applied, tx, known, refused, broken, faults, deaths>>

\* After the checks a health run ends, the worker ends if one failed, the API
\* goes on anyway.  At the first use of the store, which may be a check's own
\* (AsksStore), get_pool applies once more; it raises when refused, which is fine
\* with the check, and the poll loop (the next request) tries again.
Conclude(p) ==
    /\ pc[p] = "checked"
    /\ Goto(p, CASE Role[p] = "health" /\ (using[p] \/ ~AsksStore(p)) -> "down"
                 [] Role[p] # "health" /\ using[p] /\ ~refused[p] -> "serving"
                 [] Role[p] = "worker" /\ ~using[p]
                        /\ (refused[p] \/ FailingChecks("worker") # {}) -> "down"
                 [] OTHER -> "lock")
    /\ using' = [using EXCEPT ![p] = TRUE]
    /\ refused' = [refused EXCEPT ![p] = FALSE]
    /\ UNCHANGED <<holder, applied, tx, known, broken, faults, deaths>>

-----------------------------------------------------------------------------
\* apply_all.

Lock(p) ==
    /\ pc[p] = "lock" /\ holder = Nobody
    /\ holder' = p /\ Goto(p, "table")
    /\ UNCHANGED <<applied, tx, known, refused, using, broken, faults, deaths>>

\* CREATE TABLE IF NOT EXISTS schema_migrations, and its commit.
EnsureTable(p) ==
    /\ pc[p] = "table"
    /\ Goto(p, "read")
    /\ UNCHANGED <<holder, applied, tx, known, refused, using, broken, faults, deaths>>

GetApplied(p) ==
    /\ pc[p] = "read"
    /\ known' = [known EXCEPT ![p] = applied]
    /\ Goto(p, "apply")
    /\ UNCHANGED <<holder, applied, tx, refused, using, broken, faults, deaths>>

Refuse(p) ==
    /\ refused' = [refused EXCEPT ![p] = TRUE]
    /\ Goto(p, "unlock")

Pending(p) == Files \ (known[p] \cup tx[p])

\* Wrong variant of ApplyFile: whatever order the directory lists the files in.
ApplyAnyFile(p) ==
    /\ pc[p] = "apply"
    /\ \E f \in Pending(p) :
        IF f \in applied THEN Refuse(p) /\ UNCHANGED tx
        ELSE /\ \A q \in Procs \ {p} : f \notin tx[q]
             /\ tx' = [tx EXCEPT ![p] = @ \cup {f}]
             /\ UNCHANGED <<refused, pc>>
    /\ UNCHANGED <<holder, applied, known, using, broken, faults, deaths>>

\* The next file by name, in a savepoint.  CREATE TABLE waits while another
\* session's open transaction has made the same table, and fails if that
\* transaction commits: the table is not among what this session knew of.
ApplyFile(p) ==
    /\ pc[p] = "apply"
    /\ \E f \in Pending(p) :
        /\ \A g \in Pending(p) : f <= g
        /\ IF f \in applied THEN Refuse(p) /\ UNCHANGED tx
           ELSE /\ \A q \in Procs \ {p} : f \notin tx[q]
                /\ tx' = [tx EXCEPT ![p] = @ \cup {f}]
                /\ UNCHANGED <<refused, pc>>
    /\ UNCHANGED <<holder, applied, known, using, broken, faults, deaths>>

\* A statement fails (no pgvector, no privilege): the savepoint is rolled back,
\* what earlier files did stays in the transaction.
ServerRefuses(p) ==
    /\ pc[p] = "apply" /\ Pending(p) # {} /\ faults < MaxFaults
    /\ Refuse(p)
    /\ faults' = faults + 1
    /\ UNCHANGED <<holder, applied, tx, known, using, broken, deaths>>

NothingPending(p) ==
    /\ pc[p] = "apply" /\ Pending(p) = {}
    /\ Goto(p, "unlock")
    /\ UNCHANGED <<holder, applied, tx, known, refused, using, broken, faults, deaths>>

\* The finally block: the lock goes first, then what was applied is committed.
Unlock(p) ==
    /\ pc[p] = "unlock"
    /\ holder' = Nobody /\ Goto(p, "commit")
    /\ UNCHANGED <<applied, tx, known, refused, using, broken, faults, deaths>>

Commit(p) ==
    /\ pc[p] = "commit"
    /\ applied' = applied \cup tx[p]
    /\ tx' = [tx EXCEPT ![p] = {}]
    /\ Goto(p, "checked")
    /\ UNCHANGED <<holder, known, refused, using, broken, faults, deaths>>

-----------------------------------------------------------------------------
\* Wrong variant of Kill: the lock is a row that outlives the session.
KillHolding(p) ==
    /\ pc[p] # "down" /\ deaths < MaxDeaths
    /\ tx' = [tx EXCEPT ![p] = {}]
    /\ Goto(p, "down")
    /\ deaths' = deaths + 1
    /\ UNCHANGED <<holder, applied, known, refused, using, broken, faults>>

\* The process is killed: Postgres ends the session, its lock and its transaction.
Kill(p) ==
    /\ pc[p] # "down" /\ deaths < MaxDeaths
    /\ holder' = IF holder = p THEN Nobody ELSE holder
    /\ tx' = [tx EXCEPT ![p] = {}]
    /\ Goto(p, "down")
    /\ deaths' = deaths + 1
    /\ UNCHANGED <<applied, known, refused, using, broken, faults>>

\* `restart: unless-stopped`; a health check is run again at its interval.
Restart(p) ==
    /\ pc[p] = "down"
    /\ refused' = [refused EXCEPT ![p] = FALSE]
    /\ using' = [using EXCEPT ![p] = FALSE]
    /\ Goto(p, "boot")
    /\ UNCHANGED <<holder, applied, tx, known, broken, faults, deaths>>

ApplyAll(p) ==
    \/ Lock(p) \/ EnsureTable(p) \/ GetApplied(p) \/ ApplyFile(p) \/ ServerRefuses(p)
    \/ NothingPending(p) \/ Unlock(p) \/ Commit(p)
ByItself(p) ==
    \/ Boot(p) \/ Conclude(p) \/ Restart(p)
    \/ Lock(p) \/ EnsureTable(p) \/ GetApplied(p) \/ ApplyFile(p)
    \/ NothingPending(p) \/ Unlock(p) \/ Commit(p)

StartupNext == \E p \in Procs : Boot(p) \/ ApplyAll(p) \/ Conclude(p) \/ Kill(p) \/ Restart(p)

\* Postgres serves the waiters of the advisory lock in turn (strong fairness);
\* nothing in a process waits for anything else.
StartupFairness == \A p \in Procs : WF_startupVars(ByItself(p)) /\ SF_startupVars(Lock(p))

StartupSpec == StartupInit /\ [][StartupNext]_startupVars /\ StartupFairness

-----------------------------------------------------------------------------
\* A process that uses the store finds every migration in place, whoever applied
\* them and whatever failed or died meanwhile (db/__init__.py get_pool).
ServingOnFullSchema == \A p \in Procs : pc[p] = "serving" => applied = Files

\* Whatever interleaving of starters, refusals and deaths, the committed files
\* are the first ones by name and no session applies a file that another one
\* has committed or is about to: a migration never runs on a schema older than
\* the one it was written for, nor twice (migrate.py apply_all).
AppliedInOrder ==
    \A p \in Procs : LET all == applied \cup tx[p] IN
        /\ applied \cap tx[p] = {}
        /\ \A f \in all : 1..f \subseteq all
        /\ \A q \in Procs \ {p} : tx[p] \cap tx[q] = {}

\* A worker whose own checks hold ends up serving for good once the refusals and
\* kills are over, however many processes start beside it.
WorkersComeUp ==
    RoleChecks["worker"] \cap broken = {} =>
        \A p \in Procs : Role[p] = "worker" => <>[](pc[p] = "serving")
=============================================================================
