------------------------------ MODULE BundleFiles ------------------------------
(***************************************************************************)
(* One bundle directory (core/dataset/bundle.py), file by file, and those  *)
(* who use it: `aac ingest` and the worker (build, then load), `aac        *)
(* dataset build` with and without --force, `aac dataset load`, and the    *)
(* purge of a deleted channel (core/ingest/runner.py).  A file is opened   *)
(* (and emptied) in one step and complete in a later one; reading a bundle *)
(* is one step per file.  IngestPipeline takes all this for one step; here *)
(* it is shown which part of AtomicBundle that rests on.                   *)
(***************************************************************************)
EXTENDS Integers, Sequences

CONSTANTS
    Procs,
    Ops,        \* [Procs -> what the process may be started to do]
    MaxCrash,   \* bound: how many processes are killed
    Nobody, NoBundle, Failed, Mixed, Absent, Torn   \* model values

ASSUME OpsAssumption ==
    \A p \in Procs : Ops[p] \subseteq {"ingest", "build", "force", "load", "purge"}
ASSUME CrashAssumption == MaxCrash \in Nat

VARIABLES
    files,     \* [Files -> Absent, Torn (opened, not complete), or what was written]
    dirThere,
    active,    \* the process whose job is the channel's one active job, or Nobody
    proc,      \* [Procs -> local state]
    seen,      \* [Procs -> what read_bundle gave it last]
    removed,   \* whether anybody started to remove the directory (history)
    crashes

vars == <<files, dirThere, active, proc, seen, removed, crashes>>

WriteOrder == <<"videos", "chunks", "embeddings", "manifest">>
ReadOrder == <<"manifest", "videos", "chunks", "embeddings">>
Files == {"videos", "chunks", "embeddings", "manifest"}

\* What a build makes of the channel: with embeddings; without any
\* (--skip-embeddings: the manifest declares no model); or with a model
\* declared and nothing to embed, because no video has captions.
Kinds == {"full", "bare", "silent"}
Contents == [by : Procs, run : 0..MaxCrash, kind : Kinds]

ASSUME SentinelsAssumption ==
    /\ Nobody \notin Procs
    /\ Absent # Torn /\ {Absent, Torn} \cap Contents = {}
    /\ NoBundle \notin {Failed, Mixed} /\ Failed # Mixed
    /\ {NoBundle, Failed, Mixed} \cap Contents = {}

Pcs == {"idle", "create", "check", "write", "finish", "read", "rmtree", "exit"}
Idle == [pc |-> "idle", op |-> "load", run |-> 0, kind |-> "full", at |-> 1, open |-> FALSE,
         validated |-> FALSE, got |-> [f \in Files |-> Absent], listed |-> {}]

TypeOK ==
    /\ files \in [Files -> Contents \cup {Absent, Torn}]
    /\ dirThere \in BOOLEAN
    /\ active \in Procs \cup {Nobody}
    /\ seen \in [Procs -> Contents \cup {NoBundle, Failed, Mixed}]
    /\ crashes \in 0..MaxCrash
    /\ \A p \in Procs :
        /\ proc[p].pc \in Pcs /\ proc[p].at \in 1..4 /\ proc[p].listed \subseteq Files
        /\ proc[p].got \in [Files -> Contents \cup {Absent, Torn}]
        \* only the holder of the active job writes, and files only into a directory
        /\ proc[p].pc \in {"check", "write", "finish"} => active = p
    /\ (\E f \in Files : files[f] # Absent) => dirThere

Init ==
    /\ files = [f \in Files |-> Absent]
    /\ dirThere = FALSE
    /\ active = Nobody
    /\ proc = [p \in Procs |-> Idle]
    /\ seen = [p \in Procs |-> NoBundle]
    /\ removed = FALSE
    /\ crashes = 0

At(p, l) == proc[p].pc = l
Become(p, s) == proc' = [proc EXCEPT ![p] = s]
Goto(p, l) == Become(p, [proc[p] EXCEPT !.pc = l])
Exit(p) == Become(p, [Idle EXCEPT !.pc = "exit", !.op = proc[p].op])
StartReading(p, op) == Become(p, [Idle EXCEPT !.pc = "read", !.op = op])
\* An exception: the job, if p runs one, is marked failed.
Raise(p) ==
    /\ Exit(p)
    /\ active' = IF active = p THEN Nobody ELSE active
    /\ seen' = [seen EXCEPT ![p] = Failed]

\* bundle_exists looks for three names, whatever the files hold.
BundleExists == \A f \in {"manifest", "videos", "chunks"} : files[f] # Absent

-----------------------------------------------------------------------------
\* The commands, up to the job.

\* shutil.rmtree: lists the directory, then unlinks name by name.
StartRmtree(p, op) ==
    /\ Become(p, [proc[p] EXCEPT !.pc = "rmtree", !.op = op,
                                  !.listed = {f \in Files : files[f] # Absent}])
    /\ removed' = TRUE

\* run_ingest_inline and the worker come to build_dataset; run_dataset_build
\* first looks whether there is a bundle, and only --force goes on then.
Build(p, op) ==
    /\ At(p, "idle") /\ op \in Ops[p] \cap {"ingest", "build", "force"}
    /\ CASE op = "force" /\ BundleExists -> StartRmtree(p, op)
         [] op = "build" /\ BundleExists -> Exit(p) /\ UNCHANGED removed
         [] OTHER -> /\ Become(p, [proc[p] EXCEPT !.pc = "create", !.op = op])
                     /\ UNCHANGED removed
    /\ UNCHANGED <<files, dirThere, active, seen, crashes>>

\* Wrong variant of CreateJob: the job is created beside an active one.
CreateUnchecked(p) ==
    /\ At(p, "create")
    /\ active' = p /\ Goto(p, "check")
    /\ UNCHANGED <<files, dirThere, seen, removed, crashes>>

\* ensure_no_active_job and create_job (for the worker: the claim).
CreateJob(p) ==
    /\ At(p, "create")
    /\ IF active = Nobody THEN active' = p /\ Goto(p, "check")
       ELSE Exit(p) /\ UNCHANGED active
    /\ UNCHANGED <<files, dirThere, seen, removed, crashes>>

\* run_dataset_load begins with validate_bundle.
Load(p) ==
    /\ At(p, "idle") /\ "load" \in Ops[p]
    /\ StartReading(p, "load")
    /\ UNCHANGED <<files, dirThere, active, seen, removed, crashes>>

\* run_delete_channel after its transaction; the page shows no delete button
\* while the channel has an active job.
Purge(p) ==
    /\ At(p, "idle") /\ "purge" \in Ops[p] /\ active = Nobody
    /\ IF dirThere THEN StartRmtree(p, "purge") ELSE Exit(p) /\ UNCHANGED removed
    /\ UNCHANGED <<files, dirThere, active, seen, crashes>>

\* A name that is gone already is an error of rmtree.
Unlink(p) ==
    /\ At(p, "rmtree")
    /\ \E f \in proc[p].listed :
        IF files[f] = Absent THEN Raise(p) /\ UNCHANGED files
        ELSE /\ files' = [files EXCEPT ![f] = Absent]
             /\ Become(p, [proc[p] EXCEPT !.listed = @ \ {f}])
             /\ UNCHANGED <<active, seen>>
    /\ UNCHANGED <<dirThere, removed, crashes>>

\* rmdir fails when the directory is gone or somebody put a file there meanwhile.
Rmdir(p) ==
    /\ At(p, "rmtree") /\ proc[p].listed = {}
    /\ IF dirThere /\ \A f \in Files : files[f] = Absent
       THEN /\ dirThere' = FALSE
            /\ IF proc[p].op = "force" THEN Goto(p, "create") ELSE Exit(p)
            /\ UNCHANGED <<active, seen>>
       ELSE Raise(p) /\ UNCHANGED dirThere
    /\ UNCHANGED <<files, removed, crashes>>

-----------------------------------------------------------------------------
\* build_dataset and write_bundle.

\* Wrong variant of CheckBundle: what was found before the job was created is
\* not looked at again.
BuildAnyway(p) ==
    /\ At(p, "check")
    /\ \E k \in IF proc[p].op = "ingest" THEN {"full", "silent"} ELSE Kinds :
            Become(p, [proc[p] EXCEPT !.pc = "write", !.kind = k, !.at = 1])
    /\ UNCHANGED <<files, dirThere, active, seen, removed, crashes>>

\* The second look, under the active job: a bundle makes the job done.
CheckBundle(p) ==
    /\ At(p, "check")
    /\ IF BundleExists THEN Goto(p, "finish")
       ELSE \E k \in IF proc[p].op = "ingest" THEN {"full", "silent"} ELSE Kinds :
                Become(p, [proc[p] EXCEPT !.pc = "write", !.kind = k, !.at = 1])
    /\ UNCHANGED <<files, dirThere, active, seen, removed, crashes>>

\* Wrong variant of FileAt: the chunks are written after the manifest.
ChunksLast(p) == <<"videos", "manifest", "embeddings", "chunks">>[proc[p].at]

FileAt(p) == WriteOrder[proc[p].at]
Content(p) == [by |-> p, run |-> proc[p].run, kind |-> proc[p].kind]
\* Only a build with vectors writes the embeddings file; an older one stays.
Written(p, f) == f = "embeddings" => proc[p].kind = "full"

\* mkdir comes with the first file only: later the directory must be there.
OpenFile(p) ==
    /\ At(p, "write") /\ ~proc[p].open
    /\ LET f == FileAt(p) IN
       IF ~Written(p, f)
       THEN Become(p, [proc[p] EXCEPT !.at = @ + 1]) /\ UNCHANGED <<files, dirThere, active, seen>>
       ELSE IF dirThere \/ proc[p].at = 1
       THEN /\ files' = [files EXCEPT ![f] = Torn]
            /\ dirThere' = TRUE
            /\ Become(p, [proc[p] EXCEPT !.open = TRUE])
            /\ UNCHANGED <<active, seen>>
       ELSE Raise(p) /\ UNCHANGED <<files, dirThere>>
    /\ UNCHANGED <<removed, crashes>>

\* A file unlinked meanwhile is completed without a name.
CloseFile(p) ==
    /\ At(p, "write") /\ proc[p].open
    /\ LET f == FileAt(p) IN
       files' = IF files[f] = Torn THEN [files EXCEPT ![f] = Content(p)] ELSE files
    /\ Become(p, IF proc[p].at = 4 THEN [proc[p] EXCEPT !.pc = "finish", !.open = FALSE]
                 ELSE [proc[p] EXCEPT !.at = @ + 1, !.open = FALSE])
    /\ UNCHANGED <<dirThere, active, seen, removed, crashes>>

\* The job is done; an ingest goes on to load the bundle it finds.
Finish(p) ==
    /\ At(p, "finish")
    /\ active' = Nobody
    /\ IF proc[p].op = "ingest" THEN StartReading(p, "ingest") ELSE Exit(p)
    /\ UNCHANGED <<files, dirThere, seen, removed, crashes>>

-----------------------------------------------------------------------------
\* read_bundle and validate_bundle.

\* What reading f may give; nothing of it is an error.  Only the manifest must
\* be there, and an emptied videos.jsonl reads as no videos or as a broken line.
Readings(f) ==
    IF files[f] = Torn THEN IF f = "videos" THEN {Absent} ELSE {}
    ELSE IF f = "manifest" /\ files[f] = Absent THEN {}
    ELSE {files[f]}

\* What was read is all that one build wrote: the embeddings file counts only
\* if the manifest declares a model and there are vectors to store.
Whole(got) ==
    /\ got["manifest"] \in Contents
    /\ got["videos"] = got["manifest"] /\ got["chunks"] = got["manifest"]
    /\ got["manifest"].kind = "full" => got["embeddings"] = got["manifest"]

\* validate_bundle: row counts and keys tell a missing file, not a file of
\* another build of the same shape; a declared model must have its file.
Valid(got) ==
    /\ got["videos"] # Absent /\ got["chunks"] # Absent
    /\ got["manifest"].kind # "bare" =>
            got["embeddings"] \in Contents /\ got["embeddings"].kind = "full"
    /\ got["manifest"].kind # "silent"

\* One file of the bundle; `dataset load` reads them all twice, once to
\* validate and once to load.
ReadFile(p) ==
    /\ At(p, "read")
    /\ LET f == ReadOrder[proc[p].at] IN
        \/ files[f] \in {Torn, Absent} /\ Readings(f) # {files[f]} /\ Raise(p)
        \/ /\ UNCHANGED active
           /\ \E v \in Readings(f) : LET got == [proc[p].got EXCEPT ![f] = v] IN
                IF proc[p].at < 4
                THEN /\ Become(p, [proc[p] EXCEPT !.at = @ + 1, !.got = got])
                     /\ UNCHANGED seen
                ELSE IF proc[p].op = "load" /\ ~proc[p].validated
                THEN IF Valid(got)
                     THEN /\ Become(p, [Idle EXCEPT !.pc = "read", !.validated = TRUE])
                          /\ UNCHANGED seen
                     ELSE Exit(p) /\ seen' = [seen EXCEPT ![p] = Failed]
                ELSE /\ Exit(p)
                     /\ seen' = [seen EXCEPT ![p] = IF Whole(got) THEN got["manifest"] ELSE Mixed]
    /\ UNCHANGED <<files, dirThere, removed, crashes>>

\* The process is killed.  Its job stays active until its heartbeat lapses;
\* then a worker runs it again, as an ingest whatever it was.
Crash(p) ==
    /\ proc[p].pc \notin {"idle", "exit"}
    /\ crashes < MaxCrash
    /\ crashes' = crashes + 1
    /\ Become(p, IF active = p THEN [Idle EXCEPT !.pc = "check", !.op = "ingest", !.run = crashes']
                 ELSE [Idle EXCEPT !.pc = "exit", !.op = proc[p].op])
    /\ UNCHANGED <<files, dirThere, active, seen, removed>>

Next == \E p \in Procs :
    \/ \E op \in Ops[p] : Build(p, op)
    \/ Load(p) \/ Purge(p) \/ Unlink(p) \/ Rmdir(p)
    \/ CreateJob(p) \/ CheckBundle(p) \/ OpenFile(p) \/ CloseFile(p) \/ Finish(p)
    \/ ReadFile(p) \/ Crash(p)

Spec == Init /\ [][Next]_vars

-----------------------------------------------------------------------------
\* Properties.

Published == IF Whole(files) THEN files["manifest"] ELSE NoBundle

Atomic == INSTANCE AtomicBundle WITH Readers <- Procs, bundle <- Published, disturbed <- removed

\* The files behave like a bundle that is there as a whole or not at all and
\* is never rewritten, for every reader that does not race a removal, and
\* whoever is killed at whatever file.
ImplementsAtomicBundle == Atomic!Spec

\* An ingest fails to read a bundle, its own, another's or one left by a killed
\* build, only if the directory was removed or a process was killed while it had
\* the manifest open, or the vectors of a build whose rebuild had none.
IngestReadsWholeBundle ==
    \A p \in Procs : proc[p].op = "ingest" /\ seen[p] = Failed =>
        \/ removed \/ files["manifest"] = Torn
        \/ files["embeddings"] = Torn /\ files["manifest"] \in {c \in Contents : c.kind = "silent"}
=============================================================================
