--------------------------- MODULE BundleFilesProofs ---------------------------
(***************************************************************************)
(* What the files of one bundle directory guarantee for every set of       *)
(* processes and any number of crashes.  The invariant has two layers:     *)
(* Shape, the types and who holds the job, and Quiet, what holds until     *)
(* somebody starts to remove the directory: a writer has written its       *)
(* files in order, a manifest that is complete makes the bundle whole, and *)
(* what a reader has read so far is what the files hold.                   *)
(***************************************************************************)
EXTENDS BundleFiles, TLAPS

-----------------------------------------------------------------------------
\* The invariant.

\* What a process can be started to do.
Commands == {"ingest", "build", "force", "load", "purge"}

\* The fields of a process.
ProcState == [pc : Pcs, op : Commands, run : 0..MaxCrash,
              kind : Kinds, at : 1..4, open : BOOLEAN, validated : BOOLEAN,
              got : [Files -> Contents \cup {Absent, Torn}], listed : SUBSET Files]

\* The types; the holder of the job is the one at the job; nobody goes on after a result.
Shape ==
    /\ TypeOK
    /\ proc \in [Procs -> ProcState]
    /\ removed \in BOOLEAN
    /\ \A p \in Procs : active = p => proc[p].pc \in {"check", "write", "finish"}
    /\ \A p \in Procs : seen[p] # NoBundle => At(p, "exit")

\* The directory is empty.
AllAbsent == \A f \in Files : files[f] = Absent

\* There is a manifest and nobody writes: the bundle will stay as it is.
Settled == files["manifest"] # Absent /\ \A q \in Procs : ~At(q, "write")

\* How far the writer p is: the files before its place hold what it writes.
Progress(p) ==
    /\ files["manifest"] = IF proc[p].at = 4 /\ proc[p].open THEN Torn ELSE Absent
    /\ proc[p].open => files[FileAt(p)] = Torn
    /\ proc[p].at > 1 => files["videos"] = Content(p)
    /\ proc[p].at > 2 => files["chunks"] = Content(p)
    /\ proc[p].at > 3 /\ proc[p].kind = "full" => files["embeddings"] = Content(p)
    /\ proc[p].kind = "bare" => files["embeddings"] = Absent

\* A bundle that nobody writes any more.
Complete ==
    /\ Whole(files)
    /\ files["manifest"].kind = "bare" => files["embeddings"] = Absent
    /\ \A q \in Procs : ~At(q, "write")

\* What p has read is what the files hold.
Follows(p) ==
    /\ files["manifest"] \in Contents
    /\ \A i \in 1..4 : i < proc[p].at => proc[p].got[ReadOrder[i]] = files[ReadOrder[i]]

\* What p may rely on while nobody removes the directory.
Undisturbed(p) ==
    /\ proc[p].open => At(p, "write")
    /\ ~At(p, "rmtree")
    /\ At(p, "write") => Progress(p)
    /\ At(p, "check") /\ proc[p].op # "ingest" => BundleExists \/ AllAbsent
    /\ At(p, "finish") => Settled
    /\ At(p, "read") /\ proc[p].op = "ingest" => Settled
    /\ At(p, "read") /\ proc[p].at > 1 => Follows(p)
    /\ proc[p].op = "ingest" /\ seen[p] = Failed =>
        /\ Settled
        /\ \/ files["manifest"] = Torn
           \/ files["embeddings"] = Torn /\ files["manifest"] \in {c \in Contents : c.kind = "silent"}

\* The second layer.  A bundle that exists, even broken, stops every later build, so the first one to write
\* the manifest is the last one to write.
Quiet == ~removed =>
    /\ files["manifest"] # Absent => BundleExists
    /\ files["manifest"] \in Contents => Complete
    /\ active = Nobody => BundleExists \/ AllAbsent
    /\ \A p \in Procs : Undisturbed(p)

-----------------------------------------------------------------------------
\* Types: the commands.

\* The sentinels are no contents and differ.
LEMMA Distinct ==
    /\ Nobody \notin Procs
    /\ Absent # Torn
    /\ \A c \in Contents : c # Absent /\ c # Torn /\ c # NoBundle /\ c # Failed /\ c # Mixed
    /\ NoBundle # Failed /\ NoBundle # Mixed /\ Failed # Mixed
BY SentinelsAssumption

\* The types of the fields of a process.
LEMMA Locals ==
    ASSUME Shape, NEW p \in Procs
    PROVE  /\ proc[p] \in ProcState
           /\ proc[p].pc \in Pcs /\ proc[p].op \in Commands
           /\ proc[p].run \in 0..MaxCrash /\ proc[p].kind \in Kinds /\ proc[p].at \in 1..4
           /\ proc[p].open \in BOOLEAN /\ proc[p].got \in [Files -> Contents \cup {Absent, Torn}]
           /\ proc[p].listed \in SUBSET Files
           /\ Content(p) \in Contents /\ FileAt(p) \in Files /\ ReadOrder[proc[p].at] \in Files
<1>1. proc[p] \in ProcState
    BY DEF Shape
<1>2. FileAt(p) \in Files /\ ReadOrder[proc[p].at] \in Files
  <2>1. proc[p].at \in {1, 2, 3, 4}
      BY <1>1 DEF ProcState
  <2> QED BY <2>1 DEF FileAt, WriteOrder, ReadOrder, Files
<1> QED BY <1>1, <1>2 DEF ProcState, Content, Contents

\* What an idle, a reading and a stopped process look like.
LEMMA Fresh ==
    /\ Idle \in ProcState /\ Idle.pc = "idle" /\ Idle.at = 1 /\ ~Idle.open
    /\ \A o \in Commands :
        LET r == [Idle EXCEPT !.pc = "read", !.op = o]
            e == [Idle EXCEPT !.pc = "exit", !.op = o] IN
        /\ r \in ProcState /\ r.pc = "read" /\ r.op = o /\ r.at = 1 /\ ~r.open
        /\ e \in ProcState /\ e.pc = "exit" /\ e.op = o /\ ~e.open
    /\ LET v == [Idle EXCEPT !.pc = "read", !.validated = TRUE] IN
        v \in ProcState /\ v.pc = "read" /\ v.op = "load" /\ v.at = 1 /\ ~v.open
    /\ \A r \in 0..MaxCrash :
        LET c == [Idle EXCEPT !.pc = "check", !.op = "ingest", !.run = r] IN
        c \in ProcState /\ c.pc = "check" /\ c.op = "ingest" /\ ~c.open
<1>1. Idle \in ProcState
  <2>1. [f \in Files |-> Absent] \in [Files -> Contents \cup {Absent, Torn}]
      OBVIOUS
  <2>2. 0 \in 0..MaxCrash
      BY CrashAssumption
  <2> QED BY <2>1, <2>2 DEF Idle, ProcState, Pcs, Kinds, Commands
<1>2. Idle.pc = "idle" /\ Idle.op = "load" /\ Idle.at = 1 /\ ~Idle.open
    BY DEF Idle
<1> QED BY <1>1, <1>2 DEF ProcState, Pcs, Commands

\* The shape of a state after a step of p that leaves p as s.
LEMMA ShapeAfter ==
    ASSUME Shape, NEW p \in Procs, NEW s \in ProcState,
           proc' = [proc EXCEPT ![p] = s],
           files' \in [Files -> Contents \cup {Absent, Torn}],
           dirThere' \in BOOLEAN, (\E f \in Files : files'[f] # Absent) => dirThere',
           removed' \in BOOLEAN, crashes' \in 0..MaxCrash,
           \/ active' = active /\ (active = p <=> s.pc \in {"check", "write", "finish"})
           \/ active' = p /\ active = Nobody /\ s.pc \in {"check", "write", "finish"}
           \/ active' = Nobody /\ active = p /\ s.pc \notin {"check", "write", "finish"},
           \/ seen' = seen /\ (s.pc = "exit" \/ ~At(p, "exit"))
           \/ \E x \in Contents \cup {NoBundle, Failed, Mixed} :
                    seen' = [seen EXCEPT ![p] = x] /\ s.pc = "exit"
    PROVE  Shape'
<1>1. proc' \in [Procs -> ProcState] /\ proc'[p] = s /\ \A q \in Procs \ {p} : proc'[q] = proc[q]
    BY DEF Shape
<1>2. \A q \in Procs : proc'[q] \in ProcState
    BY <1>1
<1>3. seen' \in [Procs -> Contents \cup {NoBundle, Failed, Mixed}]
    BY DEF Shape, TypeOK
<1>4. active' \in Procs \cup {Nobody}
    BY DEF Shape, TypeOK
<1>5. \A q \in Procs : proc'[q].pc \in {"check", "write", "finish"} <=> active' = q
    BY <1>1, Distinct DEF Shape, TypeOK
<1>6. ASSUME NEW q \in Procs, seen'[q] # NoBundle
      PROVE  proc'[q].pc = "exit"
  <2>1. CASE q = p
      BY <1>1, <1>6, <2>1 DEF Shape, TypeOK, At
  <2>2. CASE q # p
      BY <1>1, <1>6, <2>2 DEF Shape, TypeOK, At
  <2> QED BY <2>1, <2>2
<1>7. \A q \in Procs : /\ proc'[q].pc \in Pcs /\ proc'[q].at \in 1..4 /\ proc'[q].listed \subseteq Files
                       /\ proc'[q].got \in [Files -> Contents \cup {Absent, Torn}]
    BY <1>2 DEF ProcState
<1>8. TypeOK'
    BY <1>3, <1>4, <1>5, <1>7 DEF TypeOK
<1> QED BY <1>1, <1>5, <1>6, <1>8 DEF Shape, At

\* The first layer holds initially ...
LEMMA InitShape == Init => Shape
<1> SUFFICES ASSUME Init PROVE Shape
    OBVIOUS
<1>1. proc \in [Procs -> ProcState] /\ \A p \in Procs : proc[p] = Idle /\ proc[p] \in ProcState
    BY Fresh DEF Init
<1>2. \A p \in Procs : proc[p].pc = "idle"
    BY <1>1, Fresh
<1>3. /\ files \in [Files -> Contents \cup {Absent, Torn}]
      /\ \A f \in Files : files[f] = Absent
    BY DEF Init
<1>6. /\ seen \in [Procs -> Contents \cup {NoBundle, Failed, Mixed}]
      /\ \A p \in Procs : seen[p] = NoBundle
    BY DEF Init
<1>7. crashes \in 0..MaxCrash /\ dirThere \in BOOLEAN /\ removed \in BOOLEAN
  <2>1. dirThere \in BOOLEAN /\ removed \in BOOLEAN
      BY DEF Init
  <2>2. crashes = 0
      BY DEF Init
  <2> QED BY <2>1, <2>2, CrashAssumption
<1>4. active = Nobody /\ \A p \in Procs : active # p
    BY Distinct DEF Init
<1>5. TypeOK
    BY <1>1, <1>2, <1>3, <1>4, <1>6, <1>7 DEF TypeOK, ProcState
<1> QED BY <1>1, <1>2, <1>3, <1>4, <1>5, <1>6, <1>7 DEF Shape

\* The steps that write no file, and what they make of the one who takes them.
LEMMA ShapeOfCommands ==
    ASSUME Shape, NEW p \in Procs,
           \/ \E op \in Ops[p] : Build(p, op)
           \/ Load(p) \/ Purge(p) \/ CreateJob(p) \/ Finish(p) \/ Crash(p)
    PROVE  Shape'
<1>o. proc[p].op \in Commands
    BY Locals
<1>a. /\ files \in [Files -> Contents \cup {Absent, Torn}] /\ dirThere \in BOOLEAN
      /\ (\E f \in Files : files[f] # Absent) => dirThere
      /\ removed \in BOOLEAN /\ crashes \in 0..MaxCrash
      /\ active = p <=> proc[p].pc \in {"check", "write", "finish"}
    BY DEF Shape, TypeOK
<1>b. proc[p] \in ProcState
    BY DEF Shape
<1>c. Ops[p] \subseteq Commands
    BY OpsAssumption DEF Commands
<1>d. /\ \A l \in Pcs : [proc[p] EXCEPT !.pc = l] \in ProcState /\ [proc[p] EXCEPT !.pc = l].pc = l
      /\ \A l \in Pcs, o \in Commands :
            /\ [proc[p] EXCEPT !.pc = l, !.op = o] \in ProcState
            /\ [proc[p] EXCEPT !.pc = l, !.op = o].pc = l
    BY <1>b DEF ProcState
<1>e. ASSUME NEW o \in Commands, StartRmtree(p, o), ~At(p, "exit"),
             active # p, UNCHANGED <<files, dirThere, active, seen, crashes>>
      PROVE  Shape'
  <2> DEFINE S == {f \in Files : files[f] # Absent}
             s == [proc[p] EXCEPT !.pc = "rmtree", !.op = o, !.listed = S]
  <2>1. S \in SUBSET Files
      OBVIOUS
  <2>2. proc' = [proc EXCEPT ![p] = s] /\ removed' \in BOOLEAN
      BY <1>e DEF StartRmtree, Become
  <2> HIDE DEF S
  <2>3. s \in ProcState /\ s.pc = "rmtree"
      BY <1>b, <2>1 DEF ProcState, Pcs
  <2> HIDE DEF s
  <2> QED BY <1>a, <1>e, <2>2, <2>3, ShapeAfter
<1>f. ASSUME Exit(p), active # p, UNCHANGED <<files, dirThere, active, seen, removed, crashes>>
      PROVE  Shape'
  <2> DEFINE s == [Idle EXCEPT !.pc = "exit", !.op = proc[p].op]
  <2>1. proc' = [proc EXCEPT ![p] = s]
      BY <1>f DEF Exit, Become
  <2>2. s \in ProcState /\ s.pc = "exit"
      BY <1>o, Fresh DEF Commands
  <2> HIDE DEF s
  <2> QED BY <1>a, <1>f, <2>1, <2>2, ShapeAfter
<1>1. ASSUME NEW op \in Ops[p], Build(p, op)
      PROVE  Shape'
  <2>1. op \in Commands /\ active # p /\ ~At(p, "exit")
      BY <1>1, <1>a, <1>c DEF Build, At, Commands
  <2>2. UNCHANGED <<files, dirThere, active, seen, crashes>>
      BY <1>1 DEF Build
  <2>3. CASE StartRmtree(p, op)
      BY <1>e, <2>1, <2>2, <2>3
  <2>4. CASE Exit(p) /\ UNCHANGED removed
      BY <1>f, <2>1, <2>2, <2>4
  <2>5. CASE Become(p, [proc[p] EXCEPT !.pc = "create", !.op = op]) /\ UNCHANGED removed
    <3> DEFINE s == [proc[p] EXCEPT !.pc = "create", !.op = op]
    <3>1. proc' = [proc EXCEPT ![p] = s]
        BY <2>5 DEF Become
    <3>2. s \in ProcState /\ s.pc = "create"
        BY <1>d, <2>1 DEF Pcs
    <3> HIDE DEF s
    <3> QED BY <1>a, <2>1, <2>2, <2>5, <3>1, <3>2, ShapeAfter
  <2> QED BY <1>1, <2>3, <2>4, <2>5 DEF Build
<1>2. ASSUME Load(p)
      PROVE  Shape'
  <2> DEFINE s == [Idle EXCEPT !.pc = "read", !.op = "load"]
  <2>1. proc' = [proc EXCEPT ![p] = s] /\ active # p /\ ~At(p, "exit")
      BY <1>2, <1>a DEF Load, At, StartReading, Become
  <2>2. s \in ProcState /\ s.pc = "read"
      BY Fresh DEF Commands
  <2>3. UNCHANGED <<files, dirThere, active, seen, removed, crashes>>
      BY <1>2 DEF Load
  <2> HIDE DEF s
  <2> QED BY <1>a, <2>1, <2>2, <2>3, ShapeAfter
<1>3. ASSUME Purge(p)
      PROVE  Shape'
  <2>1. active # p /\ ~At(p, "exit") /\ UNCHANGED <<files, dirThere, active, seen, crashes>>
      BY <1>3, <1>a DEF Purge, At
  <2>2. StartRmtree(p, "purge") \/ (Exit(p) /\ UNCHANGED removed)
      BY <1>3 DEF Purge
  <2>3. "purge" \in Commands
      BY DEF Commands
  <2> QED BY <1>e, <1>f, <2>1, <2>2, <2>3
<1>4. ASSUME CreateJob(p)
      PROVE  Shape'
  <2>1. /\ active # p /\ ~At(p, "exit")
        /\ UNCHANGED <<files, dirThere, seen, removed, crashes>>
      BY <1>4, <1>a DEF CreateJob, At
  <2>2. CASE Exit(p) /\ UNCHANGED active
      BY <1>f, <2>1, <2>2
  <2>3. CASE active = Nobody /\ active' = p /\ Goto(p, "check")
    <3> DEFINE s == [proc[p] EXCEPT !.pc = "check"]
    <3>1. proc' = [proc EXCEPT ![p] = s]
        BY <2>3 DEF Goto, Become
    <3>2. s \in ProcState /\ s.pc = "check"
        BY <1>d DEF Pcs
    <3> HIDE DEF s
    <3> QED BY <1>a, <2>1, <2>3, <3>1, <3>2, ShapeAfter
  <2> QED BY <1>4, <2>2, <2>3 DEF CreateJob
<1>5. ASSUME Finish(p)
      PROVE  Shape'
  <2>1. /\ active = p /\ ~At(p, "exit") /\ active' = Nobody
        /\ UNCHANGED <<files, dirThere, seen, removed, crashes>>
      BY <1>5, <1>a DEF Finish, At
  <2>2. PICK s \in ProcState : proc' = [proc EXCEPT ![p] = s] /\ s.pc \in {"read", "exit"}
    <3>1. CASE StartReading(p, "ingest")
      <4> DEFINE s == [Idle EXCEPT !.pc = "read", !.op = "ingest"]
      <4>1. proc' = [proc EXCEPT ![p] = s]
          BY <3>1 DEF StartReading, Become
      <4>2. s \in ProcState /\ s.pc = "read"
          BY Fresh DEF Commands
      <4> HIDE DEF s
      <4> QED BY <4>1, <4>2
    <3>2. CASE Exit(p)
      <4> DEFINE s == [Idle EXCEPT !.pc = "exit", !.op = proc[p].op]
      <4>1. proc' = [proc EXCEPT ![p] = s]
          BY <3>2 DEF Exit, Become
      <4>2. s \in ProcState /\ s.pc = "exit"
          BY <1>o, Fresh DEF Commands
      <4> HIDE DEF s
      <4> QED BY <4>1, <4>2
    <3> QED BY <1>5, <3>1, <3>2 DEF Finish
  <2> QED BY <1>a, <2>1, <2>2, ShapeAfter
<1>6. ASSUME Crash(p)
      PROVE  Shape'
  <2>1. /\ ~At(p, "exit") /\ crashes' \in 0..MaxCrash
        /\ UNCHANGED <<files, dirThere, active, seen, removed>>
      BY <1>6, <1>a, CrashAssumption DEF Crash, At
  <2>2. CASE active = p
    <3> DEFINE s == [Idle EXCEPT !.pc = "check", !.op = "ingest", !.run = crashes']
    <3>1. proc' = [proc EXCEPT ![p] = s]
        BY <1>6, <2>2 DEF Crash, Become
    <3>2. s \in ProcState /\ s.pc = "check"
        BY <2>1, Fresh
    <3> HIDE DEF s
    <3> QED BY <1>a, <2>1, <2>2, <3>1, <3>2, ShapeAfter
  <2>3. CASE active # p
    <3> DEFINE s == [Idle EXCEPT !.pc = "exit", !.op = proc[p].op]
    <3>1. proc' = [proc EXCEPT ![p] = s]
        BY <1>6, <2>3 DEF Crash, Become
    <3>2. s \in ProcState /\ s.pc = "exit"
        BY <1>o, Fresh DEF Commands
    <3> HIDE DEF s
    <3> QED BY <1>a, <2>1, <2>3, <3>1, <3>2, ShapeAfter
  <2> QED BY <2>2, <2>3
<1> QED BY <1>1, <1>2, <1>3, <1>4, <1>5, <1>6

-----------------------------------------------------------------------------
\* Types: the files.

\* An exception ends the process and, if it runs the job, the job.
LEMMA ShapeOfRaise ==
    ASSUME Shape, NEW p \in Procs, Raise(p),
           files' \in [Files -> Contents \cup {Absent, Torn}],
           dirThere' \in BOOLEAN, (\E f \in Files : files'[f] # Absent) => dirThere',
           UNCHANGED <<removed, crashes>>
    PROVE  Shape'
<1> DEFINE s == [Idle EXCEPT !.pc = "exit", !.op = proc[p].op]
<1>1. proc' = [proc EXCEPT ![p] = s]
    BY DEF Raise, Exit, Become
<1>2. proc[p].op \in Commands
    BY Locals
<1>3. s \in ProcState /\ s.pc = "exit"
    BY <1>2, Fresh
<1> HIDE DEF s
<1>4. /\ removed' \in BOOLEAN /\ crashes' \in 0..MaxCrash
      /\ active' = IF active = p THEN Nobody ELSE active
      /\ seen' = [seen EXCEPT ![p] = Failed]
    BY DEF Raise, Shape, TypeOK
<1> QED BY <1>1, <1>3, <1>4, ShapeAfter

LEMMA ShapeOfRmtree ==
    ASSUME Shape, NEW p \in Procs, Unlink(p) \/ Rmdir(p)
    PROVE  Shape'
<1>a. /\ files \in [Files -> Contents \cup {Absent, Torn}] /\ dirThere \in BOOLEAN
      /\ (\E f \in Files : files[f] # Absent) => dirThere
      /\ removed \in BOOLEAN /\ crashes \in 0..MaxCrash
      /\ active = p <=> proc[p].pc \in {"check", "write", "finish"}
    BY DEF Shape, TypeOK
<1>b. proc[p] \in ProcState /\ proc[p].op \in Commands /\ proc[p].listed \in SUBSET Files
    BY Locals
<1>1. active # p /\ ~At(p, "exit") /\ UNCHANGED <<removed, crashes>>
    BY <1>a DEF Unlink, Rmdir, At
<1>2. ASSUME Unlink(p)
      PROVE  Shape'
  <2>1. PICK f \in proc[p].listed :
            IF files[f] = Absent THEN Raise(p) /\ UNCHANGED files
            ELSE /\ files' = [files EXCEPT ![f] = Absent]
                 /\ Become(p, [proc[p] EXCEPT !.listed = @ \ {f}])
                 /\ UNCHANGED <<active, seen>>
      BY <1>2 DEF Unlink
  <2>2. UNCHANGED dirThere
      BY <1>2 DEF Unlink
  <2>3. CASE files[f] = Absent
      BY <1>a, <1>1, <2>1, <2>2, <2>3, ShapeOfRaise
  <2>4. CASE files[f] # Absent
    <3> DEFINE s == [proc[p] EXCEPT !.listed = @ \ {f}]
    <3>1. proc' = [proc EXCEPT ![p] = s]
        BY <2>1, <2>4 DEF Become
    <3>2. s \in ProcState /\ s.pc = proc[p].pc
        BY <1>b DEF ProcState
    <3> HIDE DEF s
    <3>3. /\ files' \in [Files -> Contents \cup {Absent, Torn}]
          /\ \A g \in Files : files'[g] # Absent => files[g] # Absent
        BY <1>a, <1>b, <2>1, <2>4
    <3> QED BY <1>a, <1>1, <2>1, <2>2, <2>4, <3>1, <3>2, <3>3, ShapeAfter DEF At
  <2> QED BY <2>3, <2>4
<1>3. ASSUME Rmdir(p)
      PROVE  Shape'
  <2>1. CASE Raise(p) /\ UNCHANGED dirThere
      BY <1>3, <1>a, <1>1, <2>1, ShapeOfRaise DEF Rmdir
  <2>2. CASE /\ \A f \in Files : files[f] = Absent
             /\ dirThere' = FALSE
             /\ IF proc[p].op = "force" THEN Goto(p, "create") ELSE Exit(p)
             /\ UNCHANGED <<active, seen>>
    <3>1. UNCHANGED files
        BY <1>3 DEF Rmdir
    <3>2. PICK s \in ProcState : proc' = [proc EXCEPT ![p] = s] /\ s.pc \in {"create", "exit"}
      <4>1. CASE Goto(p, "create")
        <5> DEFINE s == [proc[p] EXCEPT !.pc = "create"]
        <5>1. proc' = [proc EXCEPT ![p] = s]
            BY <4>1 DEF Goto, Become
        <5>2. s \in ProcState /\ s.pc = "create"
            BY <1>b DEF ProcState, Pcs
        <5> HIDE DEF s
        <5> QED BY <5>1, <5>2
      <4>2. CASE Exit(p)
        <5> DEFINE s == [Idle EXCEPT !.pc = "exit", !.op = proc[p].op]
        <5>1. proc' = [proc EXCEPT ![p] = s]
            BY <4>2 DEF Exit, Become
        <5>2. s \in ProcState /\ s.pc = "exit"
            BY <1>b, Fresh
        <5> HIDE DEF s
        <5> QED BY <5>1, <5>2
      <4> QED BY <2>2, <4>1, <4>2
    <3> QED BY <1>a, <1>1, <2>2, <3>1, <3>2, ShapeAfter
  <2> QED BY <1>3, <2>1, <2>2 DEF Rmdir
<1> QED BY <1>2, <1>3

\* Between the first and the last file of a build.
LEMMA ShapeOfBuild ==
    ASSUME Shape, NEW p \in Procs, CheckBundle(p) \/ OpenFile(p) \/ CloseFile(p)
    PROVE  Shape'
<1>a. /\ files \in [Files -> Contents \cup {Absent, Torn}] /\ dirThere \in BOOLEAN
      /\ (\E f \in Files : files[f] # Absent) => dirThere
      /\ removed \in BOOLEAN /\ crashes \in 0..MaxCrash
      /\ active = p <=> proc[p].pc \in {"check", "write", "finish"}
    BY DEF Shape, TypeOK
<1>b. /\ proc[p] \in ProcState /\ proc[p].op \in Commands /\ proc[p].at \in 1..4
      /\ FileAt(p) \in Files /\ Content(p) \in Contents
    BY Locals
<1>1. active = p /\ ~At(p, "exit") /\ UNCHANGED <<removed, crashes>>
    BY <1>a DEF CheckBundle, OpenFile, CloseFile, At
<1>2. ASSUME CheckBundle(p)
      PROVE  Shape'
  <2>1. UNCHANGED <<files, dirThere, active, seen>>
      BY <1>2 DEF CheckBundle
  <2>2. PICK s \in ProcState : proc' = [proc EXCEPT ![p] = s] /\ s.pc \in {"write", "finish"}
    <3>1. CASE Goto(p, "finish")
      <4> DEFINE s == [proc[p] EXCEPT !.pc = "finish"]
      <4>1. proc' = [proc EXCEPT ![p] = s]
          BY <3>1 DEF Goto, Become
      <4>2. s \in ProcState /\ s.pc = "finish"
          BY <1>b DEF ProcState, Pcs
      <4> HIDE DEF s
      <4> QED BY <4>1, <4>2
    <3>2. ASSUME NEW k \in Kinds, Become(p, [proc[p] EXCEPT !.pc = "write", !.kind = k, !.at = 1])
          PROVE  \E s \in ProcState : proc' = [proc EXCEPT ![p] = s] /\ s.pc \in {"write", "finish"}
      <4> DEFINE s == [proc[p] EXCEPT !.pc = "write", !.kind = k, !.at = 1]
      <4>1. proc' = [proc EXCEPT ![p] = s]
          BY <3>2 DEF Become
      <4>2. s \in ProcState
        <5>1. proc[p] \in ProcState /\ 1 \in 1..4 /\ "write" \in Pcs
            BY <1>b DEF Pcs
        <5> QED BY <5>1 DEF ProcState
      <4>3. s.pc = "write"
          BY <1>b DEF ProcState
      <4> HIDE DEF s
      <4> QED BY <4>1, <4>2, <4>3
    <3>3. {"full", "silent"} \subseteq Kinds
        BY DEF Kinds
    <3> QED BY <1>2, <3>1, <3>2, <3>3 DEF CheckBundle
  <2> QED BY <1>a, <1>1, <2>1, <2>2, ShapeAfter
<1>3. ASSUME OpenFile(p)
      PROVE  Shape'
  <2>1. CASE ~Written(p, FileAt(p))
    <3> DEFINE s == [proc[p] EXCEPT !.at = @ + 1]
    <3>1. proc' = [proc EXCEPT ![p] = s] /\ UNCHANGED <<files, dirThere, active, seen>>
        BY <1>3, <2>1 DEF OpenFile, Become
    <3>2. proc[p].at = 3
      <4>1. proc[p].at \in {1, 2, 3, 4}
          BY <1>b
      <4> QED BY <2>1, <4>1 DEF Written, FileAt, WriteOrder
    <3>3. s \in ProcState /\ s.pc = proc[p].pc
        BY <1>b, <3>2 DEF ProcState
    <3> HIDE DEF s
    <3> QED BY <1>a, <1>1, <3>1, <3>3, ShapeAfter DEF At
  <2>2. CASE Written(p, FileAt(p)) /\ (dirThere \/ proc[p].at = 1)
    <3> DEFINE s == [proc[p] EXCEPT !.open = TRUE]
    <3>1. /\ proc' = [proc EXCEPT ![p] = s] /\ UNCHANGED <<active, seen>>
          /\ files' = [files EXCEPT ![FileAt(p)] = Torn] /\ dirThere' = TRUE
        BY <1>3, <2>2 DEF OpenFile, Become
    <3>2. s \in ProcState /\ s.pc = proc[p].pc
        BY <1>b DEF ProcState
    <3> HIDE DEF s
    <3>3. files' \in [Files -> Contents \cup {Absent, Torn}]
        BY <1>a, <3>1
    <3>4. dirThere' \in BOOLEAN /\ ((\E f \in Files : files'[f] # Absent) => dirThere')
        BY <3>1
    <3> QED BY <1>a, <1>1, <3>1, <3>2, <3>3, <3>4, ShapeAfter DEF At
  <2>3. CASE Written(p, FileAt(p)) /\ ~(dirThere \/ proc[p].at = 1)
    <3>1. Raise(p) /\ UNCHANGED <<files, dirThere>>
        BY <1>3, <2>3 DEF OpenFile
    <3> QED BY <1>a, <1>1, <3>1, ShapeOfRaise
  <2> QED BY <2>1, <2>2, <2>3
<1>4. ASSUME CloseFile(p)
      PROVE  Shape'
  <2>1. PICK s \in ProcState : proc' = [proc EXCEPT ![p] = s] /\ s.pc \in {"write", "finish"}
    <3>1. CASE proc[p].at = 4
      <4> DEFINE s == [proc[p] EXCEPT !.pc = "finish", !.open = FALSE]
      <4>1. proc' = [proc EXCEPT ![p] = s]
          BY <1>4, <3>1 DEF CloseFile, Become
      <4>2. s \in ProcState /\ s.pc = "finish"
          BY <1>b DEF ProcState, Pcs
      <4> HIDE DEF s
      <4> QED BY <4>1, <4>2
    <3>2. CASE proc[p].at # 4
      <4> DEFINE s == [proc[p] EXCEPT !.at = @ + 1, !.open = FALSE]
      <4>1. proc' = [proc EXCEPT ![p] = s]
          BY <1>4, <3>2 DEF CloseFile, Become
      <4>2. proc[p].at \in {1, 2, 3} /\ proc[p].pc = "write"
          BY <1>b, <1>4, <3>2 DEF CloseFile, At
      <4>3. s \in ProcState
        <5>1. proc[p].at + 1 \in 1..4
            BY <4>2
        <5> QED BY <1>b, <5>1 DEF ProcState
      <4>4. s.pc = "write"
          BY <1>b, <4>2 DEF ProcState
      <4> HIDE DEF s
      <4> QED BY <4>1, <4>3, <4>4
    <3> QED BY <3>1, <3>2
  <2>2. /\ files' \in [Files -> Contents \cup {Absent, Torn}]
        /\ \A g \in Files : files'[g] # Absent => files[g] # Absent
      BY <1>a, <1>b, <1>4, Distinct DEF CloseFile
  <2>3. UNCHANGED <<dirThere, active, seen>>
      BY <1>4 DEF CloseFile
  <2> QED BY <1>a, <1>1, <2>1, <2>2, <2>3, ShapeAfter
<1> QED BY <1>2, <1>3, <1>4

LEMMA ShapeOfReading ==
    ASSUME Shape, NEW p \in Procs, ReadFile(p)
    PROVE  Shape'
<1>a. /\ files \in [Files -> Contents \cup {Absent, Torn}] /\ dirThere \in BOOLEAN
      /\ (\E f \in Files : files[f] # Absent) => dirThere
      /\ removed \in BOOLEAN /\ crashes \in 0..MaxCrash
      /\ active = p <=> proc[p].pc \in {"check", "write", "finish"}
    BY DEF Shape, TypeOK
<1>b. /\ proc[p] \in ProcState /\ proc[p].op \in Commands /\ proc[p].at \in 1..4
      /\ proc[p].got \in [Files -> Contents \cup {Absent, Torn}]
      /\ ReadOrder[proc[p].at] \in Files
    BY Locals
<1> DEFINE f == ReadOrder[proc[p].at]
<1> HIDE DEF f
<1>1. /\ active # p /\ At(p, "read") /\ ~At(p, "exit") /\ UNCHANGED <<files, dirThere, removed, crashes>>
      /\ f \in Files
    BY <1>a, <1>b DEF ReadFile, At, f
<1>2. CASE Raise(p)
    BY <1>a, <1>1, <1>2, ShapeOfRaise
<1>3. ASSUME NEW v \in Readings(f), UNCHANGED active,
             LET got == [proc[p].got EXCEPT ![f] = v] IN
                IF proc[p].at < 4
                THEN /\ Become(p, [proc[p] EXCEPT !.at = @ + 1, !.got = got])
                     /\ UNCHANGED seen
                ELSE IF proc[p].op = "load" /\ ~proc[p].validated
                THEN IF Valid(got)
                     THEN /\ Become(p, [Idle EXCEPT !.pc = "read", !.validated = TRUE])
                          /\ UNCHANGED seen
                     ELSE Exit(p) /\ seen' = [seen EXCEPT ![p] = Failed]
                ELSE /\ Exit(p)
                     /\ seen' = [seen EXCEPT ![p] = IF Whole(got) THEN got["manifest"] ELSE Mixed]
      PROVE  Shape'
  <2> DEFINE got == [proc[p].got EXCEPT ![f] = v]
  <2>1. got \in [Files -> Contents \cup {Absent, Torn}]
    <3>1. v \in Contents \cup {Absent, Torn}
        BY <1>1, <1>3, <1>a DEF Readings
    <3> QED BY <1>b, <1>1, <3>1
  <2>a. Whole(got) => got["manifest"] \in Contents
      BY DEF Whole
  <2> HIDE DEF got
  <2>2. CASE proc[p].at < 4
    <3> DEFINE s == [proc[p] EXCEPT !.at = @ + 1, !.got = got]
    <3>1. proc' = [proc EXCEPT ![p] = s] /\ UNCHANGED seen
        BY <1>3, <2>2 DEF Become, got
    <3>2. proc[p].at + 1 \in 1..4
        BY <1>b, <2>2
    <3>3. s \in ProcState /\ s.pc = proc[p].pc
        BY <1>b, <2>1, <3>2 DEF ProcState
    <3> HIDE DEF s
    <3> QED BY <1>a, <1>1, <1>3, <3>1, <3>3, ShapeAfter DEF At
  <2>3. CASE /\ Become(p, [Idle EXCEPT !.pc = "read", !.validated = TRUE])
             /\ UNCHANGED seen
    <3> DEFINE s == [Idle EXCEPT !.pc = "read", !.validated = TRUE]
    <3>1. proc' = [proc EXCEPT ![p] = s]
        BY <2>3 DEF Become
    <3>2. s \in ProcState /\ s.pc = "read"
        BY Fresh
    <3> HIDE DEF s
    <3> QED BY <1>a, <1>1, <1>3, <2>3, <3>1, <3>2, ShapeAfter
  <2>4. ASSUME NEW x \in Contents \cup {NoBundle, Failed, Mixed}, Exit(p), seen' = [seen EXCEPT ![p] = x]
        PROVE  Shape'
    <3> DEFINE s == [Idle EXCEPT !.pc = "exit", !.op = proc[p].op]
    <3>1. proc' = [proc EXCEPT ![p] = s]
        BY <2>4 DEF Exit, Become
    <3>2. s \in ProcState /\ s.pc = "exit"
        BY <1>b, Fresh
    <3> HIDE DEF s
    <3> QED BY <1>a, <1>1, <1>3, <2>4, <3>1, <3>2, ShapeAfter
  <2>5. CASE Exit(p) /\ seen' = [seen EXCEPT ![p] = Failed]
      BY <2>4, <2>5
  <2>6. CASE Exit(p) /\ seen' = [seen EXCEPT ![p] = IF Whole(got) THEN got["manifest"] ELSE Mixed]
      BY <2>4, <2>6, <2>a
  <2> QED BY <1>3, <2>2, <2>3, <2>5, <2>6 DEF got
<1> QED BY <1>2, <1>3 DEF ReadFile, f

\* ... and is kept by every step.
LEMMA NextShape == Shape /\ [Next]_vars => Shape'
<1>1. ASSUME Shape, UNCHANGED vars
      PROVE  Shape'
    BY <1>1 DEF vars, Shape, TypeOK, At
<1>2. ASSUME Shape, Next
      PROVE  Shape'
    BY <1>2, ShapeOfCommands, ShapeOfRmtree, ShapeOfBuild, ShapeOfReading DEF Next
<1> QED BY <1>1, <1>2

\* The first layer, always.
THEOREM ShapeInvariant == Spec => []Shape
<1> QED BY InitShape, NextShape, PTL DEF Spec

\* Type correctness; in it, that only the holder of the active job checks, writes or finishes a bundle
\* (ensure_no_active_job and create_job before build_dataset, core/ingest/runner.py), and that files lie in a
\* directory that is there.
THEOREM TypeCorrectness == Spec => []TypeOK
<1>1. Shape => TypeOK
    BY DEF Shape
<1> QED BY <1>1, ShapeInvariant, PTL

-----------------------------------------------------------------------------
\* The bundle until it is removed: the commands.

\* Only the holder of the job checks, writes or finishes.
LEMMA OneWriter ==
    ASSUME Shape, NEW p \in Procs, active = p, NEW q \in Procs, q # p
    PROVE  proc[q].pc \notin {"check", "write", "finish"}
BY DEF Shape, TypeOK

\* A process that goes on has no result yet.
LEMMA Unread ==
    ASSUME Shape, NEW p \in Procs, ~At(p, "exit")
    PROVE  seen[p] = NoBundle /\ seen[p] # Failed
BY Distinct DEF Shape

\* A step of p that writes no file leaves the bundle, and the others, in order.
LEMMA QuietAfter ==
    ASSUME Shape, Quiet, ~removed, NEW p \in Procs, NEW s \in ProcState,
           proc' = [proc EXCEPT ![p] = s], UNCHANGED files,
           \A q \in Procs \ {p} : seen'[q] = seen[q],
           s.pc = "write" => At(p, "write") \/ ~BundleExists,
           active' = Nobody => active = Nobody \/ BundleExists,
           Undisturbed(p)'
    PROVE  Quiet'
<1>1. proc'[p] = s /\ \A q \in Procs \ {p} : proc'[q] = proc[q]
    BY DEF Shape
<1>2. BundleExists' = BundleExists /\ AllAbsent' = AllAbsent
    BY DEF BundleExists, AllAbsent
<1>3. Settled => Settled'
    BY <1>1 DEF Settled, At, Quiet
<1>4. files["manifest"] \in Contents => Complete'
  <2>1. ASSUME files["manifest"] \in Contents
        PROVE  Complete'
    <3>1. Complete /\ files["manifest"] # Absent /\ BundleExists
        BY <2>1, Distinct DEF Quiet
    <3>2. Settled
        BY <3>1 DEF Settled, Complete
    <3> QED BY <1>3, <3>1, <3>2 DEF Complete, Whole, Settled
  <2> QED BY <2>1
<1>5. ASSUME NEW q \in Procs \ {p}
      PROVE  Undisturbed(q)'
  <2>1. Undisturbed(q) /\ proc'[q] = proc[q] /\ seen'[q] = seen[q]
      BY <1>1, <1>5 DEF Quiet
  <2>2. (Progress(q) => Progress(q)') /\ (Follows(q) => Follows(q)')
      BY <2>1 DEF Progress, Follows, FileAt, Content
  <2> QED BY <1>2, <1>3, <2>1, <2>2 DEF Undisturbed, At
<1> QED BY <1>2, <1>4, <1>5 DEF Quiet

\* The second layer holds initially ...
LEMMA InitQuiet == Init => Quiet
<1> SUFFICES ASSUME Init PROVE Quiet
    OBVIOUS
<1>1. ASSUME NEW p \in Procs
      PROVE  proc[p].pc = "idle" /\ ~proc[p].open /\ seen[p] = NoBundle
    BY Fresh DEF Init
<1>2. AllAbsent /\ files["manifest"] = Absent
    BY DEF Init, AllAbsent, Files
<1>3. ASSUME NEW p \in Procs
      PROVE  Undisturbed(p)
    BY <1>1, Distinct DEF Undisturbed, At
<1> QED BY <1>2, <1>3, Distinct DEF Quiet

\* A process that stops disturbs nobody.
LEMMA StopQuiet ==
    ASSUME Shape, Quiet, ~removed, NEW p \in Procs, Exit(p), UNCHANGED <<files, active>>,
           ~At(p, "exit"), \A q \in Procs \ {p} : seen'[q] = seen[q],
           proc[p].op = "ingest" => seen'[p] # Failed
    PROVE  Quiet'
<1> DEFINE s == [Idle EXCEPT !.pc = "exit", !.op = proc[p].op]
<1>1. proc' = [proc EXCEPT ![p] = s]
    BY DEF Exit, Become
<1>2. s \in ProcState /\ s.pc = "exit" /\ s.op = proc[p].op /\ ~s.open
    BY Locals, Fresh
<1> HIDE DEF s
<1>3. proc'[p] = s
    BY <1>1 DEF Shape
<1>4. Undisturbed(p)'
    BY <1>2, <1>3 DEF Undisturbed, At
<1> QED BY <1>1, <1>2, <1>4, QuietAfter

\* The second layer through each family of steps.
LEMMA QuietCommands ==
    ASSUME Shape, Quiet, ~removed', NEW p \in Procs,
           \/ \E op \in Ops[p] : Build(p, op)
           \/ Load(p) \/ Purge(p) \/ CreateJob(p) \/ Finish(p) \/ Crash(p)
    PROVE  Quiet'
<1>a. ~removed
    BY DEF Build, Load, Purge, CreateJob, Finish, Crash, StartRmtree
<1>b. /\ proc[p] \in ProcState /\ proc[p].op \in Commands /\ Undisturbed(p) /\ UNCHANGED files
      /\ ~At(p, "exit") /\ seen[p] = NoBundle /\ seen[p] # Failed
    BY <1>a, Locals, Unread DEF Quiet, Build, Load, Purge, CreateJob, Finish, Crash, At
<1>c. seen' = seen
    BY DEF Build, Load, Purge, CreateJob, Finish, Crash
<1>1. ASSUME NEW op \in Ops[p], Build(p, op)
      PROVE  Quiet'
  <2>1. CASE Exit(p)
      BY <1>1, <1>a, <1>b, <1>c, <2>1, StopQuiet DEF Build
  <2>2. CASE Become(p, [proc[p] EXCEPT !.pc = "create", !.op = op])
    <3> DEFINE s == [proc[p] EXCEPT !.pc = "create", !.op = op]
    <3>0. op \in Commands
        BY OpsAssumption DEF Commands
    <3>1. proc' = [proc EXCEPT ![p] = s]
        BY <2>2 DEF Become
    <3>2. s \in ProcState /\ s.pc = "create" /\ s.open = proc[p].open
        BY <1>b, <3>0 DEF ProcState, Pcs
    <3> HIDE DEF s
    <3>3. proc'[p] = s
        BY <3>1 DEF Shape
    <3>4. ~proc[p].open
        BY <1>1, <1>b DEF Undisturbed, At, Build
    <3>5. Undisturbed(p)'
        BY <1>b, <1>c, <3>2, <3>3, <3>4 DEF Undisturbed, At
    <3> QED BY <1>1, <1>a, <1>b, <1>c, <3>1, <3>2, <3>5, QuietAfter DEF Build
  <2>3. ~StartRmtree(p, op)
      BY DEF StartRmtree
  <2> QED BY <1>1, <2>1, <2>2, <2>3 DEF Build
<1>2. ASSUME Load(p)
      PROVE  Quiet'
  <2> DEFINE s == [Idle EXCEPT !.pc = "read", !.op = "load"]
  <2>1. proc' = [proc EXCEPT ![p] = s]
      BY <1>2 DEF Load, StartReading, Become
  <2>2. s \in ProcState /\ s.pc = "read" /\ s.op = "load" /\ s.at = 1 /\ ~s.open
      BY Fresh DEF Commands
  <2> HIDE DEF s
  <2>3. proc'[p] = s
      BY <2>1 DEF Shape
  <2>4. Undisturbed(p)'
      BY <2>2, <2>3 DEF Undisturbed, At
  <2> QED BY <1>2, <1>a, <1>b, <1>c, <2>1, <2>2, <2>4, QuietAfter DEF Load
<1>3. ASSUME Purge(p)
      PROVE  Quiet'
  <2>1. Exit(p)
      BY <1>3 DEF Purge, StartRmtree
  <2> QED BY <1>3, <1>a, <1>b, <1>c, <2>1, StopQuiet DEF Purge
<1>4. ASSUME CreateJob(p)
      PROVE  Quiet'
  <2>1. CASE Exit(p) /\ UNCHANGED active
      BY <1>4, <1>a, <1>b, <1>c, <2>1, StopQuiet
  <2>2. CASE active = Nobody /\ active' = p /\ Goto(p, "check")
    <3> DEFINE s == [proc[p] EXCEPT !.pc = "check"]
    <3>1. proc' = [proc EXCEPT ![p] = s]
        BY <2>2 DEF Goto, Become
    <3>2. s \in ProcState /\ s.pc = "check" /\ s.open = proc[p].open
        BY <1>b DEF ProcState, Pcs
    <3> HIDE DEF s
    <3>3. proc'[p] = s
        BY <3>1 DEF Shape
    <3>4. ~proc[p].open /\ (BundleExists \/ AllAbsent)
        BY <1>4, <1>a, <1>b, <2>2 DEF Undisturbed, At, CreateJob, Quiet
    <3>5. BundleExists' \/ AllAbsent'
        BY <1>b, <3>4 DEF BundleExists, AllAbsent
    <3>6. Undisturbed(p)'
        BY <1>b, <1>c, <3>2, <3>3, <3>4, <3>5 DEF Undisturbed, At
    <3>7. active' # Nobody
        BY <2>2, Distinct
    <3> QED BY <1>a, <1>b, <1>c, <3>1, <3>2, <3>6, <3>7, QuietAfter
  <2> QED BY <1>4, <2>1, <2>2 DEF CreateJob
<1>5. ASSUME Finish(p)
      PROVE  Quiet'
  <2>1. Settled /\ BundleExists /\ ~proc[p].open
      BY <1>5, <1>a, <1>b DEF Finish, Undisturbed, Settled, Quiet, At
  <2>2. CASE StartReading(p, "ingest")
    <3> DEFINE s == [Idle EXCEPT !.pc = "read", !.op = "ingest"]
    <3>1. proc' = [proc EXCEPT ![p] = s]
        BY <2>2 DEF StartReading, Become
    <3>2. s \in ProcState /\ s.pc = "read" /\ s.op = "ingest" /\ s.at = 1 /\ ~s.open
        BY Fresh DEF Commands
    <3> HIDE DEF s
    <3>3. proc'[p] = s /\ \A q \in Procs \ {p} : proc'[q] = proc[q]
        BY <3>1 DEF Shape
    <3>4. Settled'
        BY <1>b, <2>1, <3>2, <3>3 DEF Settled, At
    <3>5. Undisturbed(p)'
        BY <1>b, <1>c, <3>2, <3>3, <3>4 DEF Undisturbed, At
    <3> QED BY <1>a, <1>b, <1>c, <2>1, <3>1, <3>2, <3>5, QuietAfter
  <2>3. CASE Exit(p)
    <3> DEFINE s == [Idle EXCEPT !.pc = "exit", !.op = proc[p].op]
    <3>1. proc' = [proc EXCEPT ![p] = s]
        BY <2>3 DEF Exit, Become
    <3>2. s \in ProcState /\ s.pc = "exit" /\ ~s.open
        BY <1>b, Fresh
    <3> HIDE DEF s
    <3>3. proc'[p] = s
        BY <3>1 DEF Shape
    <3>5. Undisturbed(p)'
        BY <1>b, <1>c, <3>2, <3>3 DEF Undisturbed, At
    <3> QED BY <1>a, <1>b, <1>c, <2>1, <3>1, <3>2, <3>5, QuietAfter
  <2> QED BY <1>5, <2>2, <2>3 DEF Finish
<1>6. ASSUME Crash(p)
      PROVE  Quiet'
  <2>1. CASE active = p
    <3> DEFINE s == [Idle EXCEPT !.pc = "check", !.op = "ingest", !.run = crashes']
    <3>0. crashes' \in 0..MaxCrash
        BY <1>6, CrashAssumption DEF Crash, Shape, TypeOK
    <3>1. proc' = [proc EXCEPT ![p] = s]
        BY <1>6, <2>1 DEF Crash, Become
    <3>2. s \in ProcState /\ s.pc = "check" /\ s.op = "ingest" /\ ~s.open
        BY <3>0, Fresh
    <3> HIDE DEF s
    <3>3. proc'[p] = s
        BY <3>1 DEF Shape
    <3>5. Undisturbed(p)'
        BY <1>b, <1>c, <3>2, <3>3 DEF Undisturbed, At
    <3> QED BY <1>6, <1>a, <1>b, <1>c, <3>1, <3>2, <3>5, QuietAfter DEF Crash
  <2>2. CASE active # p
    <3>1. Exit(p) /\ UNCHANGED active
        BY <1>6, <2>2 DEF Crash, Exit
    <3> QED BY <1>a, <1>b, <1>c, <3>1, StopQuiet
  <2> QED BY <2>1, <2>2
<1> QED BY <1>1, <1>2, <1>3, <1>4, <1>5, <1>6

\* Whoever is inside shutil.rmtree has been seen to start it.
LEMMA QuietRmtree ==
    ASSUME Shape, Quiet, ~removed', NEW p \in Procs, Unlink(p) \/ Rmdir(p)
    PROVE  Quiet'
BY DEF Unlink, Rmdir, Quiet, Undisturbed

-----------------------------------------------------------------------------
\* The bundle until it is removed: the writer.

\* While p writes, and nothing was removed, nobody has the bundle.
LEMMA NobodyElse ==
    ASSUME Shape, Quiet, ~removed, NEW p \in Procs, At(p, "write")
    PROVE  /\ active = p /\ Progress(p) /\ ~Settled
           /\ files["manifest"] \notin Contents
           /\ \A q \in Procs \ {p} :
                /\ proc[q].pc \notin {"check", "write", "finish", "rmtree"} /\ ~proc[q].open
                /\ ~(At(q, "read") /\ (proc[q].op = "ingest" \/ proc[q].at > 1))
                /\ ~(proc[q].op = "ingest" /\ seen[q] = Failed)
<1>1. active = p /\ Progress(p) /\ ~Settled
    BY DEF Shape, TypeOK, At, Quiet, Undisturbed, Settled
<1>2. files["manifest"] \notin Contents
    BY DEF Quiet, Complete
<1>3. ASSUME NEW q \in Procs \ {p}
      PROVE  /\ proc[q].pc \notin {"check", "write", "finish", "rmtree"} /\ ~proc[q].open
             /\ ~(At(q, "read") /\ (proc[q].op = "ingest" \/ proc[q].at > 1))
             /\ ~(proc[q].op = "ingest" /\ seen[q] = Failed)
  <2>1. proc[q].pc \notin {"check", "write", "finish"}
      BY <1>1, OneWriter
  <2>2. Undisturbed(q)
      BY DEF Quiet
  <2> QED BY <1>1, <1>2, <2>1, <2>2 DEF Undisturbed, At, Follows
<1> QED BY <1>1, <1>2, <1>3

\* A step of the writer keeps everybody else undisturbed.
LEMMA OthersUndisturbed ==
    ASSUME Shape, Quiet, ~removed, NEW p \in Procs, At(p, "write"), seen' = seen,
           \A q \in Procs \ {p} : proc'[q] = proc[q], NEW q \in Procs \ {p}
    PROVE  Undisturbed(q)'
<1>1. /\ proc[q].pc \notin {"check", "write", "finish", "rmtree"} /\ ~proc[q].open
      /\ ~(At(q, "read") /\ (proc[q].op = "ingest" \/ proc[q].at > 1))
      /\ ~(proc[q].op = "ingest" /\ seen[q] = Failed)
    BY NobodyElse
<1>2. proc'[q] = proc[q] /\ seen'[q] = seen[q]
    OBVIOUS
<1> QED BY <1>1, <1>2 DEF Undisturbed, At

LEMMA QuietCheck ==
    ASSUME Shape, Quiet, ~removed', NEW p \in Procs, CheckBundle(p)
    PROVE  Quiet'
<1>a. /\ ~removed /\ UNCHANGED <<files, active, seen>>
      /\ proc[p] \in ProcState /\ Undisturbed(p) /\ ~proc[p].open /\ At(p, "check") /\ active = p
    BY Locals DEF CheckBundle, Quiet, Undisturbed, At, Shape, TypeOK
<1>b. seen[p] # Failed
    BY <1>a, Unread DEF At
<1>1. CASE BundleExists
  <2> DEFINE s == [proc[p] EXCEPT !.pc = "finish"]
  <2>1. proc' = [proc EXCEPT ![p] = s]
      BY <1>1 DEF CheckBundle, Goto, Become
  <2>2. s \in ProcState /\ s.pc = "finish" /\ s.open = proc[p].open
      BY <1>a DEF ProcState, Pcs
  <2> HIDE DEF s
  <2>3. proc'[p] = s /\ \A q \in Procs \ {p} : proc'[q] = proc[q]
      BY <2>1 DEF Shape
  <2>4. \A q \in Procs \ {p} : ~At(q, "write")
      BY <1>a, OneWriter DEF At
  <2>5. Settled'
      BY <1>a, <1>1, <2>2, <2>3, <2>4 DEF Settled, At, BundleExists
  <2>6. Undisturbed(p)'
      BY <1>a, <1>b, <2>2, <2>3, <2>5 DEF Undisturbed, At
  <2> QED BY <1>a, <2>1, <2>2, <2>6, QuietAfter
<1>2. ASSUME ~BundleExists,
             NEW k \in IF proc[p].op = "ingest" THEN {"full", "silent"} ELSE Kinds,
             Become(p, [proc[p] EXCEPT !.pc = "write", !.kind = k, !.at = 1])
      PROVE  Quiet'
  <2> DEFINE s == [proc[p] EXCEPT !.pc = "write", !.kind = k, !.at = 1]
  <2>0. k \in Kinds
      BY DEF Kinds
  <2>1. proc' = [proc EXCEPT ![p] = s]
      BY <1>2 DEF Become
  <2>2. s \in ProcState
    <3>1. proc[p] \in ProcState /\ 1 \in 1..4 /\ "write" \in Pcs
        BY <1>a DEF Pcs
    <3> QED BY <2>0, <3>1 DEF ProcState
  <2>3. s.pc = "write" /\ s.open = proc[p].open /\ s.kind = k /\ s.at = 1 /\ s.op = proc[p].op
      BY <1>a DEF ProcState
  <2> HIDE DEF s
  <2>4. proc'[p] = s
      BY <2>1 DEF Shape
  <2>5. files["manifest"] = Absent
      BY <1>2, <1>a DEF Quiet
  <2>6. k = "bare" => files["embeddings"] = Absent
    <3>1. k = "bare" => proc[p].op # "ingest"
        OBVIOUS
    <3>2. proc[p].op # "ingest" => AllAbsent
        BY <1>a, <1>2 DEF Undisturbed
    <3> QED BY <3>1, <3>2 DEF AllAbsent, Files
  <2>7. Progress(p)'
      BY <1>a, <2>3, <2>4, <2>5, <2>6 DEF Progress
  <2>8. Undisturbed(p)'
      BY <1>a, <1>b, <2>3, <2>4, <2>7 DEF Undisturbed, At
  <2> QED BY <1>a, <1>2, <2>1, <2>2, <2>8, QuietAfter
<1> QED BY <1>1, <1>2 DEF CheckBundle

LEMMA QuietOpen ==
    ASSUME Shape, Quiet, ~removed', NEW p \in Procs, OpenFile(p)
    PROVE  Quiet'
<1>a. /\ ~removed /\ At(p, "write") /\ ~proc[p].open
      /\ proc[p] \in ProcState /\ Undisturbed(p)
      /\ proc[p].at \in {1, 2, 3, 4} /\ proc[p].kind \in Kinds
      /\ files \in [Files -> Contents \cup {Absent, Torn}] /\ FileAt(p) \in Files /\ Content(p) \in Contents
    BY Locals DEF OpenFile, Quiet, Shape, TypeOK
<1>b. active = p /\ Progress(p) /\ files["manifest"] \notin Contents /\ seen[p] # Failed
    BY <1>a, NobodyElse, Unread DEF At
<1>1. CASE ~Written(p, FileAt(p))
  <2> DEFINE s == [proc[p] EXCEPT !.at = @ + 1]
  <2>1. proc' = [proc EXCEPT ![p] = s] /\ UNCHANGED <<files, active, seen>>
      BY <1>1 DEF OpenFile, Become
  <2>2. proc[p].at = 3 /\ proc[p].kind # "full"
      BY <1>a, <1>1 DEF Written, FileAt, WriteOrder
  <2>3. s \in ProcState /\ s.at = 4 /\ s.open = proc[p].open /\ s.kind = proc[p].kind
        /\ s.run = proc[p].run /\ s.pc = proc[p].pc /\ s.op = proc[p].op
      BY <1>a, <2>2 DEF ProcState
  <2> HIDE DEF s
  <2>4. proc'[p] = s
      BY <2>1 DEF Shape
  <2>5. Progress(p)'
      BY <1>a, <1>b, <2>1, <2>2, <2>3, <2>4 DEF Progress, Content
  <2>6. Undisturbed(p)'
      BY <1>a, <1>b, <2>1, <2>3, <2>4, <2>5 DEF Undisturbed, At
  <2> QED BY <1>a, <2>1, <2>3, <2>6, QuietAfter
<1>2. CASE Written(p, FileAt(p)) /\ (dirThere \/ proc[p].at = 1)
  <2> DEFINE s == [proc[p] EXCEPT !.open = TRUE]
  <2>1. /\ proc' = [proc EXCEPT ![p] = s] /\ UNCHANGED <<active, seen>>
        /\ files' = [files EXCEPT ![FileAt(p)] = Torn]
      BY <1>2 DEF OpenFile, Become
  <2>2. s \in ProcState /\ s.at = proc[p].at /\ s.open /\ s.kind = proc[p].kind
        /\ s.run = proc[p].run /\ s.pc = proc[p].pc /\ s.op = proc[p].op
      BY <1>a DEF ProcState
  <2> HIDE DEF s
  <2>3. proc'[p] = s /\ \A q \in Procs \ {p} : proc'[q] = proc[q]
      BY <2>1 DEF Shape
  <2>4. FileAt(p)' = FileAt(p) /\ Content(p)' = Content(p)
      BY <2>2, <2>3 DEF FileAt, Content
  <2>5. Progress(p)'
    <3>1. CASE proc[p].at = 1
        BY <1>a, <1>b, <2>1, <2>2, <2>3, <2>4, <3>1 DEF Progress, FileAt, WriteOrder, Files
    <3>2. CASE proc[p].at = 2
        BY <1>a, <1>b, <2>1, <2>2, <2>3, <2>4, <3>2 DEF Progress, FileAt, WriteOrder, Files
    <3>3. CASE proc[p].at = 3
        BY <1>a, <1>b, <1>2, <2>1, <2>2, <2>3, <2>4, <3>3 DEF Progress, FileAt, WriteOrder, Files, Written
    <3>4. CASE proc[p].at = 4
        BY <1>a, <1>b, <2>1, <2>2, <2>3, <2>4, <3>4 DEF Progress, FileAt, WriteOrder, Files
    <3> QED BY <1>a, <3>1, <3>2, <3>3, <3>4
  <2>6. Undisturbed(p)'
      BY <1>a, <1>b, <2>1, <2>2, <2>3, <2>5 DEF Undisturbed, At
  <2>7. \A q \in Procs : Undisturbed(q)'
      BY <1>a, <2>1, <2>3, <2>6, OthersUndisturbed
  <2>8. active' # Nobody /\ files'["manifest"] \notin Contents
      BY <1>a, <1>b, <2>1, Distinct DEF Files
  <2>9. files'["manifest"] # Absent => BundleExists'
    <3>1. ASSUME files'["manifest"] # Absent
          PROVE  proc[p].at = 4
        BY <1>a, <1>b, <2>1, <3>1 DEF Progress, FileAt, WriteOrder, Files
    <3>2. ASSUME proc[p].at = 4
          PROVE  files'["videos"] # Absent /\ files'["chunks"] # Absent
        BY <1>a, <1>b, <2>1, <3>2, Distinct DEF Progress, FileAt, WriteOrder, Files
    <3> QED BY <3>1, <3>2 DEF BundleExists
  <2> QED BY <2>7, <2>8, <2>9 DEF Quiet
<1>3. CASE ~(dirThere \/ proc[p].at = 1)
  <2>1. files["videos"] = Content(p) /\ "videos" \in Files
      BY <1>a, <1>b, <1>3 DEF Progress, Files
  <2> QED BY <1>a, <1>3, <2>1, Distinct DEF Shape, TypeOK
<1> QED BY <1>1, <1>2, <1>3

LEMMA QuietClose ==
    ASSUME Shape, Quiet, ~removed', NEW p \in Procs, CloseFile(p)
    PROVE  Quiet'
<1>a. /\ ~removed /\ At(p, "write") /\ proc[p].open
      /\ proc[p] \in ProcState /\ Undisturbed(p)
      /\ proc[p].at \in {1, 2, 3, 4} /\ proc[p].kind \in Kinds
      /\ files \in [Files -> Contents \cup {Absent, Torn}] /\ FileAt(p) \in Files /\ Content(p) \in Contents
    BY Locals DEF CloseFile, Quiet, Shape, TypeOK
<1>b. active = p /\ Progress(p) /\ seen[p] # Failed
    BY <1>a, NobodyElse, Unread DEF At
<1>c. /\ files' = [files EXCEPT ![FileAt(p)] = Content(p)] /\ UNCHANGED <<active, seen>>
      /\ active' # Nobody
    BY <1>b, <1>a, Distinct DEF CloseFile, Progress
<1>1. CASE proc[p].at = 4
  <2> DEFINE s == [proc[p] EXCEPT !.pc = "finish", !.open = FALSE]
  <2>1. proc' = [proc EXCEPT ![p] = s]
      BY <1>1 DEF CloseFile, Become
  <2>2. s.pc = "finish" /\ ~s.open
      BY <1>a DEF ProcState
  <2> HIDE DEF s
  <2>3. proc'[p] = s /\ \A q \in Procs \ {p} : proc'[q] = proc[q]
      BY <2>1 DEF Shape
  <2>4. \A q \in Procs : ~At(q, "write")'
      BY <1>b, <2>2, <2>3, OneWriter DEF At
  <2>5. FileAt(p) = "manifest"
      BY <1>1 DEF FileAt, WriteOrder
  <2>6. /\ files'["manifest"] = Content(p) /\ files'["videos"] = Content(p) /\ files'["chunks"] = Content(p)
        /\ proc[p].kind = "full" => files'["embeddings"] = Content(p)
        /\ proc[p].kind = "bare" => files'["embeddings"] = Absent
      BY <1>a, <1>b, <1>c, <1>1, <2>5 DEF Progress, Files
  <2>7. Content(p).kind = proc[p].kind
      BY DEF Content
  <2>8. Complete' /\ Settled' /\ BundleExists'
      BY <1>a, <2>4, <2>6, <2>7, Distinct DEF Complete, Settled, BundleExists, Whole
  <2>9. Undisturbed(p)'
      BY <1>b, <1>c, <2>2, <2>3, <2>8 DEF Undisturbed, At
  <2>10. \A q \in Procs : Undisturbed(q)'
      BY <1>a, <1>c, <2>3, <2>9, OthersUndisturbed
  <2> QED BY <1>c, <2>8, <2>10 DEF Quiet
<1>2. CASE proc[p].at # 4
  <2> DEFINE s == [proc[p] EXCEPT !.at = @ + 1, !.open = FALSE]
  <2>1. proc' = [proc EXCEPT ![p] = s]
      BY <1>2 DEF CloseFile, Become
  <2>2. s.at = proc[p].at + 1 /\ ~s.open /\ s.kind = proc[p].kind
        /\ s.run = proc[p].run /\ s.pc = proc[p].pc /\ s.op = proc[p].op
      BY <1>a DEF ProcState
  <2> HIDE DEF s
  <2>3. proc'[p] = s /\ \A q \in Procs \ {p} : proc'[q] = proc[q]
      BY <2>1 DEF Shape
  <2>4. Content(p)' = Content(p)
      BY <2>2, <2>3 DEF Content
  <2>5. files'["manifest"] = Absent /\ files["manifest"] = Absent
      BY <1>a, <1>b, <1>c, <1>2 DEF Progress, FileAt, WriteOrder, Files
  <2>6. Progress(p)'
    <3>1. CASE proc[p].at = 1
        BY <1>a, <1>b, <1>c, <2>2, <2>3, <2>4, <2>5, <3>1 DEF Progress, FileAt, WriteOrder, Files
    <3>2. CASE proc[p].at = 2
        BY <1>a, <1>b, <1>c, <2>2, <2>3, <2>4, <2>5, <3>2 DEF Progress, FileAt, WriteOrder, Files
    <3>3. CASE proc[p].at = 3
        BY <1>a, <1>b, <1>c, <2>2, <2>3, <2>4, <2>5, <3>3, Distinct DEF Progress, FileAt, WriteOrder, Files
    <3> QED BY <1>a, <1>2, <3>1, <3>2, <3>3
  <2>7. Undisturbed(p)'
      BY <1>a, <1>b, <1>c, <2>2, <2>3, <2>6 DEF Undisturbed, At
  <2>8. \A q \in Procs : Undisturbed(q)'
      BY <1>a, <1>c, <2>3, <2>7, OthersUndisturbed
  <2> QED BY <1>c, <2>5, <2>8, Distinct DEF Quiet
<1> QED BY <1>1, <1>2

-----------------------------------------------------------------------------
\* The bundle until it is removed: the readers.

\* What a reading process has read of a bundle nobody removes is the bundle.
LEMMA ReadSoFar ==
    ASSUME Shape, Quiet, ~removed, NEW p \in Procs, At(p, "read"),
           NEW v \in Readings(ReadOrder[proc[p].at])
    PROVE  LET got == [proc[p].got EXCEPT ![ReadOrder[proc[p].at]] = v] IN
           /\ files["manifest"] \in Contents /\ Complete
           /\ v = files[ReadOrder[proc[p].at]]
           /\ \A i \in 1..4 : i <= proc[p].at => got[ReadOrder[i]] = files[ReadOrder[i]]
<1> DEFINE f == ReadOrder[proc[p].at]
           got == [proc[p].got EXCEPT ![f] = v]
<1>1. /\ proc[p].at \in {1, 2, 3, 4} /\ proc[p].got \in [Files -> Contents \cup {Absent, Torn}]
      /\ files \in [Files -> Contents \cup {Absent, Torn}] /\ f \in Files
      /\ proc[p].at > 1 => Follows(p)
    BY Locals DEF Shape, TypeOK, Quiet, Undisturbed
<1>2. files["manifest"] \in Contents
  <2>1. CASE proc[p].at = 1
      BY <1>1, <2>1 DEF Readings, ReadOrder, Files
  <2> QED BY <1>1, <2>1 DEF Follows
<1>3. Complete
    BY <1>2 DEF Quiet
<1>4. v = files[f]
    BY <1>1, <1>2, <1>3, Distinct DEF Readings, Complete, Whole, ReadOrder, Files
<1>5. \A i \in 1..4 : i <= proc[p].at => got[ReadOrder[i]] = files[ReadOrder[i]]
  <2> SUFFICES ASSUME NEW i \in 1..4, i <= proc[p].at PROVE got[ReadOrder[i]] = files[ReadOrder[i]]
      OBVIOUS
  <2>1. ReadOrder[i] \in Files
    <3>1. i \in {1, 2, 3, 4}
        OBVIOUS
    <3> QED BY <3>1 DEF ReadOrder, Files
  <2>2. CASE ReadOrder[i] = f
      BY <1>1, <1>4, <2>1, <2>2
  <2>3. CASE ReadOrder[i] # f
    <3>1. i < proc[p].at /\ proc[p].at > 1
        BY <1>1, <2>3
    <3>2. proc[p].got[ReadOrder[i]] = files[ReadOrder[i]]
        BY <1>1, <3>1 DEF Follows
    <3> QED BY <1>1, <2>1, <2>3, <3>2
  <2> QED BY <2>2, <2>3
<1> QED BY <1>2, <1>3, <1>4, <1>5

\* Reading fails on the manifest or on the vectors only.
LEMMA ReadFails ==
    ASSUME Shape, Quiet, ~removed, NEW p \in Procs, At(p, "read"), proc[p].op = "ingest",
           files[ReadOrder[proc[p].at]] \in {Torn, Absent},
           Readings(ReadOrder[proc[p].at]) # {files[ReadOrder[proc[p].at]]}
    PROVE  /\ Settled
           /\ \/ files["manifest"] = Torn
              \/ files["embeddings"] = Torn /\ files["manifest"] \in {c \in Contents : c.kind = "silent"}
<1> DEFINE f == ReadOrder[proc[p].at]
<1>1. proc[p].at \in {1, 2, 3, 4} /\ Settled /\ (proc[p].at > 1 => Follows(p))
    BY Locals DEF Quiet, Undisturbed
<1>2. CASE proc[p].at = 1
    BY <1>1, <1>2 DEF ReadOrder, Settled
<1>3. CASE proc[p].at # 1
  <2>1. files["manifest"] \in Contents /\ Complete
      BY <1>1, <1>3 DEF Follows, Quiet
  <2>2. proc[p].at = 4
      BY <1>1, <1>3, <2>1, Distinct DEF ReadOrder, Complete, Whole
  <2>3. files["embeddings"] = Torn
      BY <2>2 DEF ReadOrder, Readings
  <2>4. files["manifest"].kind = "silent"
    <3>1. files["manifest"].kind \in {"full", "bare", "silent"}
        BY <2>1 DEF Contents, Kinds
    <3> QED BY <2>1, <2>3, <3>1, Distinct DEF Complete, Whole
  <2> QED BY <1>1, <2>1, <2>3, <2>4
<1> QED BY <1>2, <1>3

LEMMA QuietReading ==
    ASSUME Shape, Quiet, ~removed', NEW p \in Procs, ReadFile(p)
    PROVE  Quiet'
<1> DEFINE f == ReadOrder[proc[p].at]
<1>a. /\ ~removed /\ At(p, "read") /\ ~At(p, "exit") /\ UNCHANGED files /\ active # p
      /\ proc[p] \in ProcState /\ Undisturbed(p) /\ ~proc[p].open
      /\ proc[p].at \in {1, 2, 3, 4}
      /\ proc[p].got \in [Files -> Contents \cup {Absent, Torn}] /\ f \in Files
      /\ files \in [Files -> Contents \cup {Absent, Torn}]
  <2>1. At(p, "read") /\ ~At(p, "exit") /\ UNCHANGED <<files, removed>>
      BY DEF ReadFile, At
  <2>2. ~removed /\ Undisturbed(p) /\ ~proc[p].open /\ active # p
      BY <2>1 DEF Quiet, Undisturbed, At, Shape, TypeOK
  <2> QED BY <2>1, <2>2, Locals DEF Shape, TypeOK
<1>b. seen[p] # Failed
    BY <1>a, Unread DEF At
<1>1. CASE files[f] \in {Torn, Absent} /\ Readings(f) # {files[f]} /\ Raise(p)
  <2> DEFINE s == [Idle EXCEPT !.pc = "exit", !.op = proc[p].op]
  <2>1. proc' = [proc EXCEPT ![p] = s] /\ seen' = [seen EXCEPT ![p] = Failed] /\ active' = active
      BY <1>1, <1>a DEF Raise, Exit, Become
  <2>2. s \in ProcState /\ s.pc = "exit" /\ s.op = proc[p].op /\ ~s.open
      BY Locals, Fresh
  <2> HIDE DEF s
  <2>3. proc'[p] = s /\ \A q \in Procs \ {p} : proc'[q] = proc[q]
      BY <2>1 DEF Shape
  <2>4. Settled => Settled'
      BY <1>a, <2>2, <2>3 DEF Settled, At
  <2>5. Undisturbed(p)'
    <3>1. proc[p].op = "ingest" =>
            /\ Settled
            /\ \/ files["manifest"] = Torn
               \/ files["embeddings"] = Torn /\ files["manifest"] \in {c \in Contents : c.kind = "silent"}
      <4> HIDE DEF f
      <4>1. files[f] \in {Torn, Absent} /\ Readings(f) # {files[f]}
          BY <1>1
      <4> QED BY <1>a, <4>1, ReadFails DEF f
    <3> QED BY <1>a, <2>2, <2>3, <2>4, <3>1 DEF Undisturbed, At
  <2>6. \A q \in Procs \ {p} : seen'[q] = seen[q]
      BY <2>1 DEF Shape, TypeOK
  <2> QED BY <1>a, <2>1, <2>2, <2>5, <2>6, QuietAfter
<1>2. ASSUME NEW v \in Readings(f), UNCHANGED active,
             LET got == [proc[p].got EXCEPT ![f] = v] IN
                IF proc[p].at < 4
                THEN /\ Become(p, [proc[p] EXCEPT !.at = @ + 1, !.got = got])
                     /\ UNCHANGED seen
                ELSE IF proc[p].op = "load" /\ ~proc[p].validated
                THEN IF Valid(got)
                     THEN /\ Become(p, [Idle EXCEPT !.pc = "read", !.validated = TRUE])
                          /\ UNCHANGED seen
                     ELSE Exit(p) /\ seen' = [seen EXCEPT ![p] = Failed]
                ELSE /\ Exit(p)
                     /\ seen' = [seen EXCEPT ![p] = IF Whole(got) THEN got["manifest"] ELSE Mixed]
      PROVE  Quiet'
  <2> DEFINE got == [proc[p].got EXCEPT ![f] = v]
  <2>1. /\ files["manifest"] \in Contents
        /\ \A i \in 1..4 : i <= proc[p].at => got[ReadOrder[i]] = files[ReadOrder[i]]
      BY <1>a, <1>2, ReadSoFar
  <2>2. got \in [Files -> Contents \cup {Absent, Torn}]
      BY <1>a, <1>2 DEF Readings
  <2>a. Whole(got) => got["manifest"] \in Contents
      BY DEF Whole
  <2> HIDE DEF got
  <2>3. CASE proc[p].at < 4
    <3> DEFINE s == [proc[p] EXCEPT !.at = @ + 1, !.got = got]
    <3>1. proc' = [proc EXCEPT ![p] = s] /\ UNCHANGED seen
        BY <1>2, <2>3 DEF Become, got
    <3>2. proc[p].at + 1 \in 1..4
        BY <1>a, <2>3
    <3>3. s \in ProcState /\ s.pc = proc[p].pc /\ s.at = proc[p].at + 1 /\ s.got = got
          /\ s.op = proc[p].op /\ s.open = proc[p].open
        BY <1>a, <2>2, <3>2 DEF ProcState
    <3> HIDE DEF s
    <3>4. proc'[p] = s /\ \A q \in Procs \ {p} : proc'[q] = proc[q]
        BY <3>1 DEF Shape
    <3>5. Settled => Settled'
        BY <1>a, <3>3, <3>4 DEF Settled, At
    <3>6. Follows(p)'
      <4>1. \A i \in 1..4 : i < proc[p].at + 1 => i <= proc[p].at
          BY <1>a
      <4> QED BY <1>a, <2>1, <3>3, <3>4, <4>1 DEF Follows
    <3>7. Undisturbed(p)'
        BY <1>a, <1>b, <3>1, <3>3, <3>4, <3>5, <3>6 DEF Undisturbed, At
    <3> QED BY <1>a, <1>2, <3>1, <3>3, <3>7, QuietAfter DEF At
  <2>4. CASE /\ Become(p, [Idle EXCEPT !.pc = "read", !.validated = TRUE])
             /\ UNCHANGED seen
    <3> DEFINE s == [Idle EXCEPT !.pc = "read", !.validated = TRUE]
    <3>1. proc' = [proc EXCEPT ![p] = s]
        BY <2>4 DEF Become
    <3>2. s \in ProcState /\ s.pc = "read" /\ s.op = "load" /\ s.at = 1 /\ ~s.open
        BY Fresh
    <3> HIDE DEF s
    <3>3. proc'[p] = s
        BY <3>1 DEF Shape
    <3>4. Undisturbed(p)'
        BY <3>2, <3>3 DEF Undisturbed, At
    <3> QED BY <1>a, <1>2, <2>4, <3>1, <3>2, <3>4, QuietAfter
  <2>5. CASE proc[p].op = "load" /\ Exit(p) /\ seen' = [seen EXCEPT ![p] = Failed]
      BY <1>a, <1>2, <2>5, StopQuiet
  <2>6. CASE Exit(p) /\ seen' = [seen EXCEPT ![p] = IF Whole(got) THEN got["manifest"] ELSE Mixed]
    <3>1. seen'[p] # Failed /\ \A q \in Procs \ {p} : seen'[q] = seen[q]
        BY <2>6, <2>a, Distinct DEF Shape, TypeOK
    <3> QED BY <1>a, <1>2, <2>6, <3>1, StopQuiet
  <2> QED BY <1>2, <2>3, <2>4, <2>5, <2>6 DEF got
<1> QED BY <1>1, <1>2 DEF ReadFile

\* ... and is kept by every step.
LEMMA NextQuiet == Shape /\ Quiet /\ [Next]_vars => Quiet'
<1>1. ASSUME Quiet, UNCHANGED vars
      PROVE  Quiet'
    BY <1>1 DEF vars, Quiet, Undisturbed, Complete, Settled, Follows, Progress, BundleExists,
                AllAbsent, At, Whole, FileAt, Content
<1>2. ASSUME Shape, Quiet, Next
      PROVE  Quiet'
  <2>1. CASE removed'
      BY <2>1 DEF Quiet
  <2>2. CASE ~removed'
      BY <1>2, <2>2, QuietCommands, QuietRmtree, QuietCheck, QuietOpen, QuietClose, QuietReading DEF Next
  <2> QED BY <2>1, <2>2
<1> QED BY <1>1, <1>2

\* The second layer, always.
THEOREM QuietInvariant == Spec => []Quiet
<1> QED BY InitQuiet, NextQuiet, ShapeInvariant, PTL DEF Spec

\* An ingest fails to read a bundle, its own, another's or one left by a killed build, only if somebody
\* started to remove the directory, or a process was killed while it had the manifest open, or the vectors of
\* an earlier build that the rebuild did not replace (write_bundle, core/dataset/bundle.py): for any number of
\* processes and crashes.
THEOREM IngestReads == Spec => []IngestReadsWholeBundle
<1>1. Shape /\ Quiet => IngestReadsWholeBundle
    BY DEF Quiet, Undisturbed, IngestReadsWholeBundle
<1> QED BY <1>1, ShapeInvariant, QuietInvariant, PTL

-----------------------------------------------------------------------------
\* Refinement.

\* What a file that is opened or removed does to the bundle: it is gone or the same.
LEMMA Shrinks ==
    ASSUME files \in [Files -> Contents \cup {Absent, Torn}], NEW f \in Files, NEW x \in {Absent, Torn},
           files' = [files EXCEPT ![f] = x]
    PROVE  Published' \in {Published, NoBundle}
<1>1. SUFFICES ASSUME Whole(files') PROVE Whole(files) /\ files'["manifest"] = files["manifest"]
    BY DEF Published, Whole
<1>2. f = "embeddings"
    BY <1>1, Distinct DEF Whole, Files
<1> QED BY <1>1, <1>2, Distinct DEF Whole, Files

\* What a file that is completed does to it: it appears, or is the same.
LEMMA Grows ==
    ASSUME files \in [Files -> Contents \cup {Absent, Torn}], NEW f \in Files, NEW c \in Contents,
           files[f] = Torn, files' = [files EXCEPT ![f] = c]
    PROVE  \/ Published' = Published
           \/ Published = NoBundle /\ Published' \in Contents
<1>1. CASE Whole(files)
  <2>1. f = "embeddings" /\ files["manifest"].kind # "full"
      BY <1>1, Distinct DEF Whole, Files
  <2> QED BY <1>1, <2>1 DEF Whole, Files, Published
<1>2. CASE ~Whole(files)
    BY <1>2 DEF Published, Whole
<1> QED BY <1>1, <1>2

\* A step that writes no file publishes nothing.
LEMMA Still ==
    ASSUME UNCHANGED files
    PROVE  Published' = Published
BY DEF Published, Whole

\* Reading file by file is, at the last file, one read of the whole bundle or an error.
LEMMA ReadingAtomic ==
    ASSUME Shape, Quiet, NEW p \in Procs, ReadFile(p)
    PROVE  [Atomic!Next]_(Atomic!vars)
<1> DEFINE f == ReadOrder[proc[p].at]
<1>1. UNCHANGED <<files, removed>> /\ Published' = Published /\ At(p, "read")
    BY Still DEF ReadFile
<1>2. CASE Raise(p)
    BY <1>1, <1>2 DEF Raise, Atomic!Next, Atomic!Fail
<1>3. ASSUME NEW v \in Readings(f),
             LET got == [proc[p].got EXCEPT ![f] = v] IN
                IF proc[p].at < 4
                THEN /\ Become(p, [proc[p] EXCEPT !.at = @ + 1, !.got = got])
                     /\ UNCHANGED seen
                ELSE IF proc[p].op = "load" /\ ~proc[p].validated
                THEN IF Valid(got)
                     THEN /\ Become(p, [Idle EXCEPT !.pc = "read", !.validated = TRUE])
                          /\ UNCHANGED seen
                     ELSE Exit(p) /\ seen' = [seen EXCEPT ![p] = Failed]
                ELSE /\ Exit(p)
                     /\ seen' = [seen EXCEPT ![p] = IF Whole(got) THEN got["manifest"] ELSE Mixed]
      PROVE  [Atomic!Next]_(Atomic!vars)
  <2> DEFINE got == [proc[p].got EXCEPT ![f] = v]
             whole == IF Whole(got) THEN got["manifest"] ELSE Mixed
  <2>0. whole \in Contents \cup {Mixed}
      BY DEF Whole
  <2>a. ASSUME ~removed, proc[p].at = 4
        PROVE  Published # NoBundle /\ whole = Published
    <3>1. /\ files["manifest"] \in Contents /\ Complete
          /\ \A i \in 1..4 : i <= proc[p].at => got[ReadOrder[i]] = files[ReadOrder[i]]
        BY <1>1, <1>3, <2>a, ReadSoFar
    <3> HIDE DEF got
    <3>2. /\ got[ReadOrder[1]] = files[ReadOrder[1]] /\ got[ReadOrder[2]] = files[ReadOrder[2]]
          /\ got[ReadOrder[3]] = files[ReadOrder[3]] /\ got[ReadOrder[4]] = files[ReadOrder[4]]
        BY <2>a, <3>1
    <3>3. \A g \in Files : got[g] = files[g]
        BY <3>2 DEF ReadOrder, Files
    <3>4. Whole(files) /\ Whole(got)
        BY <3>1, <3>3 DEF Complete, Whole, Files
    <3> QED BY <3>1, <3>3, <3>4, Distinct DEF Published, Files
  <2> HIDE DEF whole
  <2>1. CASE UNCHANGED seen
      BY <1>1, <2>1 DEF Atomic!vars
  <2>2. CASE seen' = [seen EXCEPT ![p] = Failed]
      BY <1>1, <2>2 DEF Atomic!Next, Atomic!Fail
  <2>3. CASE proc[p].at = 4 /\ seen' = [seen EXCEPT ![p] = whole]
    <3>1. CASE removed
        BY <1>1, <2>0, <2>3, <3>1 DEF Atomic!Next, Atomic!Read
    <3>2. CASE ~removed
        BY <1>1, <2>a, <2>3, <3>2 DEF Atomic!Next, Atomic!Read
    <3> QED BY <3>1, <3>2
  <2>4. proc[p].at \in 1..4
      BY Locals
  <2> QED BY <1>3, <2>1, <2>2, <2>3, <2>4 DEF whole
<1> QED BY <1>2, <1>3 DEF ReadFile

\* Every step is a step of AtomicBundle or changes nothing there.
LEMMA StepAtomic ==
    ASSUME Shape, Quiet, [Next]_vars
    PROVE  [Atomic!Next]_(Atomic!vars)
<1>a. files \in [Files -> Contents \cup {Absent, Torn}] /\ removed \in BOOLEAN
    BY DEF Shape, TypeOK
<1>b. ASSUME UNCHANGED <<files, seen, removed>>
      PROVE  UNCHANGED Atomic!vars
    BY <1>b, Still DEF Atomic!vars
<1>c. ASSUME UNCHANGED <<files, seen>>, removed'
      PROVE  [Atomic!Next]_(Atomic!vars)
    BY <1>a, <1>c, Still DEF Atomic!vars, Atomic!Next, Atomic!Disturb
<1>d. ASSUME NEW p \in Procs, Raise(p), UNCHANGED <<files, removed>>
      PROVE  [Atomic!Next]_(Atomic!vars)
    BY <1>d, Still DEF Raise, Atomic!Next, Atomic!Fail
<1>1. ASSUME NEW p \in Procs, NEW op \in Ops[p], Build(p, op)
      PROVE  [Atomic!Next]_(Atomic!vars)
    BY <1>1, <1>b, <1>c DEF Build, StartRmtree
<1>2. ASSUME NEW p \in Procs, Purge(p)
      PROVE  [Atomic!Next]_(Atomic!vars)
    BY <1>2, <1>b, <1>c DEF Purge, StartRmtree
<1>3. ASSUME NEW p \in Procs, Load(p) \/ CreateJob(p) \/ CheckBundle(p) \/ Finish(p) \/ Crash(p)
      PROVE  [Atomic!Next]_(Atomic!vars)
    BY <1>3, <1>b DEF Load, CreateJob, CheckBundle, Finish, Crash
<1>4. ASSUME NEW p \in Procs, Unlink(p)
      PROVE  [Atomic!Next]_(Atomic!vars)
  <2>1. removed /\ UNCHANGED removed
      BY <1>4 DEF Unlink, Quiet, Undisturbed
  <2>2. PICK f \in proc[p].listed :
            IF files[f] = Absent THEN Raise(p) /\ UNCHANGED files
            ELSE /\ files' = [files EXCEPT ![f] = Absent]
                 /\ Become(p, [proc[p] EXCEPT !.listed = @ \ {f}])
                 /\ UNCHANGED <<active, seen>>
      BY <1>4 DEF Unlink
  <2>3. CASE files[f] = Absent
      BY <1>d, <2>1, <2>2, <2>3
  <2>4. CASE files[f] # Absent
    <3>1. f \in Files
        BY Locals
    <3>2. Published' \in {Published, NoBundle} /\ UNCHANGED seen
        BY <1>a, <2>2, <2>4, <3>1, Shrinks
    <3> QED BY <2>1, <3>2 DEF Atomic!vars, Atomic!Next, Atomic!Remove
  <2> QED BY <2>3, <2>4
<1>5. ASSUME NEW p \in Procs, Rmdir(p)
      PROVE  [Atomic!Next]_(Atomic!vars)
    BY <1>5, <1>b, <1>d DEF Rmdir
<1>6. ASSUME NEW p \in Procs, OpenFile(p)
      PROVE  [Atomic!Next]_(Atomic!vars)
  <2>1. UNCHANGED removed
      BY <1>6 DEF OpenFile
  <2>2. CASE UNCHANGED <<files, seen>>
      BY <1>b, <2>1, <2>2
  <2>3. CASE Raise(p) /\ UNCHANGED files
      BY <1>d, <2>1, <2>3
  <2>4. CASE files' = [files EXCEPT ![FileAt(p)] = Torn] /\ UNCHANGED seen
    <3>1. Published' \in {Published, NoBundle}
        BY <1>a, <2>4, Locals, Shrinks
    <3>2. ~removed => Published = NoBundle
      <4>1. At(p, "write")
          BY <1>6 DEF OpenFile
      <4> QED BY <4>1, NobodyElse DEF Published, Whole
    <3> QED BY <2>1, <2>4, <3>1, <3>2 DEF Atomic!vars, Atomic!Next, Atomic!Remove
  <2> QED BY <1>6, <2>2, <2>3, <2>4 DEF OpenFile
<1>7. ASSUME NEW p \in Procs, CloseFile(p)
      PROVE  [Atomic!Next]_(Atomic!vars)
  <2>1. UNCHANGED <<seen, removed>>
      BY <1>7 DEF CloseFile
  <2>2. CASE files[FileAt(p)] # Torn
      BY <1>7, <1>b, <2>1, <2>2 DEF CloseFile
  <2>3. CASE files[FileAt(p)] = Torn
    <3>1. files' = [files EXCEPT ![FileAt(p)] = Content(p)]
        BY <1>7, <2>3 DEF CloseFile
    <3>2. \/ Published' = Published
          \/ Published = NoBundle /\ Published' \in Contents
        BY <1>a, <2>3, <3>1, Locals, Grows
    <3> QED BY <2>1, <3>2 DEF Atomic!vars, Atomic!Next, Atomic!Publish
  <2> QED BY <2>2, <2>3
<1>8. CASE UNCHANGED vars
    BY <1>8, <1>b DEF vars
<1> QED BY <1>1, <1>2, <1>3, <1>4, <1>5, <1>6, <1>7, <1>8, ReadingAtomic DEF Next

\* write_bundle and read_bundle, file by file, implement a bundle that appears at once, is never rewritten and is
\* read as of one moment, until somebody starts to remove the directory (core/dataset/bundle.py).
THEOREM ImplementsAtomic == Spec => ImplementsAtomicBundle
<1>1. Init => Atomic!Init
  <2> SUFFICES ASSUME Init PROVE Atomic!Init
      OBVIOUS
  <2>1. files["manifest"] \notin Contents
      BY Distinct DEF Init, Files
  <2>2. Published = NoBundle
      BY <2>1 DEF Published, Whole
  <2> QED BY <2>2 DEF Init, Atomic!Init
<1>2. Shape /\ Quiet /\ [Next]_vars => [Atomic!Next]_(Atomic!vars)
    BY StepAtomic
<1> QED BY <1>1, <1>2, ShapeInvariant, QuietInvariant, PTL DEF Spec, ImplementsAtomicBundle, Atomic!Spec

=============================================================================
