--------------------------- MODULE MCIngestPipeline ---------------------------
(* TLC instances of IngestPipeline: one channel that can be named by its      *)
(* handle h or by a URL u, which default_bundle_dir maps to one directory.    *)
EXTENDS IngestPipeline, TLC

CONSTANTS c1, h, u, v1, w1, w2, x1, slug

MCResolves == [i \in Inputs |-> c1]
MCHandle == [c \in Channels |-> h]
MCSlug == [i \in Inputs |-> slug]

\* The listing names all videos at once.
WholeListing == [c \in Channels |-> {Videos}]

\* Sound where no worker is told from another (Sluggish is empty).
Symmetry == Permutations(Workers)

NoFaults == [crash |-> 0, fault |-> 0, retry |-> 0, delete |-> 0]
OneCrash == [NoFaults EXCEPT !.crash = 1]
CrashFault == [NoFaults EXCEPT !.crash = 1, !.fault = 1]
OneOfEach == [crash |-> 1, fault |-> 1, retry |-> 1, delete |-> 1]
=============================================================================
