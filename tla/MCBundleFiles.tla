---------------------------- MODULE MCBundleFiles ----------------------------
(* TLC instances of BundleFiles. *)
EXTENDS BundleFiles, TLC

CONSTANTS p1, p2, p3

\* An ingest (or a build) beside another that may force, and a loader or a purge.
MCOps == p1 :> {"ingest", "build"} @@ p2 :> {"build", "force"} @@ p3 :> {"load", "purge"}
=============================================================================
