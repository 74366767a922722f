------------------------------ MODULE MCBranding ------------------------------
(* One channel, two browser sessions, the command and a worker's jobs. *)
EXTENDS Branding, TLC

CONSTANTS s1, s2, cli, job
MCSessions == {s1, s2}
MCClis == {cli}
MCJobs == {job}
MCSymmetry == Permutations(MCSessions)
=============================================================================
