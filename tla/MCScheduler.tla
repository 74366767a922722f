------------------------------ MODULE MCScheduler ------------------------------
(* Two workers and two channels, one of which is due a unit later (jitter). *)
EXTENDS Scheduler

MCWorkers == {"w1", "w2"}
MCChannels == {"c1", "c2"}
MCJitter == [c \in MCChannels |-> IF c = "c1" THEN 0 ELSE 1]
=============================================================================
