----------------------------- MODULE AtomicBundle -----------------------------
(***************************************************************************)
(* What a bundle directory promises to its users (the module docstring of  *)
(* core/dataset/bundle.py calls the bundle "the canonical, portable        *)
(* interchange format"): there is one whole bundle or none, it appears at  *)
(* once, it is not rewritten in place, and a reader gets the bundle of one *)
(* moment or an error.  The promise to readers ends when somebody starts   *)
(* to remove the directory.                                                *)
(***************************************************************************)
CONSTANTS Readers, Contents, NoBundle,
          Failed,   \* what a reader is left with after an error
          Mixed     \* what a reader is left with that no build ever wrote

VARIABLES bundle,     \* Contents or NoBundle
          seen,       \* [Readers -> Contents, NoBundle (nothing yet), Failed or Mixed]
          disturbed   \* whether anybody ever started to remove the directory

vars == <<bundle, seen, disturbed>>

Init ==
    /\ bundle = NoBundle
    /\ seen = [r \in Readers |-> NoBundle]
    /\ disturbed = FALSE

Publish(c) ==
    /\ bundle = NoBundle
    /\ bundle' = c
    /\ UNCHANGED <<seen, disturbed>>

Disturb == ~disturbed /\ disturbed' = TRUE /\ UNCHANGED <<bundle, seen>>

Remove ==
    /\ disturbed
    /\ bundle # NoBundle
    /\ bundle' = NoBundle
    /\ UNCHANGED <<seen, disturbed>>

Read(r) ==
    /\ \/ bundle # NoBundle /\ seen' = [seen EXCEPT ![r] = bundle]
       \/ disturbed /\ \E c \in Contents \cup {Mixed} : seen' = [seen EXCEPT ![r] = c]
    /\ UNCHANGED <<bundle, disturbed>>

Fail(r) == seen' = [seen EXCEPT ![r] = Failed] /\ UNCHANGED <<bundle, disturbed>>

Next ==
    \/ \E c \in Contents : Publish(c)
    \/ Disturb \/ Remove
    \/ \E r \in Readers : Read(r) \/ Fail(r)

Spec == Init /\ [][Next]_vars
=============================================================================
