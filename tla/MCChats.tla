------------------------------- MODULE MCChats -------------------------------
(* TLC instance of Chats. Channels, chats, turns and deleting sessions are   *)
(* interchangeable: no property names one of them.                           *)
EXTENDS Chats, TLC

Symmetry == Permutations(Channels) \cup Permutations(Chats)
            \cup Permutations(Turns) \cup Permutations(Deleters)
=============================================================================
