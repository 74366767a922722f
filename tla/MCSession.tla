------------------------------- MODULE MCSession -------------------------------
(* Three channels, one of them with its voice switched off, and two chats. *)
EXTENDS Session

MCChannels == {"a", "b", "c"}
MCVoiced == {"a", "b"}
=============================================================================
