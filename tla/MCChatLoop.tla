----------------------------- MODULE MCChatLoop -----------------------------
(* Small instances of the chat loop for TLC. *)
EXTENDS ChatLoop

CONSTANTS c1, c2, s1

MCTwo == {c1, c2}
MCSource == {s1}
=============================================================================
