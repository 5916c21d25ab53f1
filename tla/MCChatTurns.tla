---------------------------- MODULE MCChatTurns -----------------------------
(* Instances of ChatTurns for TLC. *)
EXTENDS ChatTurns
=============================================================================
