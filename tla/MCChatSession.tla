--------------------------- MODULE MCChatSession ---------------------------
(* ChatSession with its bounds given by the configurations. *)
EXTENDS ChatSession
=============================================================================
