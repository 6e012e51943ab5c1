--------------------------- MODULE MCChatChannel ---------------------------
(* Model-checking instance of ChatChannel: numbers only.                   *)
EXTENDS ChatChannel
=============================================================================
