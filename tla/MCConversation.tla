--------------------------- MODULE MCConversation ---------------------------
(* Model-checking instance of Conversation: two datetimes, and answers of  *)
(* check_availability with one or two of them.                             *)
EXTENDS Conversation

CONSTANTS d1, d2

Slots == {d1, d2}
SlotLists == {<<d1>>, <<d1, d2>>}
=============================================================================
