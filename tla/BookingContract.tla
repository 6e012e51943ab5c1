-------------------------- MODULE BookingContract --------------------------
(***************************************************************************)
(* What the booking saga promises to the conversation that calls it and to *)
(* the merchant who reads the feed, with no attempt, retry or timeout in   *)
(* sight: a booking is reserved at most once and released at most once,    *)
(* each only on behalf of a saga, the merchant reads of nothing that did   *)
(* not happen, and the answer the caller gets matches both stores.         *)
(***************************************************************************)
CONSTANT Booking

VARIABLES
  row,      \* booking -> "none" | "confirmed" | "cancelled"
  feed,     \* entries the merchant can read
  told,     \* booking -> last answer the caller got
  busy,     \* bookings a saga is working on
  aborted   \* bookings whose saga died without an answer

vars == <<row, feed, told, busy, aborted>>

Init ==
  /\ row = [b \in Booking |-> "none"]
  /\ feed = {}
  /\ told = [b \in Booking |-> "none"]
  /\ busy = {}
  /\ aborted = {}

Ask(b) ==
  /\ b \notin busy
  /\ busy' = busy \union {b}
  /\ UNCHANGED <<row, feed, told, aborted>>

(* On behalf of a saga: one at work, or one that died in the middle.       *)
Owned(b) == b \in busy \union aborted

Reserve(b) ==
  /\ Owned(b) /\ row[b] = "none"
  /\ row' = [row EXCEPT ![b] = "confirmed"]
  /\ UNCHANGED <<feed, told, busy, aborted>>

Release(b) ==
  /\ Owned(b) /\ row[b] = "confirmed"
  /\ row' = [row EXCEPT ![b] = "cancelled"]
  /\ UNCHANGED <<feed, told, busy, aborted>>

Announce(b) ==
  /\ row[b] # "none"
  /\ feed' = feed \union {<<b, "booking_confirmed">>}
  /\ UNCHANGED <<row, told, busy, aborted>>

AnnounceRelease(b) ==
  /\ row[b] = "cancelled"
  /\ feed' = feed \union {<<b, "booking_compensated">>}
  /\ UNCHANGED <<row, told, busy, aborted>>

Answer(b, status) ==
  /\ b \in busy
  /\ \/ status = "confirmed" /\ <<b, "booking_confirmed">> \in feed
     \/ status = "compensated" /\ row[b] = "cancelled"
  /\ told' = [told EXCEPT ![b] = status]
  /\ busy' = busy \ {b}
  /\ UNCHANGED <<row, feed, aborted>>

Abort(b) ==
  /\ b \in busy
  /\ busy' = busy \ {b}
  /\ aborted' = aborted \union {b}
  /\ UNCHANGED <<row, feed, told>>

Next ==
  \E b \in Booking :
    \/ Ask(b) \/ Reserve(b) \/ Release(b)
    \/ Announce(b) \/ AnnounceRelease(b)
    \/ \E status \in {"confirmed", "compensated"} : Answer(b, status)
    \/ Abort(b)

Spec == Init /\ [][Next]_vars
=============================================================================
