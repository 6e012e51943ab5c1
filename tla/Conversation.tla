---------------------------- MODULE Conversation ----------------------------
(***************************************************************************)
(* The ConversationWorkflow of one chat session (workflows/session.py).    *)
(* Signals append to the inbox at any moment; the main loop takes one      *)
(* message at a time and drives it through a pipeline of micro-agent       *)
(* calls, each of which is an await, so any number of messages, or a       *)
(* close, can arrive in the middle of a turn.  The model keeps the await   *)
(* points, the open offer and the order in which they are used; what the   *)
(* language model makes of a text is a free choice.                        *)
(***************************************************************************)
EXTENDS Naturals, Sequences, Functions

CONSTANTS
  Slot,         \* ISO datetimes
  NoSlot,       \* a text that mentions no datetime
  SlotList,     \* answers of check_availability that hold a slot
  MaxMessages,  \* bound: messages sent to one run
  MaxRuns       \* bound: runs of the workflow id

ASSUME ConversationAssumption ==
  /\ NoSlot \notin Slot
  /\ SlotList \subseteq Seq(Slot) \ {<<>>}
  /\ MaxMessages \in Nat
  /\ MaxRuns \in Nat \ {0}

VARIABLES
  inbox,       \* texts signalled and not yet handled
  closed,      \* _closed
  at,          \* where the run is: "idle" in wait_condition, an awaited
               \* call, or how it ended
  turn,        \* the text being handled
  pending,     \* the open offer, numbered in the order offers were made
  chosen,      \* chosen_slot of the saga being awaited
  candidates,  \* number of the say that showed _last_candidates, 0 if none
  users,       \* replies of role "user" pushed by this run
  says,        \* replies of role "say" pushed by this run
  run,         \* runs started so far under the workflow id
  offers,      \* history: slot lists offered, over all runs
  withdrawn,   \* history: offers the user cancelled
  booked       \* history: what confirmed sagas booked, in order

input == <<inbox, closed, users>>
session == <<pending, chosen, candidates, says>>
history == <<offers, withdrawn, booked>>
vars == <<input, at, turn, session, run, history>>

-----------------------------------------------------------------------------
Message == Slot \union {NoSlot}
Intent == {"lookup", "question", "confirm", "cancel", "smalltalk"}
Await == {"classify", "resolve", "availability", "enquiry", "saga", "synthesize"}
Over == {"returned", "failed"}

NoOffer == [id |-> 0, slots |-> <<>>]
HasOffer == pending # NoOffer

(* Mistake: the datetime of the text is booked without being checked.      *)
TrustText(text, offered) == text

(* The first offered slot unless the text names one that is offered.       *)
PickSlot(text, offered) == IF text \in Range(offered) THEN text ELSE offered[1]

Init ==
  /\ inbox = <<>>
  /\ closed = FALSE
  /\ at = "idle"
  /\ turn = NoSlot
  /\ pending = NoOffer
  /\ chosen = NoSlot
  /\ candidates = 0
  /\ users = 0
  /\ says = 0
  /\ run = 1
  /\ offers = <<>>
  /\ withdrawn = {}
  /\ booked = <<>>

-----------------------------------------------------------------------------
(* Signals.  One that finds _closed set is dropped without a trace.        *)

UserMessage(text) ==
  /\ at \notin Over
  /\ ~closed
  /\ users < MaxMessages
  /\ users' = users + 1
  /\ inbox' = Append(inbox, text)
  /\ UNCHANGED <<closed, at, turn, session, run, history>>

Close ==
  /\ at \notin Over
  /\ ~closed
  /\ closed' = TRUE
  /\ UNCHANGED <<inbox, users, at, turn, session, run, history>>

-----------------------------------------------------------------------------
(* The main loop.                                                          *)

TakeMessage ==
  /\ at = "idle"
  /\ ~closed
  /\ inbox # <<>>
  /\ turn' = Head(inbox)
  /\ inbox' = Tail(inbox)
  /\ at' = "classify"
  /\ UNCHANGED <<closed, users, session, run, history>>

(* 24 hours without a message.                                             *)
IdleTimeout ==
  /\ at = "idle"
  /\ ~closed
  /\ inbox = <<>>
  /\ closed' = TRUE
  /\ at' = "returned"
  /\ UNCHANGED <<inbox, users, turn, session, run, history>>

LeaveLoop ==
  /\ at = "idle"
  /\ closed
  /\ at' = "returned"
  /\ UNCHANGED <<input, turn, session, run, history>>

-----------------------------------------------------------------------------
(* One turn.                                                               *)

(* While an offer is open, a text with a datetime in it is a confirmation, *)
(* whatever the classifier made of it: `chosen in slots` holds of the      *)
(* fallback slot too.                                                      *)
Overridden(intent) == IF HasOffer /\ turn # NoSlot THEN "confirm" ELSE intent

GoTo(next) ==
  /\ at' = next
  /\ UNCHANGED <<input, turn, session, run, history>>

BeginSaga ==
  /\ at' = "saga"
  /\ chosen' = PickSlot(turn, pending.slots)
  /\ UNCHANGED <<input, turn, pending, candidates, says, run, history>>

(* Mistake: the cancel is acknowledged but the offer stays open.           *)
AcknowledgeCancel ==
  /\ at' = "synthesize"
  /\ withdrawn' = IF HasOffer THEN withdrawn \union {pending.id} ELSE withdrawn
  /\ UNCHANGED <<input, turn, session, run, offers, booked>>

HandleCancel ==
  /\ at' = "synthesize"
  /\ pending' = NoOffer
  /\ withdrawn' = IF HasOffer THEN withdrawn \union {pending.id} ELSE withdrawn
  /\ UNCHANGED <<input, turn, chosen, candidates, says, run, offers, booked>>

Classified(intent) ==
  /\ at = "classify"
  /\ LET kind == Overridden(intent) IN
     \/ kind = "lookup" /\ GoTo("resolve")
     \/ kind = "question" /\ GoTo("enquiry")
     \/ kind = "confirm" /\ HasOffer /\ BeginSaga
     \/ kind = "confirm" /\ ~HasOffer /\ GoTo("synthesize")
     \/ kind = "cancel" /\ HandleCancel
     \/ kind = "smalltalk" /\ GoTo("synthesize")

(* Mistake: an ambiguous match is classified again instead of being shown. *)
ReclassifyAmbiguous(single) ==
  /\ at = "resolve"
  /\ GoTo(IF single THEN "availability" ELSE "classify")

(* Availability is asked only for a single confident match.                *)
Resolved(single) ==
  /\ at = "resolve"
  /\ GoTo(IF single THEN "availability" ELSE "synthesize")

NoAvailability ==
  /\ at = "availability"
  /\ GoTo("synthesize")

(* Mistake: an open offer is not replaced by a newer one.                  *)
KeepFirstOffer(slots) ==
  /\ at = "availability"
  /\ at' = "synthesize"
  /\ offers' = Append(offers, slots)
  /\ pending' = IF HasOffer THEN pending ELSE [id |-> Len(offers) + 1, slots |-> slots]
  /\ UNCHANGED <<input, turn, chosen, candidates, says, run, withdrawn, booked>>

OfferSlots(slots) ==
  /\ at = "availability"
  /\ at' = "synthesize"
  /\ offers' = Append(offers, slots)
  /\ pending' = [id |-> Len(offers) + 1, slots |-> slots]
  /\ UNCHANGED <<input, turn, chosen, candidates, says, run, withdrawn, booked>>

(* _finalize_say: the one user-facing reply, and the candidates it shows.  *)
FinalizeSay(showsCandidates) ==
  /\ at' = "idle"
  /\ says' = says + 1
  /\ candidates' = IF showsCandidates THEN says + 1 ELSE 0
  /\ UNCHANGED <<input, turn, pending, chosen, run, history>>

(* Mistakes: the answer is pushed without the end-of-turn bookkeeping, or  *)
(* the synthesizer speaks after the answer as well.                        *)
SayWithoutFinalize(say) ==
  /\ at = "enquiry"
  /\ at' = IF say THEN "idle" ELSE "synthesize"
  /\ says' = IF say THEN says + 1 ELSE says
  /\ UNCHANGED <<input, turn, pending, chosen, candidates, run, history>>

SayAndSynthesize(say) ==
  /\ at = "enquiry"
  /\ at' = "synthesize"
  /\ says' = IF say THEN says + 1 ELSE says
  /\ UNCHANGED <<input, turn, pending, chosen, candidates, run, history>>

EnquiryAnswered(say) ==
  /\ at = "enquiry"
  /\ \/ say /\ FinalizeSay(FALSE)
     \/ ~say /\ GoTo("synthesize")

(* Mistake: a confirmed offer stays open.                                  *)
KeepConfirmedOffer(status) ==
  /\ at = "saga"
  /\ at' = "synthesize"
  /\ booked' = IF status = "confirmed"
                 THEN Append(booked, [offer |-> pending.id, slot |-> chosen]) ELSE booked
  /\ UNCHANGED <<input, turn, session, run, offers, withdrawn>>

(* run_booking_saga answers; only a confirmed booking consumes the offer.  *)
SagaReturned(status) ==
  /\ at = "saga"
  /\ at' = "synthesize"
  /\ IF status = "confirmed"
       THEN /\ pending' = NoOffer
            /\ booked' = Append(booked, [offer |-> pending.id, slot |-> chosen])
       ELSE UNCHANGED <<pending, booked>>
  /\ UNCHANGED <<input, turn, chosen, candidates, says, run, offers, withdrawn>>

(* Also what the fallback reply does when the synthesizer raises.          *)
Synthesized(showsCandidates) ==
  /\ at = "synthesize"
  /\ FinalizeSay(showsCandidates)

(* Another activity, or the saga, raises: nothing catches it.              *)
ActivityRaised ==
  /\ at \in Await \ {"synthesize"}
  /\ GoTo("failed")

(* The next connection starts a run under the same id, with empty state.   *)
Restart ==
  /\ at \in Over
  /\ run < MaxRuns
  /\ run' = run + 1
  /\ inbox' = <<>> /\ closed' = FALSE /\ users' = 0
  /\ at' = "idle" /\ turn' = NoSlot
  /\ pending' = NoOffer /\ chosen' = NoSlot /\ candidates' = 0 /\ says' = 0
  /\ UNCHANGED history

-----------------------------------------------------------------------------
(* What the run does by itself: each awaited call answers or raises, since *)
(* its timeout and its retry policy are finite.                            *)
WorkflowStep ==
  \/ TakeMessage
  \/ LeaveLoop
  \/ \E intent \in Intent : Classified(intent)
  \/ \E single \in BOOLEAN : Resolved(single)
  \/ NoAvailability
  \/ \E slots \in SlotList : OfferSlots(slots)
  \/ \E say \in BOOLEAN : EnquiryAnswered(say)
  \/ \E status \in {"confirmed", "compensated", "failed"} : SagaReturned(status)
  \/ \E shows \in BOOLEAN : Synthesized(shows)
  \/ ActivityRaised

Quiescent == at \in Over /\ run = MaxRuns /\ UNCHANGED vars

Next ==
  \/ \E text \in Message : UserMessage(text)
  \/ Close
  \/ IdleTimeout
  \/ WorkflowStep
  \/ Restart
  \/ Quiescent

Spec == Init /\ [][Next]_vars

FairSpec == Spec /\ WF_vars(WorkflowStep)

-----------------------------------------------------------------------------
TypeOK ==
  /\ inbox \in Seq(Message)
  /\ closed \in BOOLEAN
  /\ at \in Await \union Over \union {"idle"}
  /\ turn \in Message
  /\ pending \in [id : Nat, slots : SlotList \union {<<>>}]
  /\ chosen \in Message
  /\ candidates \in Nat /\ users \in Nat /\ says \in Nat /\ run \in Nat
  /\ offers \in Seq(SlotList)
  /\ withdrawn \subseteq Nat
  /\ booked \in Seq([offer : Nat, slot : Slot])

(* Every text the run accepted is in the inbox, being handled (or was when *)
(* the run failed), or answered by exactly one say: no branch of the turn  *)
(* speaks twice or not at all (session.py l.206-219).                      *)
Unanswered == IF at \in Await \union {"failed"} THEN 1 ELSE 0
OneSayPerTurn == users = says + Len(inbox) + Unanswered

(* An offer is booked at most once, however many confirmations of it are   *)
(* queued (a double click on a slot button): bookings are of ever later    *)
(* offers.                                                                 *)
OfferBookedOnce ==
  \A i, j \in DOMAIN booked : i < j => booked[i].offer < booked[j].offer

(* Only the offer made last is ever booked: a confirmation that waited in  *)
(* the inbox while a lookup replaced the offer does not book the old one.  *)
OnlyNewestOffer ==
  [][Len(booked') > Len(booked) => booked'[Len(booked')].offer = Len(offers)]_vars

(* A booked slot is one that check_availability returned for that offer,   *)
(* whatever datetime the text names.                                       *)
BookedWasOffered ==
  \A i \in DOMAIN booked :
    /\ booked[i].offer \in DOMAIN offers
    /\ booked[i].slot \in Range(offers[booked[i].offer])

(* An offer the user cancelled is never booked afterwards, by no queued or *)
(* later confirmation.                                                     *)
WithdrawnIsNotBooked ==
  \A i \in DOMAIN booked : booked[i].offer \notin withdrawn

(* "the second one" is resolved against the say the user saw last, or not  *)
(* at all: no older list of candidates survives a turn (l.382-389).        *)
OrdinalsAreFresh == candidates \in {0, says}

(* Every text in the inbox is answered, unless the run is over: no turn is *)
(* stuck, whatever the micro-agents answer.                                *)
EveryMessageAnswered ==
  inbox # <<>> ~> (inbox = <<>> /\ at = "idle") \/ at \in Over

-----------------------------------------------------------------------------
(* The inductive strengthening: the open offer is the newest one and is    *)
(* neither booked nor cancelled, and a saga works on it.                   *)
OfferInv ==
  /\ HasOffer => /\ pending.id = Len(offers)
                 /\ offers # <<>>
                 /\ pending.slots = offers[pending.id]
                 /\ pending.id \notin withdrawn
                 /\ \A i \in DOMAIN booked : booked[i].offer < pending.id
  /\ at = "saga" => HasOffer /\ chosen \in Range(pending.slots)
  /\ \A k \in withdrawn : k \in DOMAIN offers

(* OfferInv with what it supports.                                         *)
ConversationInv ==
  /\ OfferInv
  /\ OneSayPerTurn
  /\ OfferBookedOnce
  /\ BookedWasOffered
  /\ WithdrawnIsNotBooked
  /\ OrdinalsAreFresh

-----------------------------------------------------------------------------
(* The first offered slot is booked only when the text names no datetime   *)
(* (the comment at session.py l.318-320).                                  *)
BookedWasAsked == at = "saga" /\ turn \in Slot => chosen = turn

=============================================================================
