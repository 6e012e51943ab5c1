------------------------ MODULE ConversationProofs ------------------------
(***************************************************************************)
(* The safety properties of Conversation, for any slots, any answers of    *)
(* the micro-agents and any bounds.                                        *)
(***************************************************************************)
EXTENDS Conversation, TLAPS

(* What is picked from a non-empty offer is one of its slots.              *)
LEMMA PickSlotOffered ==
  ASSUME NEW text \in Message, NEW offered \in Seq(Slot) \ {<<>>}
  PROVE  /\ PickSlot(text, offered) \in Range(offered)
         /\ PickSlot(text, offered) \in Slot
  <1>1. 1 \in DOMAIN offered
    OBVIOUS
  <1>2. Range(offered) \subseteq Slot
    BY DEF Range
  <1>3. offered[1] \in Range(offered)
    BY <1>1 DEF Range
  <1> QED BY <1>2, <1>3 DEF PickSlot

(* An open offer has slots.                                                *)
LEMMA OpenOfferHasSlots ==
  ASSUME TypeOK, OfferInv, HasOffer
  PROVE  /\ pending.slots \in SlotList
         /\ pending.slots \in Seq(Slot) \ {<<>>}
         /\ pending.id \in DOMAIN offers
  <1>1. pending.id \in DOMAIN offers /\ pending.slots = offers[pending.id]
    BY DEF OfferInv, TypeOK
  <1> QED BY <1>1, ConversationAssumption DEF TypeOK

(* What "no offer" is made of.                                             *)
LEMMA NoOfferType == NoOffer \in [id : Nat, slots : SlotList \union {<<>>}]
  BY DEF NoOffer

(* A fresh run satisfies everything.                                       *)
LEMMA ConversationInit == Init => TypeOK /\ ConversationInv
  <1> SUFFICES ASSUME Init PROVE TypeOK /\ ConversationInv
    OBVIOUS
  <1>1. TypeOK
    <2>1. inbox \in Seq(Message) /\ offers \in Seq(SlotList)
          /\ booked \in Seq([offer : Nat, slot : Slot])
      BY DEF Init
    <2>2. pending \in [id : Nat, slots : SlotList \union {<<>>}]
      BY NoOfferType DEF Init
    <2> QED BY <2>1, <2>2 DEF Init, TypeOK, Message
  <1>2. OfferInv
    BY DEF Init, OfferInv, HasOffer
  <1>3. OneSayPerTurn /\ OrdinalsAreFresh
    BY DEF Init, OneSayPerTurn, Unanswered, OrdinalsAreFresh, Await
  <1>4. OfferBookedOnce /\ BookedWasOffered /\ WithdrawnIsNotBooked
    BY DEF Init, OfferBookedOnce, BookedWasOffered, WithdrawnIsNotBooked
  <1> QED BY <1>1, <1>2, <1>3, <1>4 DEF ConversationInv

-----------------------------------------------------------------------------
(* Type correctness, action by action.                                     *)
LEMMA TypeStep ==
  ASSUME TypeOK, OfferInv, [Next]_vars
  PROVE  TypeOK'
  <1> USE DEF TypeOK, input, session, history
  <1>1. ASSUME NEW text \in Message, UserMessage(text) PROVE TypeOK'
    BY <1>1 DEF UserMessage
  <1>2. CASE Close
    BY <1>2 DEF Close
  <1>3. CASE IdleTimeout \/ LeaveLoop
    BY <1>3 DEF IdleTimeout, LeaveLoop, Over
  <1>4. CASE TakeMessage
    <2>1. Head(inbox) \in Message /\ Tail(inbox) \in Seq(Message)
      BY <1>4 DEF TakeMessage
    <2> QED BY <1>4, <2>1 DEF TakeMessage, Await
  <1>5. ASSUME NEW next \in Await \union {"failed"}, GoTo(next) PROVE TypeOK'
    BY <1>5 DEF GoTo, Await, Over
  <1>6. ASSUME NEW shows \in BOOLEAN, FinalizeSay(shows) PROVE TypeOK'
    BY <1>6 DEF FinalizeSay
  <1>7. CASE HasOffer /\ BeginSaga
    <2>1. PickSlot(turn, pending.slots) \in Message
      BY <1>7, OpenOfferHasSlots, PickSlotOffered DEF Message
    <2> QED BY <1>7, <2>1 DEF BeginSaga, Await
  <1>8. CASE HandleCancel
    BY <1>8, NoOfferType DEF HandleCancel, Await
  <1>9. ASSUME NEW slots \in SlotList, OfferSlots(slots) PROVE TypeOK'
    <2>1. /\ offers' \in Seq(SlotList)
          /\ pending' \in [id : Nat, slots : SlotList \union {<<>>}]
      BY <1>9 DEF OfferSlots
    <2> QED BY <1>9, <2>1 DEF OfferSlots, Await
  <1>10. ASSUME NEW status, SagaReturned(status) PROVE TypeOK'
    <2>1. CASE status = "confirmed"
      <3>1. chosen \in Slot
        BY <1>10, OpenOfferHasSlots DEF SagaReturned, OfferInv, Range
      <3>2. [offer |-> pending.id, slot |-> chosen] \in [offer : Nat, slot : Slot]
        BY <3>1
      <3>3. booked' \in Seq([offer : Nat, slot : Slot])
        <4>1. booked' = Append(booked, [offer |-> pending.id, slot |-> chosen])
          BY <1>10, <2>1 DEF SagaReturned
        <4> HIDE DEF TypeOK
        <4>2. booked \in Seq([offer : Nat, slot : Slot])
          BY DEF TypeOK
        <4> QED BY <3>2, <4>1, <4>2
      <3> QED BY <1>10, <2>1, <3>3, NoOfferType DEF SagaReturned, Await
    <2>2. CASE status # "confirmed"
      BY <1>10, <2>2 DEF SagaReturned, Await
    <2> QED BY <2>1, <2>2
  <1>11. CASE Restart
    <2>1. inbox' \in Seq(Message)
      BY <1>11 DEF Restart
    <2>2. pending' \in [id : Nat, slots : SlotList \union {<<>>}]
      BY <1>11, NoOfferType DEF Restart
    <2>3. /\ closed' = FALSE /\ at' = "idle" /\ turn' = NoSlot /\ chosen' = NoSlot
          /\ candidates' = 0 /\ users' = 0 /\ says' = 0 /\ run' \in Nat
      BY <1>11 DEF Restart
    <2>4. offers' = offers /\ withdrawn' = withdrawn /\ booked' = booked
      BY <1>11 DEF Restart
    <2> QED BY <2>1, <2>2, <2>3, <2>4 DEF Message
  <1>12. CASE UNCHANGED vars
    BY <1>12 DEF vars
  <1>13. CASE WorkflowStep
    <2>1. ASSUME NEW intent \in Intent, Classified(intent) PROVE TypeOK'
      BY <2>1, <1>5, <1>7, <1>8 DEF Classified, Await
    <2>2. ASSUME NEW single \in BOOLEAN, Resolved(single) PROVE TypeOK'
      BY <2>2, <1>5 DEF Resolved, Await
    <2>3. CASE NoAvailability \/ ActivityRaised
      BY <2>3, <1>5 DEF NoAvailability, ActivityRaised, Await
    <2>4. ASSUME NEW say \in BOOLEAN, EnquiryAnswered(say) PROVE TypeOK'
      BY <2>4, <1>5, <1>6 DEF EnquiryAnswered, Await
    <2>5. ASSUME NEW shows \in BOOLEAN, Synthesized(shows) PROVE TypeOK'
      BY <2>5, <1>6 DEF Synthesized
    <2> QED BY <1>3, <1>4, <1>9, <1>10, <1>13, <2>1, <2>2, <2>3, <2>4, <2>5
            DEF WorkflowStep
  <1> QED BY <1>1, <1>2, <1>3, <1>11, <1>12, <1>13 DEF Next, Quiescent

-----------------------------------------------------------------------------
(* Texts and answers.                                                      *)
LEMMA SaysStep ==
  ASSUME TypeOK, OneSayPerTurn, OrdinalsAreFresh, [Next]_vars
  PROVE  OneSayPerTurn' /\ OrdinalsAreFresh'
  <1> USE DEF OneSayPerTurn, OrdinalsAreFresh, Unanswered, TypeOK, input, session
  <1>1. ASSUME NEW text \in Message, UserMessage(text) PROVE OneSayPerTurn' /\ OrdinalsAreFresh'
    BY <1>1 DEF UserMessage
  <1>2. CASE Close
    BY <1>2 DEF Close
  <1>3. CASE IdleTimeout \/ LeaveLoop
    BY <1>3 DEF IdleTimeout, LeaveLoop, Await
  <1>4. CASE TakeMessage
    <2>1. Len(inbox') = Len(inbox) - 1
      BY <1>4 DEF TakeMessage
    <2> QED BY <1>4, <2>1 DEF TakeMessage, Await
  <1>5. ASSUME NEW next \in Await \union {"failed"}, GoTo(next), at \in Await
        PROVE  OneSayPerTurn' /\ OrdinalsAreFresh'
    BY <1>5 DEF GoTo
  <1>6. ASSUME NEW shows \in BOOLEAN, FinalizeSay(shows), at \in Await
        PROVE  OneSayPerTurn' /\ OrdinalsAreFresh'
    <2>1. candidates' \in {0, says + 1}
      BY <1>6 DEF FinalizeSay
    <2>2. says' = says + 1 /\ at' = "idle" /\ UNCHANGED <<inbox, users>>
      BY <1>6 DEF FinalizeSay
    <2>3. Unanswered = 1 /\ Unanswered' = 0
      BY <1>6, <2>2 DEF Await
    <2>4. users' = says' + Len(inbox') + Unanswered'
      <3>1. /\ users = says + Len(inbox) + 1
            /\ says \in Nat /\ Len(inbox) \in Nat
        BY <2>3
      <3> QED BY <2>2, <2>3, <3>1
    <2>5. candidates' \in {0, says'}
      BY <2>1, <2>2
    <2> QED BY <2>4, <2>5
  <1>7. CASE BeginSaga /\ at \in Await
    BY <1>7 DEF BeginSaga, Await
  <1>8. CASE HandleCancel /\ at \in Await
    BY <1>8 DEF HandleCancel, Await
  <1>9. ASSUME NEW slots \in SlotList, OfferSlots(slots) PROVE OneSayPerTurn' /\ OrdinalsAreFresh'
    BY <1>9 DEF OfferSlots, Await
  <1>10. ASSUME NEW status, SagaReturned(status) PROVE OneSayPerTurn' /\ OrdinalsAreFresh'
    BY <1>10 DEF SagaReturned, Await
  <1>11. CASE Restart
    BY <1>11 DEF Restart, Await
  <1>12. CASE UNCHANGED vars
    BY <1>12 DEF vars
  <1>13. CASE WorkflowStep
    <2>1. ASSUME NEW intent \in Intent, Classified(intent) PROVE OneSayPerTurn' /\ OrdinalsAreFresh'
      BY <2>1, <1>5, <1>7, <1>8 DEF Classified, Await
    <2>2. ASSUME NEW single \in BOOLEAN, Resolved(single) PROVE OneSayPerTurn' /\ OrdinalsAreFresh'
      BY <2>2, <1>5 DEF Resolved, Await
    <2>3. CASE NoAvailability \/ ActivityRaised
      BY <2>3, <1>5 DEF NoAvailability, ActivityRaised, Await
    <2>4. ASSUME NEW say \in BOOLEAN, EnquiryAnswered(say) PROVE OneSayPerTurn' /\ OrdinalsAreFresh'
      BY <2>4, <1>5, <1>6 DEF EnquiryAnswered, Await
    <2>5. ASSUME NEW shows \in BOOLEAN, Synthesized(shows) PROVE OneSayPerTurn' /\ OrdinalsAreFresh'
      BY <2>5, <1>6 DEF Synthesized, Await
    <2> QED BY <1>3, <1>4, <1>9, <1>10, <1>13, <2>1, <2>2, <2>3, <2>4, <2>5
            DEF WorkflowStep
  <1> QED BY <1>1, <1>2, <1>3, <1>11, <1>12, <1>13 DEF Next, Quiescent

-----------------------------------------------------------------------------
(* Offers and bookings.                                                    *)
BookingsInv == OfferBookedOnce /\ BookedWasOffered /\ WithdrawnIsNotBooked

(* Steps that touch neither the offer nor its history only have to say     *)
(* that a saga does not begin.                                             *)
LEMMA OffersUntouched ==
  ASSUME OfferInv, BookingsInv, UNCHANGED <<pending, history>>,
         at' = "saga" => at = "saga" /\ chosen' = chosen
  PROVE  OfferInv' /\ BookingsInv'
  BY DEF OfferInv, BookingsInv, OfferBookedOnce, BookedWasOffered,
         WithdrawnIsNotBooked, HasOffer, history

(* A new offer is numbered after every booking and every cancelled offer.  *)
LEMMA NewOfferKeeps ==
  ASSUME TypeOK, OfferInv, BookingsInv, NEW slots \in SlotList, OfferSlots(slots)
  PROVE  OfferInv' /\ BookingsInv'
  <1>1. /\ offers' = Append(offers, slots)
        /\ pending'.id = Len(offers) + 1 /\ pending'.slots = slots
        /\ UNCHANGED <<withdrawn, booked>>
        /\ at' = "synthesize"
    BY DEF OfferSlots
  <1>2. /\ Len(offers') = Len(offers) + 1
        /\ offers'[Len(offers) + 1] = slots
        /\ offers' # <<>>
        /\ \A k \in DOMAIN offers : k \in DOMAIN offers' /\ offers'[k] = offers[k]
    BY <1>1 DEF TypeOK
  <1>3. /\ Len(offers) \in Nat
        /\ \A k \in DOMAIN offers : k \in Nat /\ k < Len(offers) + 1
    BY DEF TypeOK
  <1>4. Len(offers) + 1 \notin withdrawn
    BY <1>3 DEF OfferInv
  <1>5. \A i \in DOMAIN booked : booked[i].offer < Len(offers) + 1
    BY <1>3 DEF BookingsInv, BookedWasOffered
  <1>6. OfferInv'
    BY <1>1, <1>2, <1>4, <1>5 DEF OfferInv
  <1>7. BookingsInv'
    BY <1>1, <1>2
    DEF BookingsInv, OfferBookedOnce, BookedWasOffered, WithdrawnIsNotBooked
  <1> QED BY <1>6, <1>7

(* A confirmed saga books the open offer, which is later than all booked   *)
(* ones and not cancelled, and consumes it.                                *)
LEMMA ConfirmedKeeps ==
  ASSUME TypeOK, OfferInv, BookingsInv, SagaReturned("confirmed")
  PROVE  OfferInv' /\ BookingsInv'
  <1> DEFINE b == [offer |-> pending.id, slot |-> chosen]
  <1>1. /\ booked' = Append(booked, b)
        /\ pending' = NoOffer
        /\ UNCHANGED <<offers, withdrawn>>
        /\ at' = "synthesize" /\ at = "saga"
    BY DEF SagaReturned
  <1>2. b.offer = pending.id /\ b.slot = chosen
    OBVIOUS
  <1> HIDE DEF b
  <1>3. /\ pending.id \in DOMAIN offers /\ pending.slots = offers[pending.id]
        /\ chosen \in Range(pending.slots)
        /\ pending.id \notin withdrawn
        /\ \A i \in DOMAIN booked : booked[i].offer < pending.id
    BY <1>1, OpenOfferHasSlots DEF OfferInv
  <1>4. /\ DOMAIN booked' = DOMAIN booked \union {Len(booked) + 1}
        /\ booked'[Len(booked) + 1] = b
        /\ \A i \in DOMAIN booked : booked'[i] = booked[i]
        /\ \A i \in DOMAIN booked : i \in Nat /\ i < Len(booked) + 1
        /\ Len(booked) \in Nat
    <2>1. booked \in Seq([offer : Nat, slot : Slot])
      BY DEF TypeOK
    <2>2. DOMAIN booked = 1 .. Len(booked)
      BY <2>1
    <2> QED BY <1>1, <2>1, <2>2
  <1>5. OfferInv'
    <2>1. ~HasOffer'
      BY <1>1 DEF HasOffer
    <2> QED BY <1>1, <2>1 DEF OfferInv
  <1>6. OfferBookedOnce'
    BY <1>2, <1>3, <1>4 DEF BookingsInv, OfferBookedOnce
  <1>7. BookedWasOffered' /\ WithdrawnIsNotBooked'
    BY <1>1, <1>2, <1>3, <1>4 DEF BookingsInv, BookedWasOffered, WithdrawnIsNotBooked
  <1> QED BY <1>5, <1>6, <1>7 DEF BookingsInv

(* A cancelled offer was not booked, since it was still open.              *)
LEMMA CancelKeeps ==
  ASSUME TypeOK, OfferInv, BookingsInv, HandleCancel
  PROVE  OfferInv' /\ BookingsInv'
  <1>1. /\ pending' = NoOffer
        /\ UNCHANGED <<offers, booked>>
        /\ at' = "synthesize"
    BY DEF HandleCancel
  <1>2. \A k \in withdrawn' : k \in withdrawn \/ (HasOffer /\ k = pending.id)
    BY DEF HandleCancel
  <1>3. HasOffer => /\ pending.id \in DOMAIN offers
                    /\ \A i \in DOMAIN booked : booked[i].offer # pending.id
    BY OpenOfferHasSlots DEF OfferInv, TypeOK
  <1>4. ~HasOffer'
    BY <1>1 DEF HasOffer
  <1> QED BY <1>1, <1>2, <1>3, <1>4
          DEF OfferInv, BookingsInv, OfferBookedOnce, BookedWasOffered, WithdrawnIsNotBooked

(* The saga begins on the open offer, for one of its slots.                *)
LEMMA BeginKeeps ==
  ASSUME TypeOK, OfferInv, BookingsInv, HasOffer, BeginSaga
  PROVE  OfferInv' /\ BookingsInv'
  <1>1. chosen' \in Range(pending.slots)
    BY OpenOfferHasSlots, PickSlotOffered DEF BeginSaga, TypeOK
  <1>2. UNCHANGED <<pending, offers, withdrawn, booked>>
    BY DEF BeginSaga, history
  <1> QED BY <1>1, <1>2
          DEF OfferInv, HasOffer, BookingsInv, OfferBookedOnce, BookedWasOffered,
              WithdrawnIsNotBooked

(* Every step keeps the offer and the bookings in agreement.               *)
LEMMA OfferStep ==
  ASSUME TypeOK, OfferInv, BookingsInv, [Next]_vars
  PROVE  OfferInv' /\ BookingsInv'
  <1>1. ASSUME UNCHANGED <<pending, chosen, history>>, at' # "saga" \/ at' = at
        PROVE  OfferInv' /\ BookingsInv'
    BY <1>1, OffersUntouched
  <1>2. ASSUME NEW text, UserMessage(text) PROVE OfferInv' /\ BookingsInv'
    BY <1>1, <1>2 DEF UserMessage, session
  <1>3. CASE Close \/ IdleTimeout \/ LeaveLoop
    BY <1>1, <1>3 DEF Close, IdleTimeout, LeaveLoop, session
  <1>4. CASE TakeMessage
    BY <1>1, <1>4 DEF TakeMessage, session
  <1>5. ASSUME NEW next, next # "saga", GoTo(next) PROVE OfferInv' /\ BookingsInv'
    BY <1>1, <1>5 DEF GoTo, session
  <1>6. ASSUME NEW shows, FinalizeSay(shows) PROVE OfferInv' /\ BookingsInv'
    BY <1>1, <1>6 DEF FinalizeSay
  <1>7. ASSUME NEW status, SagaReturned(status) PROVE OfferInv' /\ BookingsInv'
    <2>1. CASE status = "confirmed"
      BY <1>7, <2>1, ConfirmedKeeps
    <2>2. CASE status # "confirmed"
      <3>1. UNCHANGED <<pending, chosen, history>> /\ at' # "saga"
        BY <1>7, <2>2 DEF SagaReturned, history
      <3> QED BY <1>1, <3>1
    <2> QED BY <2>1, <2>2
  <1>8. CASE Restart
    <2>1. ~HasOffer'
      BY <1>8 DEF Restart, HasOffer
    <2> QED BY <1>8, <2>1
            DEF Restart, OfferInv, BookingsInv, OfferBookedOnce, BookedWasOffered,
                WithdrawnIsNotBooked, history
  <1>9. CASE UNCHANGED vars
    BY <1>1, <1>9 DEF vars, session
  <1>10. CASE WorkflowStep
    <2>1. ASSUME NEW intent, Classified(intent) PROVE OfferInv' /\ BookingsInv'
      BY <2>1, <1>5, BeginKeeps, CancelKeeps DEF Classified
    <2>2. ASSUME NEW single, Resolved(single) PROVE OfferInv' /\ BookingsInv'
      BY <2>2, <1>5 DEF Resolved
    <2>3. CASE NoAvailability \/ ActivityRaised
      BY <2>3, <1>5 DEF NoAvailability, ActivityRaised
    <2>4. ASSUME NEW say, EnquiryAnswered(say) PROVE OfferInv' /\ BookingsInv'
      BY <2>4, <1>5, <1>6 DEF EnquiryAnswered
    <2>5. ASSUME NEW shows, Synthesized(shows) PROVE OfferInv' /\ BookingsInv'
      BY <2>5, <1>6 DEF Synthesized
    <2>6. ASSUME NEW slots \in SlotList, OfferSlots(slots) PROVE OfferInv' /\ BookingsInv'
      BY <2>6, NewOfferKeeps
    <2> QED BY <1>3, <1>4, <1>7, <1>10, <2>1, <2>2, <2>3, <2>4, <2>5, <2>6
            DEF WorkflowStep
  <1> QED BY <1>2, <1>3, <1>8, <1>9, <1>10 DEF Next, Quiescent

-----------------------------------------------------------------------------
(* Types, answers and offers, at every moment of every conversation.       *)
THEOREM ConversationCorrect == Spec => [](TypeOK /\ ConversationInv)
  <1>1. ASSUME TypeOK, ConversationInv, [Next]_vars PROVE TypeOK' /\ ConversationInv'
    BY <1>1, TypeStep, SaysStep, OfferStep DEF ConversationInv, BookingsInv
  <1> QED BY <1>1, ConversationInit, PTL DEF Spec

(* Each accepted text gets exactly one say.                                *)
THEOREM OneSayEach == Spec => []OneSayPerTurn
  <1>1. ConversationInv => OneSayPerTurn
    BY DEF ConversationInv
  <1> QED BY <1>1, ConversationCorrect, PTL

(* No offer is booked twice.                                               *)
THEOREM NoDoubleBooking == Spec => []OfferBookedOnce
  <1>1. ConversationInv => OfferBookedOnce
    BY DEF ConversationInv
  <1> QED BY <1>1, ConversationCorrect, PTL

(* Only slots of the offer are booked, whatever the text says.             *)
THEOREM OnlyOfferedSlots == Spec => []BookedWasOffered
  <1>1. ConversationInv => BookedWasOffered
    BY DEF ConversationInv
  <1> QED BY <1>1, ConversationCorrect, PTL

(* An offer the user cancelled is never booked, by no queued confirmation. *)
THEOREM CancelledStaysUnbooked == Spec => []WithdrawnIsNotBooked
  <1>1. ConversationInv => WithdrawnIsNotBooked
    BY DEF ConversationInv
  <1> QED BY <1>1, ConversationCorrect, PTL

(* "The second one" is never resolved against an older list of candidates. *)
THEOREM FreshCandidates == Spec => []OrdinalsAreFresh
  <1>1. ConversationInv => OrdinalsAreFresh
    BY DEF ConversationInv
  <1> QED BY <1>1, ConversationCorrect, PTL

(* Every state of every conversation is well formed.                       *)
THEOREM TypeCorrect == Spec => []TypeOK
  BY ConversationCorrect, PTL

(* What is booked is the offer made last.                                  *)
THEOREM NewestOfferBooked == Spec => OnlyNewestOffer
  <1>1. ASSUME TypeOK, ConversationInv, [Next]_vars
        PROVE  [Len(booked') > Len(booked)
                => booked'[Len(booked')].offer = Len(offers)]_vars
    <2> SUFFICES ASSUME Next, Len(booked') > Len(booked)
                 PROVE  booked'[Len(booked')].offer = Len(offers)
      BY <1>1
    <2>1. booked' # booked
      BY <1>1 DEF TypeOK
    <2>2. SagaReturned("confirmed")
      BY <2>1
      DEF Next, WorkflowStep, UserMessage, Close, IdleTimeout, LeaveLoop, TakeMessage,
          Classified, GoTo, BeginSaga, HandleCancel, Resolved, NoAvailability, OfferSlots,
          EnquiryAnswered, FinalizeSay, SagaReturned, Synthesized, ActivityRaised, Restart,
          Quiescent, vars, history
    <2>3. /\ booked' = Append(booked, [offer |-> pending.id, slot |-> chosen])
          /\ pending.id = Len(offers)
      BY <1>1, <2>2 DEF SagaReturned, ConversationInv, OfferInv
    <2>4. booked'[Len(booked')] = [offer |-> pending.id, slot |-> chosen]
      BY <1>1, <2>3 DEF TypeOK
    <2> QED BY <2>3, <2>4
  <1> QED BY <1>1, ConversationCorrect, PTL DEF OnlyNewestOffer, Spec
=============================================================================
