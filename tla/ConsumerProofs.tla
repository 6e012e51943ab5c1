---------------------------- MODULE ConsumerProofs ----------------------------
(***************************************************************************)
(* What the customer's surfaces keep, for any venues, services,            *)
(* professionals, slots and bounds.  The booking flow: types; the ledger   *)
(* (one order per request, and what the phone has shown is stored); the    *)
(* cart, which holds choices of one venue and is on its way to the disk;   *)
(* the calls, which carry a cart to the venue it was made for.  The home   *)
(* screen: whose answer it shows, how often a query is sent.  Last, the    *)
(* whole, with what AtlasProofs shows of the web page.                     *)
(***************************************************************************)
EXTENDS MCConsumer, FiniteSetTheorems, SequenceTheorems, TLAPS

\* Screens that choose nothing: with only these the route names no venue.
OffSteps == {"booked", "assistant", "missing"}
Choosing == stack \notin Seq(OffSteps)

TypeInv == TypeOK /\ (Choosing => venue \in Places)

-----------------------------------------------------------------------------
(* Sequences and screens. *)

LEMMA ScreenNames ==
  /\ Screens = {"services", "professional", "time", "confirm"} \cup OffSteps
  /\ \A n \in 1..3 : Steps[n] \in Screens \ OffSteps /\ Steps[n + 1] \in Screens \ OffSteps
<1>1. Range(Steps) = {"services", "professional", "time", "confirm"}
  <2>1. DOMAIN Steps = 1..4 /\ Steps[1] = "services" /\ Steps[2] = "professional"
        /\ Steps[3] = "time" /\ Steps[4] = "confirm"
    BY DEF Steps
  <2>2. \A n \in 1..4 : n = 1 \/ n = 2 \/ n = 3 \/ n = 4
    OBVIOUS
  <2> QED
    BY <2>1, <2>2 DEF Range
<1>2. \A n \in 1..3 : n = 1 \/ n = 2 \/ n = 3
  OBVIOUS
<1>3. ASSUME NEW n \in 1..3
      PROVE Steps[n] \in Screens \ OffSteps /\ Steps[n + 1] \in Screens \ OffSteps
  BY <1>1, <1>2 DEF Steps, Screens, OffSteps
<1> QED
  BY <1>1, <1>3 DEF Screens, OffSteps

LEMMA FrontAndLast ==
  ASSUME NEW S, NEW s \in Seq(S), s # <<>>
  PROVE /\ Front(s) \in Seq(S) /\ Last(s) \in S
        /\ Len(s) \in Nat \ {0} /\ Len(Front(s)) = Len(s) - 1
<1>1. Len(s) \in Nat \ {0} /\ \A i \in 1..Len(s) : s[i] \in S
  OBVIOUS
<1>2. /\ SubSeq(s, 1, Len(s) - 1) \in Seq(S)
      /\ Len(SubSeq(s, 1, Len(s) - 1)) = Len(s) - 1
  <2>1. PICK n \in Nat : n = Len(s) - 1
    BY <1>1
  <2>2. SubSeq(s, 1, n) \in Seq(S) /\ Len(SubSeq(s, 1, n)) = IF 1 <= n THEN n - 1 + 1 ELSE 0
    <3>1. \A i \in 1..n : s[i] \in S
      BY <1>1, <2>1
    <3> QED
      BY <3>1, SubSeqProperties
  <2>3. (IF 1 <= n THEN n - 1 + 1 ELSE 0) = n
    OBVIOUS
  <2> QED
    BY <2>1, <2>2, <2>3
<1>3. Last(s) \in S
  BY <1>1 DEF Last
<1> QED
  BY <1>1, <1>2, <1>3 DEF Front

\* A screen of the four steps on top means that the route names a venue.
LEMMA StepsChoose ==
  ASSUME TypeInv, NEW screen \in Screens \ OffSteps, At(screen)
  PROVE Choosing /\ venue \in Places /\ stack # <<>>
<1>1. stack # <<>> /\ Last(stack) \notin OffSteps
  BY DEF At
<1>2. Choosing
  BY <1>1, FrontAndLast DEF Choosing
<1> QED
  BY <1>1, <1>2 DEF TypeInv

-----------------------------------------------------------------------------
(* Types. *)

LEMMA EmptyCart == Empty \in Cart
BY DEF Empty, Cart

\* A choice writes the cart it makes.
LEMMA ChooseType ==
  ASSUME FlowAssumption, TypeInv, venue \in Places, NEW c \in Cart, Choose(c)
  PROVE /\ hydrated /\ cart' \in Cart /\ Len(writes) < MaxWrites
        /\ cart' = [c EXCEPT !.from = IF c.from = Unknown THEN c.from ELSE c.from \cup {venue}]
        /\ writes' = Append(writes, cart')
        /\ UNCHANGED <<disk, hydrated, venue, stack, submitting, calls, orders, booked>>
BY DEF Choose, Set, Cart, Unknown

LEMMA CallTypes ==
  ASSUME FlowAssumption, TypeInv, NEW i \in UnderWay
  PROVE /\ i \in DOMAIN calls /\ calls[i] \in Call /\ Len(calls) \in Nat
        /\ DOMAIN calls = 1..Len(calls)
BY DEF TypeInv, TypeOK, UnderWay

LEMMA AnswerType ==
  \A c \in Call : /\ Forgotten(c) \in Call \cup {None}
                  /\ \A phase \in {"sent", "row", "stored", "lost"} :
                        Answer(c, phase) \in Call \cup {None}
BY DEF Answer, Forgotten, Call

LEMMA TypeInit ==
  ASSUME FlowAssumption, Init PROVE TypeInv
<1>1. <<>> \in Seq(Cart) /\ <<>> \in Seq(Screens) /\ <<>> \in Seq(Call \cup {None})
      /\ <<>> \in Seq(OffSteps) /\ Len(<<>>) = 0 /\ 0 \in 0..0
  OBVIOUS
<1>2. Len(<<>>) <= MaxWrites /\ Len(<<>>) <= MaxCalls
  BY DEF FlowAssumption
<1>3. TypeOK
  BY <1>1, <1>2, EmptyCart DEF Init, TypeOK
<1> QED
  BY <1>1, <1>3 DEF Init, TypeInv, Choosing

\* Taking a screen off, or putting another in its place, names no new venue.
LEMMA StackStep ==
  ASSUME TypeInv, stack # <<>>
  PROVE /\ Front(stack) \in Seq(Screens)
        /\ stack \in Seq(OffSteps) => Front(stack) \in Seq(OffSteps)
        /\ Len(stack) = 1 => Front(stack) = <<>>
        /\ \A screen \in OffSteps :
            /\ Append(Front(stack), screen) \in Seq(Screens)
            /\ Append(Front(stack), screen) \notin Seq(OffSteps) => Choosing /\ Len(stack) > 1
<1>1. stack \in Seq(Screens)
  BY DEF TypeInv, TypeOK
<1>2. /\ Front(stack) \in Seq(Screens) /\ Len(stack) \in Nat \ {0}
      /\ Len(Front(stack)) = Len(stack) - 1
  BY <1>1, FrontAndLast
<1>3. stack \in Seq(OffSteps) => Front(stack) \in Seq(OffSteps)
  BY FrontAndLast
<1>4. Len(stack) = 1 => Front(stack) = <<>>
  BY <1>2, EmptySeq
<1>5. ASSUME NEW screen \in OffSteps
      PROVE /\ Append(Front(stack), screen) \in Seq(Screens)
            /\ Append(Front(stack), screen) \notin Seq(OffSteps) => Choosing /\ Len(stack) > 1
  <2>1. screen \in Screens
    BY ScreenNames
  <2>2. Append(Front(stack), screen) \in Seq(Screens)
    BY <1>2, <2>1
  <2>3. Front(stack) \in Seq(OffSteps) => Append(Front(stack), screen) \in Seq(OffSteps)
    OBVIOUS
  <2>4. Front(stack) \notin Seq(OffSteps) => Len(stack) > 1
    <3>1. <<>> \in Seq(OffSteps)
      OBVIOUS
    <3> QED
      BY <1>2, <1>4, <3>1
  <2> QED
    BY <1>3, <2>2, <2>3, <2>4 DEF Choosing
<1> QED
  BY <1>2, <1>3, <1>4, <1>5

LEMMA TypeStep ==
  ASSUME FlowAssumption, TypeInv, [Next]_vars PROVE TypeInv'
<1> USE DEF TypeInv, TypeOK
<1>0. /\ cart \in Cart /\ disk \in Cart \cup {None} /\ writes \in Seq(Cart)
      /\ Len(writes) \in Nat /\ Len(calls) \in Nat /\ calls \in Seq(Call \cup {None})
      /\ stack \in Seq(Screens) /\ hydrated \in BOOLEAN
  OBVIOUS
<1>1. CASE Hydrate
  <2>1. cart' \in Cart
    BY <1>0, <1>1 DEF Hydrate, Cart, Unknown
  <2> QED
    BY <1>0, <1>1, <2>1 DEF Hydrate, Choosing
<1>2. CASE Stored
  <2>1. Head(writes) \in Cart /\ Tail(writes) \in Seq(Cart)
        /\ Len(Tail(writes)) = Len(writes) - 1
    BY <1>0, <1>2, HeadTailProperties DEF Stored
  <2>2. Len(writes') <= MaxWrites
    BY <1>0, <1>2, <2>1 DEF Stored, FlowAssumption
  <2> QED
    BY <1>0, <1>2, <2>1, <2>2 DEF Stored, Choosing
<1>3. CASE Restart
  <2>1. /\ calls' \in Seq(Call \cup {None}) /\ Len(calls') = Len(calls)
    <3>1. \A i \in DOMAIN calls :
            (IF i \in UnderWay THEN Forgotten(calls[i]) ELSE None) \in Call \cup {None}
      BY CallTypes, AnswerType
    <3> QED
      BY <1>0, <1>3, <3>1 DEF Restart
  <2>2. <<>> \in Seq(Cart) /\ <<>> \in Seq(Screens) /\ <<>> \in Seq(OffSteps)
        /\ Len(<<>>) <= MaxWrites
    BY DEF FlowAssumption
  <2>3. /\ cart' = Empty /\ writes' = <<>> /\ hydrated' = FALSE /\ venue' = None
        /\ stack' = <<>> /\ submitting' = 0 /\ UNCHANGED <<disk, orders, booked>>
    BY <1>3 DEF Restart
  <2>4. 0 \in 0..Len(calls') /\ Len(calls') <= MaxCalls
    BY <1>0, <2>1
  <2> QED
    BY <2>1, <2>2, <2>3, <2>4, EmptyCart DEF Choosing
<1>4. CASE Continue
  <2>1. PICK n \in 1..3 : At(Steps[n]) /\ stack' = Append(stack, Steps[n + 1])
    BY <1>4 DEF Continue
  <2>2. Choosing /\ venue \in Places /\ Steps[n + 1] \in Screens
    BY ScreenNames, StepsChoose, <2>1
  <2>3. stack' \in Seq(Screens)
    BY <1>0, <2>1, <2>2
  <2> QED
    BY <1>0, <1>4, <2>2, <2>3 DEF Continue, Choosing
<1>5. CASE Back
  <2>1. stack # <<>> /\ stack' = Front(stack)
    BY <1>5 DEF Back
  <2>2. Choosing' => venue' \in Places
    <3>1. <<>> \in Seq(OffSteps)
      OBVIOUS
    <3> QED
      BY <1>5, <2>1, <3>1, StackStep DEF Back, Choosing
  <2> QED
    BY <1>0, <1>5, <2>1, <2>2, StackStep DEF Back
<1>6. CASE Confirm
  <2>1. venue \in Places
    BY <1>6, ScreenNames, StepsChoose DEF Confirm, OffSteps
  <2>2. Wanted \in Request
    BY <1>0, <1>6, <2>1 DEF Confirm, Ready, Wanted, Request, Cart
  <2>3. [want |-> Wanted, from |-> cart.from, alive |-> TRUE, phase |-> "sent"] \in Call
    BY <1>0, <2>2 DEF Call, Cart
  <2>4. /\ calls' \in Seq(Call \cup {None}) /\ Len(calls') = Len(calls) + 1
        /\ Len(calls') <= MaxCalls /\ submitting' \in 0..Len(calls')
    BY <1>0, <1>6, <2>3 DEF Confirm, FlowAssumption
  <2> QED
    BY <1>0, <1>6, <2>4 DEF Confirm, Choosing
<1>7. CASE OpenAssistant
  <2>1. <<"assistant">> \in Seq(OffSteps) /\ <<"assistant">> \in Seq(Screens)
    BY ScreenNames DEF OffSteps
  <2> QED
    BY <1>0, <1>7, <2>1 DEF OpenAssistant, Choosing
<1>8. CASE OpenFromAssistant
  <2>1. stack # <<>> /\ stack' = Append(Front(stack), "missing") /\ "missing" \in OffSteps
    BY <1>8 DEF OpenFromAssistant, At, OffSteps
  <2> QED
    BY <1>0, <1>8, <2>1, StackStep DEF OpenFromAssistant, Choosing
<1>9. ASSUME NEW p \in Places, OpenServices(p) PROVE TypeInv'
  <2>1. cart' \in Cart /\ writes' \in Seq(Cart) /\ Len(writes') <= MaxWrites
    <3>1. [Empty EXCEPT !.place = p] \in Cart
      BY EmptyCart DEF Cart
    <3>2. CASE UNCHANGED <<cart, writes>>
      BY <3>2
    <3>3. ASSUME NEW c \in Cart, Set(c) PROVE cart' \in Cart /\ writes' \in Seq(Cart) /\ Len(writes') <= MaxWrites
      BY <1>0, <3>3 DEF Set, FlowAssumption
    <3> QED
      BY <1>9, <3>1, <3>2, <3>3 DEF OpenServices, SetPlace
  <2>2. <<"services">> \in Seq(Screens)
    BY ScreenNames
  <2> QED
    BY <1>0, <1>9, <2>1, <2>2 DEF OpenServices
<1>10. ASSUME NEW screen \in Screens \ OffSteps, At(screen), NEW c \in Cart, Choose(c)
       PROVE TypeInv'
  <2>1. venue \in Places
    BY <1>10, StepsChoose
  <2>2. cart' \in Cart /\ writes' = Append(writes, cart') /\ Len(writes) < MaxWrites
        /\ UNCHANGED <<disk, hydrated, venue, stack, submitting, calls, orders, booked>>
    BY <1>10, <2>1, ChooseType
  <2>3. writes' \in Seq(Cart) /\ Len(writes') <= MaxWrites
    BY <1>0, <2>2 DEF FlowAssumption
  <2> QED
    BY <1>0, <2>2, <2>3 DEF Choosing
<1>11. ASSUME NEW o \in orders, OpenBooking(o) PROVE TypeInv'
  <2>1. <<"booked">> \in Seq(OffSteps) /\ <<"booked">> \in Seq(Screens)
    BY ScreenNames DEF OffSteps
  <2>2. o.want \in Request
    BY DEF Order
  <2> QED
    BY <1>0, <1>11, <2>1, <2>2 DEF OpenBooking, ShowBooked, Choosing
<1>12. ASSUME NEW i \in UnderWay, Answered(i) PROVE TypeInv'
  <2>1. calls[i].want \in Request
    BY CallTypes DEF Call
  <2>2. calls' \in Seq(Call \cup {None}) /\ Len(calls') = Len(calls)
    BY <1>0, <1>12, CallTypes DEF Answered
  <2>3. cart' \in Cart /\ writes' \in Seq(Cart) /\ Len(writes') <= MaxWrites
    BY <1>0, <1>12, EmptyCart DEF Answered, Set, FlowAssumption
  <2>4. stack' \in Seq(Screens) /\ (Choosing' => venue' \in Places)
    <3>1. CASE stack = <<>>
      <4>1. <<"booked">> \in Seq(OffSteps) /\ <<"booked">> \in Seq(Screens)
        BY ScreenNames DEF OffSteps
      <4> QED
        BY <1>12, <3>1, <4>1 DEF Answered, Choosing
    <3>2. CASE stack # <<>>
      <4>1. stack' = Append(Front(stack), "booked") /\ "booked" \in OffSteps
            /\ (Len(stack) > 1 => venue' = venue)
        BY <1>0, <1>12, <3>2 DEF Answered, OffSteps
      <4> QED
        BY <3>2, <4>1, StackStep DEF Choosing
    <3> QED
      BY <3>1, <3>2
  <2> QED
    BY <1>0, <1>12, <2>1, <2>2, <2>3, <2>4 DEF Answered, ShowBooked
<1>13. CASE ApiCrash
  <2>1. /\ calls' \in Seq(Call \cup {None}) /\ Len(calls') = Len(calls)
    <3>1. \A i \in DOMAIN calls :
            (IF i \in UnderWay THEN Answer(calls[i], "lost") ELSE None) \in Call \cup {None}
      BY CallTypes, AnswerType
    <3>2. calls' \in [1..Len(calls) -> Call \cup {None}]
      BY <1>0, <1>13, <3>1 DEF ApiCrash
    <3> QED
      BY <1>0, <3>2
  <2> QED
    BY <1>0, <1>13, <2>1 DEF ApiCrash, Choosing
<1>14. ASSUME NEW i \in UnderWay, Failed(i) \/ Lost(i) \/ InsertOrder(i) \/ InsertItem(i)
       PROVE TypeInv'
  <2>1. \E c \in Call \cup {None} : calls' = [calls EXCEPT ![i] = c] \/ calls' = calls
    <3>1. calls[i] \in Call /\ [calls[i] EXCEPT !.phase = "row"] \in Call
      BY CallTypes DEF Call
    <3>2. None \in Call \cup {None}
      OBVIOUS
    <3> QED
      BY <1>0, <1>14, <3>1, <3>2, CallTypes, AnswerType DEF Failed, Lost, InsertOrder, InsertItem
  <2>2. calls' \in Seq(Call \cup {None}) /\ Len(calls') = Len(calls)
    <3>1. PICK c \in Call \cup {None} : calls' = [calls EXCEPT ![i] = c] \/ calls' = calls
      BY <2>1
    <3>2. i \in 1..Len(calls)
      BY CallTypes
    <3> QED
      BY <1>0, <3>1, <3>2
  <2>3. orders' \subseteq Order
    <3>1. calls[i].want \in Request
      BY CallTypes DEF Call
    <3>2. CASE InsertOrder(i)
      BY <3>1, <3>2 DEF InsertOrder, Order
    <3>3. CASE InsertItem(i)
      BY <3>3 DEF InsertItem, Order, Request
    <3> QED
      BY <1>14, <3>2, <3>3 DEF Failed, Lost
  <2>4. /\ UNCHANGED <<cart, disk, writes, hydrated, venue, stack, booked>>
        /\ submitting' \in {0, submitting}
    BY <1>14 DEF Failed, Lost, InsertOrder, InsertItem
  <2> QED
    BY <1>0, <2>2, <2>3, <2>4 DEF Choosing
<1>15. CASE UNCHANGED vars
  BY <1>0, <1>15 DEF vars, Choosing
<1>16. ASSUME NEW s \in Services, ToggleService(s) PROVE TypeInv'
  <2>1. [cart EXCEPT !.services = IF s \in @ THEN @ \ {s} ELSE @ \cup {s}] \in Cart
    BY <1>0 DEF Cart
  <2> QED
    BY <1>10, <1>16, <2>1, ScreenNames DEF ToggleService, OffSteps
<1>17. ASSUME NEW p \in Pros, SetPro(p) PROVE TypeInv'
  <2>1. [cart EXCEPT !.pro = p] \in Cart
    BY <1>0 DEF Cart
  <2> QED
    BY <1>10, <1>17, <2>1, ScreenNames DEF SetPro, OffSteps
<1>18. ASSUME NEW t \in Slots, SetSlot(t) PROVE TypeInv'
  <2>1. [cart EXCEPT !.slot = t] \in Cart
    BY <1>0 DEF Cart
  <2> QED
    BY <1>10, <1>18, <2>1, ScreenNames DEF SetSlot, OffSteps
<1> QED
  BY <1>1, <1>2, <1>3, <1>4, <1>5, <1>6, <1>7, <1>8, <1>9, <1>11, <1>12, <1>13, <1>14, <1>15,
     <1>16, <1>17, <1>18 DEF Next, Phone, Server

\* Every variable of the booking flow has its type.
THEOREM TypeCorrect ==
  ASSUME FlowAssumption PROVE Spec => []TypeOK
<1>1. Init => TypeInv
  BY TypeInit
<1>2. TypeInv /\ [Next]_vars => TypeInv'
  BY TypeStep
<1>3. TypeInv => TypeOK
  BY DEF TypeInv
<1> QED
  BY <1>1, <1>2, <1>3, PTL DEF Spec

-----------------------------------------------------------------------------
(* The ledger: a row is inserted only if no row has its request, a request *)
(* keeps its row for ever, and the phone only shows what was answered from *)
(* a row.                                                                  *)

Kept(w) == \E o \in orders : o.want = w

\* Calls whose request has been inserted, by them or before them.
Inserted == {i \in UnderWay : calls[i].phase \in {"row", "stored"}}

LedgerInv ==
    /\ TypeInv
    /\ OneOrderEach
    /\ ShownIsStored
    /\ \A i \in Inserted : Kept(calls[i].want)

\* A step that inserts nothing.
LEMMA NothingInserted ==
  ASSUME LedgerInv, TypeInv', UNCHANGED <<orders, booked>>,
         \A i \in Inserted' : i \in Inserted /\ calls'[i].want = calls[i].want
  PROVE LedgerInv'
BY DEF LedgerInv, OneOrderEach, ShownIsStored, Kept

\* What an answer, or a restart of the app, makes of a call.
LEMMA AnswerKeeps ==
  \A c \in Call : /\ \/ Forgotten(c) = None
                     \/ Forgotten(c).want = c.want /\ Forgotten(c).phase = c.phase
                  /\ \A phase : \/ Answer(c, phase) = None
                                \/ Answer(c, phase).want = c.want /\ Answer(c, phase).phase = phase
BY DEF Forgotten, Answer, Call

\* A request that has a row keeps one, and a new row is the only one of its request.
LEMMA RowsStep ==
  ASSUME FlowAssumption, LedgerInv, NEW i \in UnderWay, InsertOrder(i) \/ InsertItem(i)
  PROVE OneOrderEach' /\ \A w \in Request : Kept(w) => Kept(w)'
<1>1. orders \subseteq Order /\ calls[i] \in Call /\ OneOrderEach
  BY CallTypes DEF LedgerInv, TypeInv, TypeOK
<1>2. CASE InsertOrder(i)
  <2>1. PICK o : o = [want |-> calls[i].want, items |-> {}]
    OBVIOUS
  <2>2. \/ orders' = orders
        \/ orders' = orders \cup {o} /\ \A q \in orders : q.want # o.want
    BY <1>2, <2>1 DEF InsertOrder
  <2> QED
    BY <1>1, <2>2 DEF OneOrderEach, Kept
<1>3. CASE InsertItem(i)
  <2>1. PICK o \in orders : \E s \in o.want.services :
             orders' = (orders \ {o}) \cup {[o EXCEPT !.items = @ \cup {s}]}
    BY <1>3 DEF InsertItem
  <2>2. PICK s : orders' = (orders \ {o}) \cup {[o EXCEPT !.items = @ \cup {s}]}
    BY <2>1
  <2>3. PICK p : p = [o EXCEPT !.items = @ \cup {s}]
    OBVIOUS
  <2>4. p.want = o.want /\ orders' = (orders \ {o}) \cup {p}
    BY <1>1, <2>2, <2>3 DEF Order
  <2> QED
    BY <1>1, <2>4 DEF OneOrderEach, Kept
<1> QED
  BY <1>2, <1>3

LEMMA LedgerStep ==
  ASSUME FlowAssumption, LedgerInv, [Next]_vars PROVE LedgerInv'
<1>0. TypeInv /\ TypeInv' /\ DOMAIN calls = 1..Len(calls) /\ Len(calls) \in Nat
      /\ calls \in Seq(Call \cup {None})
  BY TypeStep DEF LedgerInv, TypeInv, TypeOK
<1>1. \A i \in UnderWay : i \in DOMAIN calls /\ calls[i] \in Call
  BY <1>0, CallTypes
<1>2. ASSUME UNCHANGED <<calls, orders, booked>> PROVE LedgerInv'
  <2>1. Inserted' = Inserted
    BY <1>2 DEF Inserted, UnderWay
  <2> QED
    BY <1>0, <1>2, <2>1, NothingInserted
<1>3. CASE Restart \/ ApiCrash
  <2>1. \A i \in DOMAIN calls' :
           /\ i \in DOMAIN calls
           /\ calls'[i] = None \/ (i \in UnderWay /\ calls'[i] = Forgotten(calls[i]))
                               \/ (i \in UnderWay /\ calls'[i] = Answer(calls[i], "lost"))
    BY <1>3 DEF Restart, ApiCrash
  <2>2. UNCHANGED <<orders, booked>>
    BY <1>3 DEF Restart, ApiCrash
  <2>3. \A i \in Inserted' : i \in Inserted /\ calls'[i].want = calls[i].want
    BY <1>1, <2>1, AnswerKeeps DEF Inserted, UnderWay
  <2> QED
    BY <1>0, <2>2, <2>3, NothingInserted
<1>4. ASSUME NEW i \in UnderWay, Lost(i) \/ Failed(i) PROVE LedgerInv'
  <2>1. /\ UNCHANGED <<orders, booked>>
        /\ \/ calls' = [calls EXCEPT ![i] = Answer(calls[i], "lost")]
           \/ calls' = [calls EXCEPT ![i] = None]
    BY <1>4 DEF Lost, Failed
  <2>2. \A j \in Inserted' : j \in Inserted /\ calls'[j].want = calls[j].want
    BY <1>0, <1>1, <2>1, AnswerKeeps DEF Inserted, UnderWay
  <2> QED
    BY <1>0, <2>1, <2>2, NothingInserted
<1>5. CASE Confirm
  <2>1. /\ UNCHANGED <<orders, booked>>
        /\ \A i \in DOMAIN calls' : \/ calls'[i].phase = "sent"
                                    \/ i \in DOMAIN calls /\ calls'[i] = calls[i]
    BY <1>0, <1>5 DEF Confirm
  <2>2. \A i \in Inserted' : i \in Inserted /\ calls'[i].want = calls[i].want
    BY <2>1 DEF Inserted, UnderWay
  <2> QED
    BY <1>0, <2>1, <2>2, NothingInserted
<1>6. ASSUME NEW o \in orders, OpenBooking(o) PROVE LedgerInv'
  <2>1. Inserted' = Inserted /\ UNCHANGED <<calls, orders>> /\ booked' = booked \cup {o.want}
    BY <1>6 DEF OpenBooking, ShowBooked, Inserted, UnderWay
  <2> QED
    BY <1>0, <2>1 DEF LedgerInv, OneOrderEach, ShownIsStored, Kept
<1>7. ASSUME NEW i \in UnderWay, Answered(i) PROVE LedgerInv'
  <2>1. i \in Inserted /\ UNCHANGED orders /\ booked' = booked \cup {calls[i].want}
        /\ calls' = [calls EXCEPT ![i] = None]
    BY <1>7 DEF Inserted, Answered, ShowBooked
  <2>2. \A j \in Inserted' : j \in Inserted /\ calls'[j].want = calls[j].want
    BY <1>0, <2>1 DEF Inserted, UnderWay
  <2> QED
    BY <1>0, <2>1, <2>2 DEF LedgerInv, OneOrderEach, ShownIsStored, Kept
<1>8. ASSUME NEW i \in UnderWay, InsertOrder(i) \/ InsertItem(i) PROVE LedgerInv'
  <2>1. OneOrderEach' /\ \A w \in Request : Kept(w) => Kept(w)'
    BY <1>8, RowsStep
  <2>2. /\ \A j \in UnderWay : calls[j].want \in Request
        /\ UNCHANGED booked /\ booked \subseteq Request
    BY <1>0, <1>1, <1>8 DEF InsertOrder, InsertItem, TypeInv, TypeOK, Call
  <2>3. PICK w : w = calls[i].want
    OBVIOUS
  <2>4. Kept(w)'
    <3>1. CASE InsertOrder(i)
      <4>1. \/ \E o \in orders : o.want = w /\ orders' = orders
            \/ \E o \in orders' : o = [want |-> w, items |-> {}]
        BY <2>3, <3>1 DEF InsertOrder
      <4> QED
        BY <4>1 DEF Kept
    <3>2. CASE InsertItem(i)
      <4>1. Kept(w)
        BY <2>3, <3>2 DEF InsertItem, Kept
      <4> QED
        BY <2>1, <2>2, <2>3, <4>1
    <3> QED
      BY <1>8, <3>1, <3>2
  <2>5. \A j \in Inserted' : j \in UnderWay /\ calls'[j].want = calls[j].want
                             /\ (j = i \/ j \in Inserted)
    <3>1. \/ calls' = calls
          \/ calls' = [calls EXCEPT ![i] = Answer(calls[i], "stored")]
          \/ calls' = [calls EXCEPT ![i] = [calls[i] EXCEPT !.phase = "row"]]
      <4>1. CASE InsertOrder(i)
        BY <4>1 DEF InsertOrder
      <4>2. CASE InsertItem(i)
        BY <4>2 DEF InsertItem
      <4> QED
        BY <1>8, <4>1, <4>2
    <3>2. [calls[i] EXCEPT !.phase = "row"].want = calls[i].want
      BY <1>1 DEF Call
    <3>3. \A j \in DOMAIN calls' :
             /\ j \in DOMAIN calls
             /\ calls'[j] = calls[j] \/ (j = i /\ (calls'[j] = None \/ calls'[j].want = calls[i].want))
      <4>1. PICK c, d : c = Answer(calls[i], "stored") /\ d = [calls[i] EXCEPT !.phase = "row"]
        OBVIOUS
      <4>2. (c = None \/ c.want = calls[i].want) /\ d.want = calls[i].want
        BY <1>1, <3>2, <4>1, AnswerKeeps
      <4>3. calls' = calls \/ calls' = [calls EXCEPT ![i] = c] \/ calls' = [calls EXCEPT ![i] = d]
        BY <3>1, <4>1
      <4> QED
        BY <1>0, <1>1, <4>2, <4>3
    <3> QED
      BY <1>0, <1>1, <3>3 DEF Inserted, UnderWay
  <2> QED
    BY <1>0, <2>1, <2>2, <2>3, <2>4, <2>5 DEF LedgerInv, ShownIsStored, Kept
<1>9. ASSUME Hydrate \/ Stored \/ Continue \/ Back \/ OpenAssistant \/ OpenFromAssistant
             \/ (\E p \in Places : OpenServices(p))
       PROVE UNCHANGED <<calls, orders, booked>>
  BY <1>9 DEF Hydrate, Stored, Continue, Back, OpenAssistant, OpenFromAssistant, OpenServices
<1>10. ASSUME \/ \E s \in Services : ToggleService(s)
              \/ \E p \in Pros : SetPro(p)
              \/ \E t \in Slots : SetSlot(t)
       PROVE UNCHANGED <<calls, orders, booked>>
  <2>1. \A c : Choose(c) => UNCHANGED <<calls, orders, booked>>
    BY DEF Choose
  <2> QED
    BY <1>10, <2>1 DEF ToggleService, SetPro, SetSlot
<1>11. CASE UNCHANGED vars
  BY <1>2, <1>11 DEF vars
<1> QED
  BY <1>2, <1>3, <1>4, <1>5, <1>6, <1>7, <1>8, <1>9, <1>10, <1>11, Zenon DEF Next, Phone, Server

LEMMA LedgerCorrect ==
  ASSUME FlowAssumption PROVE Spec => []LedgerInv
<1>1. Init => LedgerInv
  <2>1. DOMAIN <<>> = {}
    OBVIOUS
  <2> QED
    BY <2>1, TypeInit DEF Init, LedgerInv, OneOrderEach, ShownIsStored, Inserted, UnderWay
<1> QED
  BY <1>1, LedgerStep, PTL DEF Spec

\* Whatever answers are lost, crashes come and screens are left, a request has one row.
THEOREM OneOrderPerRequest ==
  ASSUME FlowAssumption PROVE Spec => []OneOrderEach
<1>1. LedgerInv => OneOrderEach
  BY DEF LedgerInv
<1> QED
  BY <1>1, LedgerCorrect, PTL

\* A booking once shown as confirmed is in the ledger for good.
THEOREM ShownStaysStored ==
  ASSUME FlowAssumption PROVE Spec => []ShownIsStored
<1>1. LedgerInv => ShownIsStored
  BY DEF LedgerInv
<1> QED
  BY <1>1, LedgerCorrect, PTL

-----------------------------------------------------------------------------
(* The cart.  Its choices were made on the screens of the venue it names;  *)
(* on screens that choose, that is the venue of the route.  Without a name *)
(* (after an answer has emptied it under its screens) it is wiped by the   *)
(* next venue.  Before the read at module load nothing was chosen, so that *)
(* what the read finds cannot pass for a choice made here.                 *)

OwnCart == {c \in Cart : c.from = Unknown \/ c.place = None \/ c.from \subseteq {c.place}}

\* No answer comes to an app that has not read its cart.
WaitingInv ==
    /\ ~hydrated => /\ cart.services = {}
                    /\ \A i \in UnderWay : ~calls[i].alive
    /\ \A i \in UnderWay : calls[i].phase \in {"stored", "lost"} => calls[i].alive

CartInv ==
    /\ cart \in OwnCart /\ disk \in OwnCart \cup {None} /\ writes \in Seq(OwnCart)
    /\ Choosing => \/ cart.from = Unknown
                   \/ cart.from \subseteq {venue} /\ cart.place \in {None, venue}
    /\ ~hydrated => writes = <<>> /\ (Choosing => cart.place = venue)
    /\ SavedIsCart

FlowInv == TypeInv /\ WaitingInv /\ CartInv /\ CartIsPerVenue

\* A step that leaves the cart alone and opens no venue.
LEMMA CartAlone ==
  ASSUME FlowInv, UNCHANGED <<cart, disk, writes, hydrated>>,
         Choosing' => Choosing /\ UNCHANGED venue
  PROVE CartInv'
BY DEF FlowInv, CartInv, SavedIsCart

\* set(): the new cart is written, or nothing was read yet.
LEMMA SetStep ==
  ASSUME FlowInv, NEW c \in OwnCart, Set(c), UNCHANGED <<disk, hydrated>>
  PROVE /\ cart' \in OwnCart /\ disk' \in OwnCart \cup {None} /\ writes' \in Seq(OwnCart)
        /\ ~hydrated' => writes' = <<>>
        /\ SavedIsCart'
<1>1. writes \in Seq(OwnCart) /\ (~hydrated => writes = <<>>) /\ disk \in OwnCart \cup {None}
  BY DEF FlowInv, CartInv
<1>2. cart' = c /\ writes' = (IF hydrated THEN Append(writes, c) ELSE writes)
  BY DEF Set
<1>3. Append(writes, c) \in Seq(OwnCart) /\ Append(writes, c) # <<>> /\ Last(Append(writes, c)) = c
  BY <1>1 DEF Last
<1> QED
  BY <1>1, <1>2, <1>3 DEF SavedIsCart

LEMMA CartStep ==
  ASSUME FlowAssumption, FlowInv, [Next]_vars PROVE CartInv'
<1>0. /\ TypeInv /\ cart \in OwnCart /\ cart \in Cart /\ disk \in OwnCart \cup {None}
      /\ writes \in Seq(OwnCart) /\ hydrated \in BOOLEAN /\ None \notin Places
      /\ stack \in Seq(Screens) /\ Empty \in OwnCart
  BY EmptyCart DEF FlowInv, CartInv, TypeInv, TypeOK, FlowAssumption, OwnCart, Empty
<1>1. CASE Hydrate
  <2>1. /\ hydrated' /\ cart.services = {} /\ writes = <<>> /\ (Choosing => cart.place = venue)
        /\ UNCHANGED <<disk, writes, venue, stack>>
    BY <1>1 DEF Hydrate, FlowInv, WaitingInv, CartInv
  <2>2. CASE cart = Empty
    <3>1. ~Choosing
      BY <1>0, <2>1, <2>2 DEF TypeInv, Empty
    <3>2. cart' = IF disk = None THEN Empty ELSE disk
      BY <1>1, <2>2 DEF Hydrate
    <3> QED
      BY <1>0, <2>1, <3>1, <3>2 DEF CartInv, Choosing, SavedIsCart
  <2>3. CASE cart # Empty
    <3>1. cart' \in Cart /\ cart'.from = Unknown
      BY <1>0, <1>1, <2>3 DEF Hydrate, OwnCart, Cart
    <3> QED
      BY <1>0, <2>1, <3>1 DEF CartInv, SavedIsCart, OwnCart
  <2> QED
    BY <2>2, <2>3
<1>2. CASE Stored
  <2>1. Head(writes) \in OwnCart /\ Tail(writes) \in Seq(OwnCart) /\ writes # <<>>
        /\ Len(writes) \in Nat \ {0}
    BY <1>0, <1>2, HeadTailProperties, EmptySeq DEF Stored
  <2>2. Tail(writes) = <<>> => Last(writes) = Head(writes)
    <3>1. Len(Tail(writes)) = Len(writes) - 1
      BY <1>0, <2>1, HeadTailProperties
    <3>2. Tail(writes) = <<>> => Len(writes) = 1
      <4> SUFFICES ASSUME Tail(writes) = <<>> PROVE Len(writes) = 1
        OBVIOUS
      <4>1. \A s : s = <<>> => Len(s) = 0
        OBVIOUS
      <4>2. Len(writes) \in Nat /\ Len(writes) - 1 = 0
        BY <2>1, <3>1, <4>1
      <4> QED
        BY <4>2
    <3> QED
      BY <1>0, <2>1, <3>2 DEF Last
  <2>3. Tail(writes) # <<>> => Last(Tail(writes)) = Last(writes)
    <3>1. Len(Tail(writes)) = Len(writes) - 1
      BY <1>0, <2>1, HeadTailProperties
    <3>2. Tail(writes) # <<>> => Len(writes) - 1 \in 1..Len(writes) - 1
      BY <2>1, <3>1, EmptySeq
    <3> QED
      BY <1>0, <2>1, <3>1, <3>2 DEF Last
  <2>4. /\ UNCHANGED <<cart, hydrated, venue, stack>>
        /\ disk' = Head(writes) /\ writes' = Tail(writes) /\ hydrated
    BY <1>2, <2>1 DEF Stored, FlowInv, CartInv
  <2>5. cart.from = Unknown \/ Last(writes) = cart
    BY <2>1, <2>4 DEF FlowInv, CartInv, SavedIsCart
  <2> QED
    BY <1>0, <2>1, <2>2, <2>3, <2>4, <2>5 DEF FlowInv, CartInv, SavedIsCart, Choosing
<1>3. CASE Restart
  <2>1. <<>> \in Seq(OwnCart) /\ <<>> \in Seq(OffSteps)
    OBVIOUS
  <2> QED
    BY <1>0, <1>3, <2>1 DEF Restart, CartInv, SavedIsCart, Choosing
<1>4. ASSUME NEW p \in Places, OpenServices(p) PROVE CartInv'
  <2>1. venue' = p /\ UNCHANGED <<disk, hydrated>> /\ SetPlace(p)
    BY <1>4 DEF OpenServices
  <2>2. CASE cart.place = p
    BY <1>0, <2>1, <2>2 DEF SetPlace, CartInv, FlowInv, SavedIsCart, OwnCart
  <2>3. CASE cart.place # p
    <3>1. PICK c : c = [Empty EXCEPT !.place = p]
      OBVIOUS
    <3>2. c \in OwnCart /\ c.from = {} /\ c.place = p /\ Set(c)
      BY <2>1, <2>3, <3>1, EmptyCart DEF SetPlace, OwnCart, Cart, Empty
    <3>3. cart' = c
      BY <3>2 DEF Set
    <3> QED
      BY <2>1, <3>2, <3>3, SetStep DEF CartInv
  <2> QED
    BY <2>2, <2>3
<1>5. ASSUME NEW screen \in Screens \ OffSteps, At(screen), NEW c \in Cart, Choose(c),
             c.place = cart.place, c.from = cart.from
      PROVE CartInv'
  <2>1. Choosing /\ venue \in Places /\ hydrated
    BY <1>0, <1>5, StepsChoose DEF Choose
  <2>2. PICK d : d = [c EXCEPT !.from = IF @ = Unknown THEN @ ELSE @ \cup {venue}]
    OBVIOUS
  <2>3. d \in Cart /\ d.place = c.place
        /\ d.from = IF c.from = Unknown THEN c.from ELSE c.from \cup {venue}
    BY <2>1, <2>2 DEF Cart, Unknown
  <2>4. c.from = Unknown \/ (c.from \subseteq {venue} /\ c.place \in {None, venue})
    BY <1>5, <2>1 DEF FlowInv, CartInv
  <2>5. d.from = Unknown \/ (d.from \subseteq {venue} /\ d.place \in {None, venue})
    BY <2>3, <2>4
  <2>6. d \in OwnCart
    BY <2>3, <2>5 DEF OwnCart
  <2>7. Set(d) /\ UNCHANGED <<disk, hydrated, venue, stack>>
    BY <1>5, <2>2 DEF Choose
  <2>8. cart' = d
    BY <2>7 DEF Set
  <2> QED
    BY <2>1, <2>5, <2>6, <2>7, <2>8, SetStep DEF CartInv
<1>6. ASSUME NEW s \in Services, ToggleService(s) PROVE CartInv'
  <2>1. PICK c : c = [cart EXCEPT !.services = IF s \in @ THEN @ \ {s} ELSE @ \cup {s}]
    OBVIOUS
  <2>2. c \in Cart /\ c.place = cart.place /\ c.from = cart.from
    BY <1>0, <2>1 DEF Cart
  <2> QED
    BY <1>5, <1>6, <2>1, <2>2, ScreenNames DEF ToggleService, OffSteps
<1>7. ASSUME NEW p \in Pros, SetPro(p) PROVE CartInv'
  <2>1. PICK c : c = [cart EXCEPT !.pro = p]
    OBVIOUS
  <2>2. c \in Cart /\ c.place = cart.place /\ c.from = cart.from
    BY <1>0, <2>1 DEF Cart
  <2> QED
    BY <1>5, <1>7, <2>1, <2>2, ScreenNames DEF SetPro, OffSteps
<1>8. ASSUME NEW t \in Slots, SetSlot(t) PROVE CartInv'
  <2>1. PICK c : c = [cart EXCEPT !.slot = t]
    OBVIOUS
  <2>2. c \in Cart /\ c.place = cart.place /\ c.from = cart.from
    BY <1>0, <2>1 DEF Cart
  <2> QED
    BY <1>5, <1>8, <2>1, <2>2, ScreenNames DEF SetSlot, OffSteps
<1>9. ASSUME NEW i \in UnderWay, Answered(i) PROVE CartInv'
  <2>1. hydrated
    BY <1>9 DEF Answered, FlowInv, WaitingInv
  <2>2. Set(Empty) /\ UNCHANGED <<disk, hydrated>> /\ cart' = Empty
    BY <1>9 DEF Answered, Set
  <2> QED
    BY <1>0, <2>1, <2>2, SetStep DEF CartInv, Empty
<1>10. CASE Continue \/ Back \/ Confirm \/ OpenAssistant \/ OpenFromAssistant
            \/ \E o \in orders : OpenBooking(o)
  <2>1. UNCHANGED <<cart, disk, writes, hydrated>>
    BY <1>10 DEF Continue, Back, Confirm, OpenAssistant, OpenFromAssistant, OpenBooking
  <2>2. Choosing' => Choosing /\ UNCHANGED venue
    <3>1. CASE Continue
      <4>1. PICK n \in 1..3 : At(Steps[n]) /\ UNCHANGED venue
        BY <3>1 DEF Continue
      <4> QED
        BY <1>0, <4>1, ScreenNames, StepsChoose
    <3>2. CASE Back
      <4>1. stack # <<>> /\ stack' = Front(stack)
            /\ venue' = IF Len(stack) = 1 THEN None ELSE venue
        BY <3>2 DEF Back
      <4>2. <<>> \in Seq(OffSteps)
        OBVIOUS
      <4> QED
        BY <1>0, <4>1, <4>2, StackStep DEF Choosing
    <3>3. CASE OpenFromAssistant
      <4>1. stack # <<>> /\ stack' = Append(Front(stack), "missing") /\ "missing" \in OffSteps
            /\ UNCHANGED venue
        BY <3>3 DEF OpenFromAssistant, At, OffSteps
      <4> QED
        BY <1>0, <4>1, StackStep DEF Choosing
    <3>4. CASE Confirm
      BY <3>4 DEF Confirm, Choosing
    <3>5. CASE OpenAssistant \/ \E o \in orders : OpenBooking(o)
      <4>1. <<"booked">> \in Seq(OffSteps) /\ <<"assistant">> \in Seq(OffSteps)
        BY DEF OffSteps
      <4> QED
        BY <3>5, <4>1 DEF OpenAssistant, OpenBooking, Choosing
    <3> QED
      BY <1>10, <3>1, <3>2, <3>3, <3>4, <3>5
  <2> QED
    BY <2>1, <2>2, CartAlone
<1>11. CASE UNCHANGED vars \/ Server \/ \E i \in UnderWay : Failed(i)
  <2>1. UNCHANGED <<cart, disk, writes, hydrated, venue, stack>>
    BY <1>11 DEF vars, Server, Failed, ApiCrash, Lost, InsertOrder, InsertItem
  <2> QED
    BY <2>1, CartAlone DEF Choosing
<1> QED
  BY <1>1, <1>2, <1>3, <1>4, <1>6, <1>7, <1>8, <1>9, <1>10, <1>11, Zenon DEF Next, Phone

-----------------------------------------------------------------------------
(* The calls.  An answer goes to the app that made the call, and a call    *)
(* carries what it was made with to the end.                               *)

Heir(d, c) ==
    /\ d.from = c.from /\ d.want = c.want
    /\ d.alive => c.alive
    /\ d.phase \in {"stored", "lost"} => d.alive

LEMMA Heirs ==
  ASSUME NEW c \in Call
  PROVE /\ \A phase : Answer(c, phase) = None \/ Heir(Answer(c, phase), c)
        /\ Forgotten(c) = None \/ (Heir(Forgotten(c), c) /\ ~Forgotten(c).alive)
        /\ Heir([c EXCEPT !.phase = "row"], c)
<1>1. ASSUME NEW phase PROVE Answer(c, phase) = None \/ Heir(Answer(c, phase), c)
  <2>1. PICK d : d = [c EXCEPT !.phase = phase]
    OBVIOUS
  <2>2. d.from = c.from /\ d.want = c.want /\ d.alive = c.alive
    BY <2>1 DEF Call
  <2> QED
    BY <2>1, <2>2 DEF Answer, Heir
<1>2. Forgotten(c) = None \/ (Heir(Forgotten(c), c) /\ ~Forgotten(c).alive)
  <2>1. PICK d : d = [c EXCEPT !.alive = FALSE]
    OBVIOUS
  <2>2. d.from = c.from /\ d.want = c.want /\ d.alive = FALSE /\ d.phase = c.phase
    BY <2>1 DEF Call
  <2> QED
    BY <2>1, <2>2 DEF Forgotten, Heir
<1>3. Heir([c EXCEPT !.phase = "row"], c)
  BY DEF Call, Heir
<1> QED
  BY <1>1, <1>2, <1>3

\* A call as the confirm screen makes it.
Sent == [want |-> Wanted, from |-> cart.from, alive |-> TRUE, phase |-> "sent"]

\* Where the calls after a step come from.
LEMMA CallsMove ==
  ASSUME FlowAssumption, TypeInv, [Next]_vars, NEW i \in UnderWay'
  PROVE \/ Confirm /\ calls'[i] = Sent
        \/ i \in UnderWay /\ calls'[i] = calls[i] /\ ~Restart
        \/ i \in UnderWay /\ Heir(calls'[i], calls[i]) /\ (Restart => ~calls'[i].alive)
<1>0. /\ calls \in Seq(Call \cup {None}) /\ DOMAIN calls = 1..Len(calls) /\ Len(calls) \in Nat
      /\ \A j \in UnderWay : j \in DOMAIN calls /\ calls[j] \in Call
      /\ i \in DOMAIN calls' /\ calls'[i] # None
  BY CallTypes DEF TypeInv, TypeOK, UnderWay
<1> DEFINE Goal == \/ Confirm /\ calls'[i] = Sent
                   \/ i \in UnderWay /\ calls'[i] = calls[i] /\ ~Restart
                   \/ i \in UnderWay /\ Heir(calls'[i], calls[i]) /\ (Restart => ~calls'[i].alive)
<1>1. CASE Restart
  BY <1>0, <1>1, Heirs DEF Restart
<1>2. CASE ~Restart /\ UNCHANGED calls
  BY <1>0, <1>2 DEF UnderWay
<1>3. CASE ~Restart /\ ApiCrash
  BY <1>0, <1>3, Heirs DEF ApiCrash
<1>4. CASE ~Restart /\ Confirm
  <2>1. calls' = Append(calls, Sent)
    BY <1>4 DEF Confirm, Sent
  <2>2. i \in DOMAIN calls => calls'[i] = calls[i]
    BY <1>0, <2>1
  <2>3. i \notin DOMAIN calls => calls'[i] = Sent
    BY <1>0, <2>1
  <2> QED
    BY <1>0, <1>4, <2>2, <2>3 DEF UnderWay
<1>5. ASSUME NEW j \in UnderWay, ~Restart,
             Answered(j) \/ Failed(j) \/ Lost(j) \/ InsertOrder(j) \/ InsertItem(j)
      PROVE Goal
  <2>1. PICK r, a, b : /\ r = [calls[j] EXCEPT !.phase = "row"]
                       /\ a = Answer(calls[j], "stored") /\ b = Answer(calls[j], "lost")
    OBVIOUS
  <2>2. /\ Heir(r, calls[j])
        /\ a = None \/ Heir(a, calls[j])
        /\ b = None \/ Heir(b, calls[j])
    BY <1>0, <2>1, Heirs
  <2>3. calls' = calls \/ \E c \in {None, r, a, b} : calls' = [calls EXCEPT ![j] = c]
    <3>1. CASE Answered(j) \/ Failed(j)
      BY <3>1 DEF Answered, Failed
    <3>2. CASE Lost(j)
      BY <2>1, <3>2 DEF Lost
    <3>3. CASE InsertOrder(j)
      BY <2>1, <3>3 DEF InsertOrder
    <3>4. CASE InsertItem(j)
      BY <2>1, <3>4 DEF InsertItem
    <3> QED
      BY <1>5, <3>1, <3>2, <3>3, <3>4
  <2> QED
    BY <1>0, <1>5, <2>2, <2>3 DEF UnderWay
<1>6. ASSUME \/ Hydrate \/ Stored \/ Continue \/ Back \/ OpenAssistant \/ OpenFromAssistant
             \/ \E p \in Places : OpenServices(p)
             \/ \E s \in Services : ToggleService(s)
             \/ \E p \in Pros : SetPro(p)
             \/ \E t \in Slots : SetSlot(t)
             \/ \E o \in orders : OpenBooking(o)
             \/ UNCHANGED vars
      PROVE UNCHANGED calls
  <2>1. \A c : Choose(c) => UNCHANGED calls
    BY DEF Choose
  <2> QED
    BY <1>6, <2>1 DEF Hydrate, Stored, Continue, Back, OpenAssistant, OpenFromAssistant,
       OpenServices, ToggleService, SetPro, SetSlot, OpenBooking, vars
<1> QED
  BY <1>1, <1>2, <1>3, <1>4, <1>5, <1>6, Zenon DEF Next, Phone, Server

\* Before the read at module load the cart has no choices, after it nothing forgets that.
LEMMA UnreadStep ==
  ASSUME FlowAssumption, FlowInv, [Next]_vars
  PROVE /\ ~hydrated' => Restart \/ ~hydrated
        /\ ~hydrated' => cart'.services = {}
<1> DEFINE Goal == \/ Restart \/ hydrated'
                   \/ UNCHANGED hydrated /\ (cart' = cart \/ cart'.services = {})
<1>0. ~hydrated => cart.services = {}
  BY DEF FlowInv, WaitingInv
<1>1. ASSUME Hydrate PROVE Goal
  BY <1>1 DEF Hydrate
<1>2. ASSUME Restart PROVE cart'.services = {} /\ Goal
  BY <1>2 DEF Restart, Empty
<1>3. ASSUME NEW p \in Places, OpenServices(p)
      PROVE Goal
  <2>1. UNCHANGED hydrated /\ (cart' = cart \/ cart' = [Empty EXCEPT !.place = p])
    BY <1>3 DEF OpenServices, SetPlace, Set
  <2> QED
    BY <2>1 DEF Empty
<1>4. ASSUME NEW c, Choose(c) PROVE Goal
  BY <1>4 DEF Choose
<1>5. ASSUME NEW i \in UnderWay, Answered(i) PROVE Goal
  BY <1>5 DEF Answered, Set, Empty
<1>6. ASSUME \/ Stored \/ Continue \/ Back \/ Confirm \/ OpenAssistant \/ OpenFromAssistant
             \/ \E o \in orders : OpenBooking(o)
             \/ \E i \in UnderWay : Failed(i)
             \/ Server \/ UNCHANGED vars
      PROVE Goal
  BY <1>6 DEF Stored, Continue, Back, Confirm, OpenAssistant, OpenFromAssistant, OpenBooking,
     Failed, Server, ApiCrash, Lost, InsertOrder, InsertItem, vars
<1>7. ASSUME \/ \E s \in Services : ToggleService(s)
             \/ \E p \in Pros : SetPro(p)
             \/ \E t \in Slots : SetSlot(t)
      PROVE Goal
  BY <1>4, <1>7 DEF ToggleService, SetPro, SetSlot
<1>8. Goal
  <2> HIDE DEF Goal
  <2> QED
    BY <1>1, <1>2, <1>3, <1>5, <1>6, <1>7, Zenon DEF Next, Phone
<1> QED
  BY <1>0, <1>2, <1>8

LEMMA CallsStep ==
  ASSUME FlowAssumption, FlowInv, [Next]_vars PROVE WaitingInv' /\ CartIsPerVenue'
<1>0. TypeInv /\ CartInv /\ WaitingInv /\ CartIsPerVenue
  BY DEF FlowInv
<1>1. ASSUME Confirm
      PROVE /\ hydrated'
            /\ cart.from # Unknown => cart.from \subseteq {venue}
  <2>1. hydrated
    BY <1>0, <1>1 DEF Confirm, Ready, WaitingInv
  <2>2. Choosing
    <3>1. "confirm" \in Screens \ OffSteps
      BY ScreenNames DEF OffSteps
    <3> QED
      BY <1>0, <1>1, <3>1, StepsChoose DEF Confirm
  <2> QED
    BY <1>0, <1>1, <2>1, <2>2 DEF CartInv, Confirm
<1>2. /\ Sent.alive /\ Sent.phase = "sent" /\ Sent.from = cart.from /\ Sent.want.place = venue
  BY DEF Sent, Wanted
<1>3. ASSUME NEW i \in UnderWay'
      PROVE /\ ~hydrated' => ~calls'[i].alive
            /\ calls'[i].phase \in {"stored", "lost"} => calls'[i].alive
            /\ calls'[i].from # Unknown => calls'[i].from \subseteq {calls'[i].want.place}
  <2>1. CASE Confirm /\ calls'[i] = Sent
    BY <1>1, <1>2, <2>1
  <2>2. CASE i \in UnderWay /\ calls'[i] = calls[i] /\ ~Restart
    BY <1>0, <2>2, UnreadStep DEF WaitingInv, CartIsPerVenue
  <2>3. CASE i \in UnderWay /\ Heir(calls'[i], calls[i]) /\ (Restart => ~calls'[i].alive)
    BY <1>0, <2>3, UnreadStep DEF WaitingInv, CartIsPerVenue, Heir
  <2> QED
    BY <1>0, <2>1, <2>2, <2>3, CallsMove
<1> QED
  BY <1>3, UnreadStep DEF WaitingInv, CartIsPerVenue

LEMMA FlowCorrect ==
  ASSUME FlowAssumption PROVE Spec => []FlowInv
<1>1. Init => FlowInv
  <2>1. DOMAIN <<>> = {} /\ <<>> \in Seq(OwnCart) /\ <<>> \in Seq(OffSteps)
    OBVIOUS
  <2>2. Empty \in OwnCart /\ Empty.services = {}
    BY EmptyCart DEF OwnCart, Empty
  <2> QED
    BY <2>1, <2>2, TypeInit DEF Init, FlowInv, WaitingInv, CartInv, SavedIsCart, Choosing,
       CartIsPerVenue, UnderWay
<1>2. FlowInv /\ [Next]_vars => FlowInv'
  BY TypeStep, CartStep, CallsStep DEF FlowInv
<1> QED
  BY <1>1, <1>2, PTL DEF Spec

\* No slot, service or professional reaches a venue on whose screens it was not chosen, as
\* far as the cart's history is known.
THEOREM NothingBleedsAcross ==
  ASSUME FlowAssumption PROVE Spec => []CartIsPerVenue
<1>1. FlowInv => CartIsPerVenue
  BY DEF FlowInv
<1> QED
  BY <1>1, FlowCorrect, PTL

\* The cart is on the disk or on its way there, emptied carts included.
THEOREM CartReachesDisk ==
  ASSUME FlowAssumption PROVE Spec => []SavedIsCart
<1>1. FlowInv => SavedIsCart
  BY DEF FlowInv, CartInv
<1> QED
  BY <1>1, FlowCorrect, PTL

-----------------------------------------------------------------------------
(* The home screen.  A reply is pushed at the end of the log, and whoever  *)
(* waits for an answer stays in it.                                        *)

LEMMA WiderSeq ==
  ASSUME NEW S, NEW T, S \subseteq T, NEW s \in Seq(S)
  PROVE s \in Seq(T)
<1>1. Len(s) \in Nat /\ DOMAIN s = 1..Len(s) /\ \A n \in 1..Len(s) : s[n] \in S
  OBVIOUS
<1>2. s = [n \in 1..Len(s) |-> s[n]]
  OBVIOUS
<1> QED
  BY <1>1, <1>2

LEMMA HomeReplyPushed ==
  ASSUME Home!TypeOK, NEW b \in Home!Reply, log' = Append(log, b)
  PROVE /\ log' \in Seq(Home!Reply) /\ Len(log) \in Nat /\ Len(log') = Len(log) + 1
        /\ DOMAIN log = 1..Len(log) /\ DOMAIN log' = 1..Len(log) + 1
        /\ log'[Len(log) + 1] = b /\ \A n \in DOMAIN log : log'[n] = log[n]
        /\ seen \in 0..Len(log') /\ todo \in Seq(DOMAIN log')
<1>1. log \in Seq(Home!Reply) /\ seen \in 0..Len(log) /\ todo \in Seq(DOMAIN log)
  BY DEF Home!TypeOK
<1>2. /\ log' \in Seq(Home!Reply) /\ Len(log) \in Nat /\ Len(log') = Len(log) + 1
      /\ DOMAIN log = 1..Len(log) /\ DOMAIN log' = 1..Len(log) + 1
      /\ log'[Len(log) + 1] = b /\ \A n \in DOMAIN log : log'[n] = log[n]
  BY <1>1
<1>3. seen \in 0..Len(log')
  BY <1>1, <1>2
<1>4. DOMAIN log \subseteq DOMAIN log'
  BY <1>2
<1>5. todo \in Seq(DOMAIN log')
  BY <1>1, <1>4, WiderSeq
<1> QED
  BY <1>2, <1>3, <1>5

\* What a turn does to the log: it is the newest, and waits last.
LEMMA TurnPushed ==
  ASSUME Home!TypeOK, NEW q \in Places, NEW mine \in BOOLEAN, Home!Push(q, mine)
  PROVE /\ log' \in Seq(Home!Reply) /\ todo' \in Seq(DOMAIN log') /\ seen \in 0..Len(log')
        /\ Len(log) \in Nat /\ todo' # <<>> /\ todo'[Len(todo')] = Len(log) + 1
        /\ Home!Turns \subseteq 1..Len(log)
        /\ Home!Turns' = Home!Turns \cup {Len(log) + 1}
        /\ Home!Mine' = IF mine THEN Home!Mine \cup {Len(log) + 1} ELSE Home!Mine
<1>1. PICK b : b = [role |-> "user", of |-> q, mine |-> mine]
  OBVIOUS
<1>2. b \in Home!Reply /\ b.role = "user" /\ b.mine = mine
  BY <1>1 DEF Home!Reply
<1>3. log' = Append(log, b) /\ todo' = Append(todo, Len(log) + 1)
  BY <1>1 DEF Home!Push
<1>4. /\ log' \in Seq(Home!Reply) /\ Len(log) \in Nat /\ Len(log') = Len(log) + 1
      /\ DOMAIN log = 1..Len(log) /\ DOMAIN log' = 1..Len(log) + 1
      /\ log'[Len(log) + 1] = b /\ \A n \in DOMAIN log : log'[n] = log[n]
      /\ seen \in 0..Len(log') /\ todo \in Seq(DOMAIN log')
  BY <1>2, <1>3, HomeReplyPushed
<1>5. todo' \in Seq(DOMAIN log') /\ todo' # <<>> /\ todo'[Len(todo')] = Len(log) + 1
  BY <1>3, <1>4
<1>6. Home!Turns' = Home!Turns \cup {Len(log) + 1} /\ Home!Turns \subseteq 1..Len(log)
  BY <1>2, <1>4 DEF Home!Turns
<1>7. Home!Mine' = IF mine THEN Home!Mine \cup {Len(log) + 1} ELSE Home!Mine
  BY <1>2, <1>4, <1>6 DEF Home!Mine
<1> QED
  BY <1>4, <1>5, <1>6, <1>7

\* What an answer does to it: no turn is added, the oldest waits no longer.
LEMMA TurnAnswered ==
  ASSUME Home!TypeOK, Home!AnswerTurn
  PROVE /\ log' \in Seq(Home!Reply) /\ todo' \in Seq(DOMAIN log') /\ seen \in 0..Len(log')
        /\ Home!Turns' = Home!Turns /\ Home!Mine' = Home!Mine
        /\ todo # <<>> /\ todo' = Tail(todo) /\ log' # <<>>
        /\ log'[Len(log')].role = "say" /\ log'[Len(log')].of = Head(todo)
<1>1. PICK act \in Home!Acts, places \in {Seed} \cup {{}} :
        log' = Append(log, [role |-> "say", of |-> Head(todo), act |-> act, places |-> places])
  BY DEF Home!AnswerTurn
<1>2. todo # <<>> /\ todo' = Tail(todo)
  BY DEF Home!AnswerTurn
<1>3. todo \in Seq(DOMAIN log) /\ log \in Seq(Home!Reply)
  BY DEF Home!TypeOK
<1>4. DOMAIN log \subseteq Nat \ {0}
  BY <1>3
<1>5. Head(todo) \in Nat \ {0}
  BY <1>2, <1>3, <1>4
<1>6. PICK b : b = [role |-> "say", of |-> Head(todo), act |-> act, places |-> places]
  OBVIOUS
<1>7. b \in Home!Reply /\ b.role = "say" /\ b.of = Head(todo)
  BY <1>5, <1>6 DEF Home!Reply
<1>8. /\ log' \in Seq(Home!Reply) /\ Len(log) \in Nat /\ Len(log') = Len(log) + 1
      /\ DOMAIN log = 1..Len(log) /\ DOMAIN log' = 1..Len(log) + 1
      /\ log'[Len(log) + 1] = b /\ \A n \in DOMAIN log : log'[n] = log[n]
      /\ seen \in 0..Len(log') /\ todo \in Seq(DOMAIN log')
  BY <1>1, <1>6, <1>7, HomeReplyPushed
<1>9. todo' \in Seq(DOMAIN log')
  BY <1>2, <1>8
<1>10. Home!Turns' = Home!Turns
  BY <1>7, <1>8 DEF Home!Turns
<1>11. Home!Mine' = Home!Mine
  BY <1>8, <1>10 DEF Home!Mine, Home!Turns
<1> QED
  BY <1>2, <1>7, <1>8, <1>9, <1>10, <1>11

-----------------------------------------------------------------------------
(* What the home screen keeps: the turn that waits last is the newest, and *)
(* once none waits the log ends in its answer; what was sent is the query, *)
(* so the effect of an unchanged query sends nothing.                      *)

NewestTurn(n) == n \in Home!Turns /\ \A m \in Home!Turns : m <= n

LatestInv ==
  /\ todo # <<>> => NewestTurn(todo[Len(todo)])
  /\ todo = <<>> /\ log # <<>> => log[Len(log)].role = "say" /\ NewestTurn(log[Len(log)].of)

OnceInv == lastSent = query /\ IsFiniteSet(Home!Mine) /\ Cardinality(Home!Mine) <= typed

HomeInv == Home!TypeOK /\ LatestInv /\ OnceInv

LEMMA HomeStarts ==
  ASSUME Home!HomeAssumption, Home!Init PROVE HomeInv
<1>1. Home!TypeOK
  <2>1. \A S : <<>> \in Seq(S)
    OBVIOUS
  <2>2. Len(<<>>) = 0 /\ 0 \in 0..0 /\ (MaxTurns \in Nat => 0 \in 0..MaxTurns)
    OBVIOUS
  <2> QED
    BY <2>1, <2>2 DEF Home!Init, Home!TypeOK, Home!HomeAssumption
<1>2. Home!Mine = {}
  BY DEF Home!Init, Home!Mine, Home!Turns
<1>3. LatestInv /\ OnceInv
  BY <1>2, FS_EmptySet DEF Home!Init, LatestInv, OnceInv
<1> QED
  BY <1>1, <1>3 DEF HomeInv

\* A turn of this phone or of another.
LEMMA HomeTurn ==
  ASSUME HomeInv, NEW q \in Places, NEW mine \in BOOLEAN, Home!Push(q, mine)
  PROVE /\ log' \in Seq(Home!Reply) /\ todo' \in Seq(DOMAIN log') /\ seen \in 0..Len(log')
        /\ LatestInv' /\ IsFiniteSet(Home!Mine)'
        /\ Cardinality(Home!Mine)' <= Cardinality(Home!Mine) + (IF mine THEN 1 ELSE 0)
<1>1. /\ log' \in Seq(Home!Reply) /\ todo' \in Seq(DOMAIN log') /\ seen \in 0..Len(log')
      /\ Len(log) \in Nat /\ todo' # <<>> /\ todo'[Len(todo')] = Len(log) + 1
      /\ Home!Turns \subseteq 1..Len(log)
      /\ Home!Turns' = Home!Turns \cup {Len(log) + 1}
      /\ Home!Mine' = IF mine THEN Home!Mine \cup {Len(log) + 1} ELSE Home!Mine
  BY TurnPushed DEF HomeInv
<1>2. PICK x : x = Len(log) + 1
  OBVIOUS
<1>3. LatestInv'
  <2>1. x \in Home!Turns' /\ \A m \in Home!Turns' : m <= x
    BY <1>1, <1>2
  <2>2. todo' # <<>> /\ todo'[Len(todo')] = x
    BY <1>1, <1>2
  <2> QED
    BY <2>1, <2>2 DEF LatestInv, NewestTurn
<1>4. IsFiniteSet(Home!Mine) /\ Cardinality(Home!Mine) \in Nat
  BY FS_CardinalityType DEF HomeInv, OnceInv
<1>5. PICK S : S = Home!Mine
  OBVIOUS
<1>6. CASE mine = FALSE
  BY <1>1, <1>3, <1>4, <1>6
<1>7. CASE mine = TRUE
  <2>1. /\ IsFiniteSet(S \cup {x})
        /\ Cardinality(S \cup {x}) = IF x \in S THEN Cardinality(S) ELSE Cardinality(S) + 1
    BY <1>4, <1>5, FS_AddElement
  <2>2. Home!Mine' = S \cup {x}
    BY <1>1, <1>2, <1>5, <1>7
  <2>3. Cardinality(Home!Mine') <= Cardinality(Home!Mine) + 1
    BY <1>4, <1>5, <2>1, <2>2
  <2> QED
    BY <1>1, <1>3, <1>7, <2>1, <2>2, <2>3
<1> QED
  BY <1>6, <1>7

LEMMA HomeStep ==
  ASSUME Home!HomeAssumption, HomeInv, [Home!Next]_(Home!vars)
  PROVE HomeInv'
<1> DEFINE Choice ==
             /\ query \in Places \cup {None} /\ lastSent \in Places \cup {None}
             /\ typed \in 0..MaxTurns /\ located \in BOOLEAN
             /\ chip \in {restaurant} \cup {None} /\ drawer \in {restaurant} \cup {None}
           Rail ==
             /\ link \in {"connecting", "open", "closed"}
             /\ log \in Seq(Home!Reply) /\ todo \in Seq(DOMAIN log) /\ seen \in 0..Len(log)
<1>0. Choice /\ Rail /\ MaxTurns \in Nat /\ lastSent = query /\ LatestInv
      /\ IsFiniteSet(Home!Mine) /\ Cardinality(Home!Mine) <= typed
      /\ Cardinality(Home!Mine) \in Nat
  BY FS_CardinalityType DEF HomeInv, OnceInv, Home!TypeOK, Home!HomeAssumption
<1> SUFFICES Choice' /\ Rail' /\ LatestInv' /\ OnceInv'
  BY DEF HomeInv, Home!TypeOK
<1>a. ASSUME UNCHANGED <<log, todo>>
      PROVE LatestInv' /\ Home!Mine' = Home!Mine
  BY <1>0, <1>a DEF LatestInv, NewestTurn, Home!Mine, Home!Turns
<1>1. ASSUME NEW q \in Places \cup {None}, Home!Submit(q)
      PROVE Choice' /\ Rail' /\ LatestInv' /\ OnceInv'
  <2>1. Choice' /\ lastSent' = query' /\ UNCHANGED <<link, seen>>
    BY <1>0, <1>1 DEF Home!Submit, Home!Dispatch
  <2>2. CASE UNCHANGED <<log, todo>>
    <3>1. typed <= typed'
      BY <1>0, <1>1 DEF Home!Submit
    <3> QED
      BY <1>0, <1>a, <2>1, <2>2, <3>1 DEF OnceInv
  <2>3. CASE q # None /\ Home!Push(q, TRUE)
    <3>1. q \in Places /\ typed' = typed + 1
      BY <1>1, <2>3 DEF Home!Submit
    <3>2. /\ log' \in Seq(Home!Reply) /\ todo' \in Seq(DOMAIN log') /\ seen \in 0..Len(log')
          /\ LatestInv' /\ IsFiniteSet(Home!Mine)'
          /\ Cardinality(Home!Mine)' <= Cardinality(Home!Mine) + 1
      BY <2>3, <3>1, HomeTurn
    <3>3. Cardinality(Home!Mine)' \in Nat
      BY <3>2, FS_CardinalityType
    <3>4. OnceInv'
      BY <1>0, <2>1, <3>1, <3>2, <3>3 DEF OnceInv
    <3> QED
      BY <1>0, <2>1, <3>2, <3>4
  <2> QED
    BY <1>1, <2>2, <2>3 DEF Home!Submit, Home!Dispatch, Home!Send
<1>2. CASE Home!Clear
  <2>1. Choice' /\ lastSent' = query' /\ UNCHANGED <<link, seen, log, todo, typed>>
    BY <1>0, <1>2 DEF Home!Clear, Home!Dispatch
  <2> QED
    BY <1>0, <1>a, <2>1 DEF OnceInv
<1>3. CASE Home!Located
  <2>1. Choice' /\ lastSent' = query' /\ UNCHANGED <<link, seen, log, todo, typed>>
    BY <1>0, <1>3 DEF Home!Located, Home!Dispatch
  <2> QED
    BY <1>0, <1>a, <2>1 DEF OnceInv
<1>4. ASSUME NEW v \in {restaurant} \cup {None}, Home!PickChip(v) \/ Home!ApplyFilters(v)
      PROVE Choice' /\ Rail' /\ LatestInv' /\ OnceInv'
  <2>1. Choice' /\ lastSent' = query' /\ UNCHANGED <<link, seen, log, todo, typed>>
    BY <1>0, <1>4 DEF Home!PickChip, Home!ApplyFilters
  <2> QED
    BY <1>0, <1>a, <2>1 DEF OnceInv
<1>5. CASE Home!Connected \/ Home!Closed \/ Home!Deliver
  <2>1. Choice' /\ lastSent' = query' /\ UNCHANGED <<log, todo, typed>>
    BY <1>0, <1>5 DEF Home!Connected, Home!Closed, Home!Deliver
  <2>2. link' \in {"connecting", "open", "closed"} /\ seen' \in 0..Len(log)
    BY <1>0, <1>5 DEF Home!Connected, Home!Closed, Home!Deliver
  <2> QED
    BY <1>0, <1>a, <2>1, <2>2 DEF OnceInv
<1>6. ASSUME NEW q \in Places, Home!Elsewhere(q)
      PROVE Choice' /\ Rail' /\ LatestInv' /\ OnceInv'
  <2>1. Choice' /\ lastSent' = query' /\ UNCHANGED <<link, seen, typed>>
    BY <1>0, <1>6 DEF Home!Elsewhere
  <2>2. Home!Push(q, FALSE)
    BY <1>6 DEF Home!Elsewhere
  <2>3. /\ log' \in Seq(Home!Reply) /\ todo' \in Seq(DOMAIN log') /\ seen \in 0..Len(log')
        /\ LatestInv' /\ IsFiniteSet(Home!Mine)'
        /\ Cardinality(Home!Mine)' <= Cardinality(Home!Mine) + 0
    BY <2>2, HomeTurn
  <2>4. Cardinality(Home!Mine)' \in Nat
    BY <2>3, FS_CardinalityType
  <2>5. OnceInv'
    BY <1>0, <2>1, <2>3, <2>4 DEF OnceInv
  <2> QED
    BY <1>0, <2>1, <2>3, <2>5
<1>7. CASE Home!AnswerTurn
  <2>1. Choice' /\ lastSent' = query' /\ UNCHANGED <<link, seen, typed>>
    BY <1>0, <1>7 DEF Home!AnswerTurn
  <2>2. /\ log' \in Seq(Home!Reply) /\ todo' \in Seq(DOMAIN log') /\ seen \in 0..Len(log')
        /\ Home!Turns' = Home!Turns /\ Home!Mine' = Home!Mine
        /\ todo # <<>> /\ todo' = Tail(todo) /\ log' # <<>>
        /\ log'[Len(log')].role = "say" /\ log'[Len(log')].of = Head(todo)
    BY <1>7, TurnAnswered DEF HomeInv
  <2>3. PICK k : k = todo[Len(todo)] /\ k \in Home!Turns' /\ \A m \in Home!Turns' : m <= k
    BY <1>0, <2>2 DEF LatestInv, NewestTurn
  <2>4. LatestInv'
    <3>1. /\ todo \in Seq(DOMAIN log) /\ Len(todo) \in Nat
          /\ Len(todo) = 1 \/ Len(todo) > 1
      <4>1. todo \in Seq(DOMAIN log) /\ Len(todo) \in Nat
        BY <1>0
      <4>2. Len(todo) # 0
        BY <2>2, <4>1, EmptySeq
      <4>3. \A n \in Nat : n # 0 => n = 1 \/ n > 1
        OBVIOUS
      <4> QED
        BY <4>1, <4>2, <4>3
    <3>2. CASE Len(todo) = 1
      <4>1. todo' = <<>> /\ Head(todo) = todo[Len(todo)]
        BY <2>2, <3>1, <3>2
      <4> QED
        BY <2>2, <2>3, <4>1 DEF LatestInv, NewestTurn
    <3>3. CASE Len(todo) > 1
      <4>1. /\ Len(todo') = Len(todo) - 1
            /\ \A i \in 1..Len(todo) - 1 : todo'[i] = todo[i + 1]
        BY <2>2, <3>1
      <4>2. todo' # <<>> /\ todo'[Len(todo')] = todo[Len(todo)]
        BY <3>1, <3>3, <4>1
      <4> QED
        BY <2>2, <2>3, <4>2 DEF LatestInv, NewestTurn
    <3> QED
      BY <3>1, <3>2, <3>3
  <2> QED
    BY <1>0, <2>1, <2>2, <2>4 DEF OnceInv
<1>8. CASE UNCHANGED Home!vars
  <2>1. Choice' /\ lastSent' = query' /\ UNCHANGED <<link, seen, log, todo, typed>>
    BY <1>0, <1>8 DEF Home!vars
  <2> QED
    BY <1>0, <1>a, <2>1 DEF OnceInv
<1> QED
  BY <1>1, <1>2, <1>3, <1>4, <1>5, <1>6, <1>7, <1>8 DEF Home!Next

LEMMA NewestOfReplies ==
  ASSUME NEW n \in Nat, NEW S \in SUBSET (1..n), NEW k \in S, \A m \in S : m <= k
  PROVE Home!Newest(S) = k
<1> DEFINE isTop(j) == j \in S /\ \A m \in S : m <= j
<1>1. isTop(k) /\ S # {} /\ k \in Nat /\ \A m \in S : m \in Nat
  OBVIOUS
<1>2. \A j : isTop(j) => j = k
  BY <1>1
<1>3. isTop(CHOOSE j : isTop(j))
  BY <1>1
<1>4. Home!Newest(S) = CHOOSE j : isTop(j)
  BY <1>1 DEF Home!Newest
<1> QED
  BY <1>2, <1>3, <1>4

\* With everything answered and delivered, the answer shown is that of the newest turn.
LEMMA AnswerIsNewest ==
  ASSUME HomeInv PROVE Home!SettledViewIsLatest
<1> SUFFICES ASSUME todo = <<>>, seen = Len(log), Home!Answer # 0
             PROVE log[Home!Answer].of = Home!Newest(Home!Turns)
  BY DEF Home!SettledViewIsLatest
<1> DEFINE top == Len(log)
           says == {n \in Home!Seqs("say") : n > Home!LastUser}
<1>1. log \in Seq(Home!Reply) /\ top \in Nat /\ DOMAIN log = 1..top
  BY DEF HomeInv, Home!TypeOK
<1>2. log # <<>>
  <2>1. Home!Answer = Home!Newest(says)
    BY DEF Home!Answer
  <2>2. CASE log = <<>>
    <3>1. says = {}
      BY <2>2 DEF Home!Seqs
    <3> QED
      BY <2>1, <3>1 DEF Home!Newest
  <2> QED
    BY <2>2
<1>3. log[top].role = "say" /\ NewestTurn(log[top].of)
  BY <1>2 DEF HomeInv, LatestInv
<1>4. Home!Turns \subseteq 1..top /\ Home!Seqs("user") = Home!Turns
  BY <1>1 DEF Home!Turns, Home!Seqs
<1>5. Home!Newest(Home!Turns) = log[top].of
  BY <1>1, <1>3, <1>4, NewestOfReplies DEF NewestTurn
<1>6. Home!LastUser = log[top].of /\ log[top].of \in Home!Turns
  BY <1>3, <1>4, <1>5 DEF Home!LastUser, NewestTurn
<1>7. log[top].of # top /\ log[top].of \in 1..top
  BY <1>3, <1>4, <1>6 DEF Home!Turns
<1>8. top \in says /\ \A n \in says : n <= top /\ n \in Nat
  BY <1>1, <1>3, <1>6, <1>7 DEF Home!Seqs
<1>9. Home!Newest(says) = top
  <2>1. says \in SUBSET (1..top)
    BY <1>1 DEF Home!Seqs
  <2> HIDE DEF says
  <2> QED
    BY <1>1, <1>8, <2>1, NewestOfReplies
<1> QED
  BY <1>5, <1>9 DEF Home!Answer

-----------------------------------------------------------------------------
(* The whole.  AtlasProofs is about the same definitions as MCConsumer's   *)
(* instance of Atlas, which is all that SamePage says.                     *)

PageProofs == INSTANCE AtlasProofs WITH
    Businesses <- Seed, VerticalOf <- VerticalOfSeed,
    NameSets <- {Seed}, Results <- {Seed},
    AgentsFor <- (restaurant :> {reservations, concierge}) @@ (gym :> {membership, concierge}),
    DefaultAgent <- (restaurant :> reservations) @@ (gym :> membership),
    log <- railLog, todo <- railTodo

LEMMA SamePage ==
  /\ Page!AtlasAssumption <=> PageProofs!AtlasAssumption
  /\ Page!Init <=> PageProofs!Init
  /\ Page!Next <=> PageProofs!Next
  /\ Page!TypeOK <=> PageProofs!TypeOK
  /\ Page!SettledIsNotThinking <=> PageProofs!SettledIsNotThinking
<1>1. Page!AtlasAssumption <=> PageProofs!AtlasAssumption
  BY DEF Page!Verticals, PageProofs!Verticals, Page!Agents, PageProofs!Agents,
     Page!AtlasAssumption, PageProofs!AtlasAssumption
<1>2. Page!Init <=> PageProofs!Init
  BY DEF Page!Init, PageProofs!Init
<1>3. Page!Next <=> PageProofs!Next
  BY DEF Page!choice, PageProofs!choice, Page!channel, PageProofs!channel, Page!workflow,
     PageProofs!workflow, Page!Verticals, PageProofs!Verticals, Page!Agents, PageProofs!Agents,
     Page!Kinds, PageProofs!Kinds, Page!Filtered, PageProofs!Filtered, Page!Selected,
     PageProofs!Selected, Page!AgentSlug, PageProofs!AgentSlug, Page!Newest, PageProofs!Newest,
     Page!Spoken, PageProofs!Spoken, Page!Action, PageProofs!Action, Page!HasAction,
     PageProofs!HasAction, Page!PendingBookingSlot, PageProofs!PendingBookingSlot,
     Page!ShowBanner, PageProofs!ShowBanner, Page!Select, PageProofs!Select, Page!OnSelect,
     PageProofs!OnSelect, Page!PickMatch, PageProofs!PickMatch, Page!PickSearchResult,
     PageProofs!PickSearchResult, Page!PickAgent, PageProofs!PickAgent, Page!SetFilters,
     PageProofs!SetFilters, Page!DismissBanner, PageProofs!DismissBanner, Page!Push,
     PageProofs!Push, Page!Send, PageProofs!Send, Page!Submit, PageProofs!Submit,
     Page!AskAbout, PageProofs!AskAbout, Page!PickSlot, PageProofs!PickSlot, Page!NewSession,
     PageProofs!NewSession, Page!Opened, PageProofs!Opened, Page!Dropped, PageProofs!Dropped,
     Page!CloseEvent, PageProofs!CloseEvent, Page!LateCloseEvent, PageProofs!LateCloseEvent,
     Page!Note, PageProofs!Note, Page!Say, PageProofs!Say, Page!Deliver, PageProofs!Deliver,
     Page!Next, PageProofs!Next
<1>4. Page!TypeOK <=> PageProofs!TypeOK
  BY DEF Page!Verticals, PageProofs!Verticals, Page!Agents, PageProofs!Agents, Page!Kinds,
     PageProofs!Kinds, Page!Reply, PageProofs!Reply, Page!TypeOK, PageProofs!TypeOK
<1>5. Page!SettledIsNotThinking <=> PageProofs!SettledIsNotThinking
  BY DEF Page!Newest, PageProofs!Newest, Page!Spoken, PageProofs!Spoken, Page!Thinking,
     PageProofs!Thinking, Page!SettledIsNotThinking, PageProofs!SettledIsNotThinking
<1> QED
  BY <1>1, <1>2, <1>3, <1>4, <1>5

-----------------------------------------------------------------------------
(* A behaviour of the whole is one of each surface: the one it drives      *)
(* takes its steps, the others none.                                       *)

Moves == [ConsumerNext]_<<surface, vars, homeVars, pageVars>>

LEMMA FlowDriven == (ConsumerInit => Init) /\ (Moves => [Next]_vars)
BY DEF ConsumerInit, Moves, ConsumerNext

LEMMA HomeDriven == (ConsumerInit => Home!Init) /\ (Moves => [Home!Next]_(Home!vars))
BY DEF ConsumerInit, Moves, ConsumerNext, homeVars, Home!vars

LEMMA PageDriven ==
  /\ ConsumerInit => PageProofs!Init
  /\ Moves => [PageProofs!Next]_(PageProofs!atlasVars)
<1>1. Moves => [Page!Next]_pageVars
  BY DEF Moves, ConsumerNext
<1>2. UNCHANGED pageVars => UNCHANGED PageProofs!atlasVars
  BY DEF pageVars, PageProofs!atlasVars, PageProofs!choice, PageProofs!channel,
     PageProofs!workflow
<1> QED
  BY <1>1, <1>2, SamePage DEF ConsumerInit

\* Every variable of the three surfaces has its type.
THEOREM ConsumerTypes == ConsumerSpec => []AllTypeOK
<1>1. (ConsumerInit => TypeInv) /\ (TypeInv /\ Moves => TypeInv')
  BY FlowDriven, TypeInit, TypeStep, ConsumerAssumption
<1>2. (ConsumerInit => HomeInv) /\ (HomeInv /\ Moves => HomeInv')
  BY HomeDriven, HomeStarts, HomeStep, ConsumerAssumption
<1>3. (ConsumerInit => PageProofs!Init) /\ (Moves => [PageProofs!Next]_(PageProofs!atlasVars))
  BY PageDriven
<1>4. PageProofs!Spec => []PageProofs!TypeOK
  BY PageProofs!TypeCorrect, SamePage, ConsumerAssumption
<1>5. TypeInv /\ HomeInv /\ PageProofs!TypeOK => AllTypeOK
  BY SamePage DEF TypeInv, HomeInv, AllTypeOK
<1> QED
  BY <1>1, <1>2, <1>3, <1>4, <1>5, PTL DEF ConsumerSpec, Moves, PageProofs!Spec

\* With every turn answered and delivered the home screen shows the answer to the session's
\* newest, whichever phone sent it and however turns and answers were interleaved.
THEOREM ViewSettles == ConsumerSpec => []SettledViewIsLatest
<1>1. (ConsumerInit => HomeInv) /\ (HomeInv /\ Moves => HomeInv')
  BY HomeDriven, HomeStarts, HomeStep, ConsumerAssumption
<1>2. HomeInv => SettledViewIsLatest
  BY AnswerIsNewest DEF SettledViewIsLatest
<1> QED
  BY <1>1, <1>2, PTL DEF ConsumerSpec, Moves

\* A query becomes at most one turn, although the location fix runs the effect again.
THEOREM QuerySentOnce == ConsumerSpec => []OneTurnPerQuery
<1>1. (ConsumerInit => HomeInv) /\ (HomeInv /\ Moves => HomeInv')
  BY HomeDriven, HomeStarts, HomeStep, ConsumerAssumption
<1>2. HomeInv => OneTurnPerQuery
  <2>1. HomeInv => Cardinality(Home!Mine) <= typed
    BY DEF HomeInv, OnceInv
  <2>2. Home!Cardinality(Home!Mine) = Cardinality(Home!Mine)
    BY DEF Cardinality, Home!Cardinality, IsFiniteSet, Home!IsFiniteSet
  <2> QED
    BY <2>1, <2>2 DEF OneTurnPerQuery, Home!OneTurnPerQuery
<1> QED
  BY <1>1, <1>2, PTL DEF ConsumerSpec, Moves

\* The rail of the web page's first session stops waiting once everything is answered.
THEOREM RailSettles == ConsumerSpec => []SettledIsNotThinking
<1>1. (ConsumerInit => PageProofs!Init) /\ (Moves => [PageProofs!Next]_(PageProofs!atlasVars))
  BY PageDriven
<1>2. PageProofs!Spec => []PageProofs!SettledIsNotThinking
  BY PageProofs!StopsThinking, SamePage, ConsumerAssumption
<1>3. PageProofs!SettledIsNotThinking => SettledIsNotThinking
  BY SamePage DEF SettledIsNotThinking
<1> QED
  BY <1>1, <1>2, <1>3, PTL DEF ConsumerSpec, Moves, PageProofs!Spec

\* Every message of the web page goes to an agent its business has.
THEOREM MessagesFitTheirBusiness == ConsumerSpec => EnvelopeAgentFits
<1>1. (ConsumerInit => PageProofs!Init) /\ (Moves => [PageProofs!Next]_(PageProofs!atlasVars))
  BY PageDriven
<1>2. PageProofs!Spec => PageProofs!EnvelopeAgentFits
  BY PageProofs!MessagesFit, SamePage, ConsumerAssumption
<1>3. PageProofs!EnvelopeAgentFits => EnvelopeAgentFits
  BY PTL DEF EnvelopeAgentFits, Page!EnvelopeAgentFits, PageProofs!EnvelopeAgentFits, Page!AgentSlug,
     PageProofs!AgentSlug, Page!Selected, PageProofs!Selected, Page!Filtered,
     PageProofs!Filtered, Page!atlasVars, PageProofs!atlasVars, Page!choice, PageProofs!choice,
     Page!channel, PageProofs!channel, Page!workflow, PageProofs!workflow
<1> QED
  BY <1>1, <1>2, <1>3, PTL DEF ConsumerSpec, Moves, PageProofs!Spec

\* The booking flow keeps its own promises whichever surface is driven: the cart stays with
\* its venue, a request makes one order, what is shown is stored, what is saved is the cart.
THEOREM FlowKeepsItsPromises ==
  ConsumerSpec => []CartIsPerVenue /\ []OneOrderEach /\ []ShownIsStored /\ []SavedIsCart
<1>1. ConsumerSpec => Spec
  BY FlowDriven, PTL DEF ConsumerSpec, Moves, Spec
<1> QED
  BY <1>1, NothingBleedsAcross, OneOrderPerRequest, ShownStaysStored, CartReachesDisk,
     ConsumerAssumption, PTL
=============================================================================
