----------------------------- MODULE BookingFlow -----------------------------
(***************************************************************************)
(* The mobile booking flow: the cart store and its copy on disk, the four  *)
(* booking screens of one venue, the createBooking call, and the orders    *)
(* ledger behind POST /v1/bookings.  One phone, one user.                  *)
(*                                                                         *)
(* A slot stands for the pair (date, HH:mm) that setSlot stores together.  *)
(* The time screen may show any slot: the list is up to a minute old and   *)
(* the server does not look at it again.  A cart's field "from" is history *)
(* (not in the code): the venues on whose screens its contents were        *)
(* chosen, as far as known.                                                *)
(***************************************************************************)
EXTENDS Naturals, Sequences, SequencesExt

CONSTANTS
    Places,     \* venues
    Services,   \* services of the tenant's catalogue
    Pros,       \* professionals, "no-preference" included
    Slots,      \* (date, time) pairs
    None,       \* JavaScript's null
    MaxCalls,   \* bound: createBooking calls
    MaxWrites   \* bound: setItem calls under way

VARIABLES
    cart,       \* the zustand store
    disk,       \* AsyncStorage under "plnt.cart", or None
    writes,     \* setItem calls under way, oldest first
    hydrated,   \* has the read at module load returned?
    venue,      \* the placeId of the booking steps below, None without any
    stack,      \* screens above the tabs, the visible one last
    submitting, \* the call the visible confirm screen awaits, 0 if none
    calls,      \* createBooking calls, in the order they were made, None once over
    orders,     \* rows of orders, each with its order_items
    booked      \* orders a read-only confirm screen has shown as confirmed

vars == <<cart, disk, writes, hydrated, venue, stack, submitting, calls,
          orders, booked>>

\* "booked" is the confirm route with a booking_id: the read-only view; "missing" the
\* same with an id that is not in orders, which loads for ever.
Steps == <<"services", "professional", "time", "confirm">>
Screens == Range(Steps) \cup {"booked", "assistant", "missing"}

\* The cart was in use before it was read.
Unknown == {None}

Cart == [place : Places \cup {None}, services : SUBSET Services,
         pro : Pros \cup {None}, slot : Slots \cup {None},
         from : (SUBSET Places) \cup {Unknown}]
Request == [place : Places, services : SUBSET Services, pro : Pros, slot : Slots]
Call == [want : Request, from : (SUBSET Places) \cup {Unknown}, alive : BOOLEAN,
         phase : {"sent", "row", "stored", "lost"}]
Order == [want : Request, items : SUBSET Services]

FlowAssumption ==
    /\ None \notin Places \cup Pros \cup Slots \cup Call
    /\ MaxCalls \in Nat /\ MaxWrites \in Nat

Empty == [place |-> None, services |-> {}, pro |-> None, slot |-> None, from |-> {}]

TypeOK ==
    /\ cart \in Cart
    /\ disk \in Cart \cup {None}
    /\ writes \in Seq(Cart) /\ Len(writes) <= MaxWrites
    /\ hydrated \in BOOLEAN
    /\ venue \in Places \cup {None}
    /\ stack \in Seq(Screens)
    /\ submitting \in 0..Len(calls)
    /\ calls \in Seq(Call \cup {None}) /\ Len(calls) <= MaxCalls
    /\ orders \subseteq Order
    /\ booked \subseteq Request

Init ==
    /\ cart = Empty /\ disk = None /\ writes = <<>> /\ hydrated = FALSE
    /\ venue = None /\ stack = <<>> /\ submitting = 0
    /\ calls = <<>> /\ orders = {} /\ booked = {}

UnderWay == {i \in DOMAIN calls : calls[i] # None}

At(screen) == stack # <<>> /\ Last(stack) = screen

-----------------------------------------------------------------------------
(* The cart and its copy on disk. *)

\* Mistake: emptying the cart is not written.
SetUnsaved(c) ==
    /\ Len(writes) < MaxWrites
    /\ cart' = c
    /\ writes' = IF hydrated /\ c # Empty THEN Append(writes, c) ELSE writes

\* Every set() of the store notifies the listener, which writes once hydrated.
Set(c) ==
    /\ Len(writes) < MaxWrites
    /\ cart' = c
    /\ writes' = IF hydrated THEN Append(writes, c) ELSE writes

\* The read started at module load returns; what it found replaces the cart.
Hydrate ==
    /\ ~hydrated
    /\ hydrated' = TRUE
    /\ LET found == IF disk = None THEN cart ELSE disk IN
       cart' = IF cart = Empty THEN found ELSE [found EXCEPT !.from = Unknown]
    /\ UNCHANGED <<disk, writes, venue, stack, submitting, calls, orders, booked>>

Stored ==
    /\ writes # <<>>
    /\ disk' = Head(writes)
    /\ writes' = Tail(writes)
    /\ UNCHANGED <<cart, hydrated, venue, stack, submitting, calls, orders, booked>>

\* What a call becomes when its answer comes, or cannot come any more: with the app
\* that made it gone, nothing.
Answer(c, phase) == IF c.alive THEN [c EXCEPT !.phase = phase] ELSE None
Forgotten(c) ==
    IF c.phase \in {"sent", "row"} THEN [c EXCEPT !.alive = FALSE] ELSE None

\* The app is killed and started again: calls under way are answered to nobody.
Restart ==
    /\ cart' = Empty /\ writes' = <<>> /\ hydrated' = FALSE
    /\ venue' = None /\ stack' = <<>> /\ submitting' = 0
    /\ calls' = [i \in DOMAIN calls |->
                    IF i \in UnderWay THEN Forgotten(calls[i]) ELSE None]
    /\ UNCHANGED <<disk, orders, booked>>

-----------------------------------------------------------------------------
(* The screens. *)

\* Mistake: entering a venue keeps what is in the cart.
SetPlaceKeeps(p) ==
    IF cart.place = p THEN UNCHANGED <<cart, writes>> ELSE Set([cart EXCEPT !.place = p])

\* Another venue wipes everything else.
SetPlace(p) ==
    IF cart.place = p THEN UNCHANGED <<cart, writes>> ELSE Set([Empty EXCEPT !.place = p])

\* "Book now" opens the booking stack, and so does a plnt:// link, which may start the
\* app; the services screen binds the cart.
OpenServices(p) ==
    /\ stack = <<>>
    /\ venue' = p
    /\ stack' = <<"services">>
    /\ SetPlace(p)
    /\ UNCHANGED <<disk, hydrated, submitting, calls, orders, booked>>

\* Bound: the read at module load returns before a customer's first tap; a link may be
\* faster.
Choose(c) ==
    /\ hydrated
    /\ Set([c EXCEPT !.from = IF @ = Unknown THEN @ ELSE @ \cup {venue}])
    /\ UNCHANGED <<disk, hydrated, venue, stack, submitting, calls, orders, booked>>

ToggleService(s) ==
    /\ At("services")
    /\ Choose([cart EXCEPT !.services = IF s \in @ THEN @ \ {s} ELSE @ \cup {s}])

SetPro(p) ==
    /\ At("professional")
    /\ Choose([cart EXCEPT !.pro = p])

SetSlot(t) ==
    /\ At("time")
    /\ Choose([cart EXCEPT !.slot = t])

\* The summary bar, hidden while no service is chosen, carries the button.
CanAdvance(step) ==
    /\ cart.services # {}
    /\ step = "professional" => cart.pro # None
    /\ step = "time" => cart.slot # None

Continue ==
    \E n \in 1..3 :
        /\ At(Steps[n]) /\ CanAdvance(Steps[n])
        /\ stack' = Append(stack, Steps[n + 1])
        /\ UNCHANGED <<cart, disk, writes, hydrated, venue, submitting, calls, orders, booked>>

\* A popped screen is unmounted: a confirm screen forgets its call, which goes on.
Back ==
    /\ stack # <<>>
    /\ stack' = Front(stack)
    /\ venue' = IF Len(stack) = 1 THEN None ELSE venue
    /\ submitting' = 0
    /\ UNCHANGED <<cart, disk, writes, hydrated, calls, orders, booked>>

\* The confirm route with a booking_id shows that booking, read-only.
ShowBooked(w) == booked' = booked \cup {w}

\* A row of the Bookings tab opens the read-only view.
OpenBooking(o) ==
    /\ stack = <<>>
    /\ stack' = <<"booked">>
    /\ ShowBooked(o.want)
    /\ UNCHANGED <<cart, disk, writes, hydrated, venue, submitting, calls, orders>>

\* "Ask" opens the assistant over the venue, in a session of its own.
OpenAssistant ==
    /\ stack = <<>>
    /\ stack' = <<"assistant">>
    /\ UNCHANGED <<cart, disk, writes, hydrated, venue, submitting, calls, orders, booked>>

\* Its conversation has booked: the card links to the booking by its id, which is one
\* of the workflow's ledger (BookingSaga), never of orders.
OpenFromAssistant ==
    /\ At("assistant")
    /\ stack' = Append(Front(stack), "missing")
    /\ UNCHANGED <<cart, disk, writes, hydrated, venue, submitting, calls, orders, booked>>

-----------------------------------------------------------------------------
(* The createBooking call. *)

Ready == cart.services # {} /\ cart.pro # None /\ cart.slot # None

\* The request takes the venue from the route, the rest from the cart.
Wanted == [place |-> venue, services |-> cart.services,
           pro |-> cart.pro, slot |-> cart.slot]

Confirm ==
    /\ At("confirm") /\ Ready /\ submitting = 0
    /\ Len(calls) < MaxCalls
    /\ calls' = Append(calls, [want |-> Wanted, from |-> cart.from,
                               alive |-> TRUE, phase |-> "sent"])
    /\ submitting' = Len(calls) + 1
    /\ UNCHANGED <<cart, disk, writes, hydrated, venue, stack, orders, booked>>

\* The answer arrives: reset the cart, whatever is in it by now, and replace
\* the visible screen, whichever it is by now, by the read-only view.
Answered(i) ==
    /\ calls[i].phase = "stored"
    /\ calls' = [calls EXCEPT ![i] = None]
    /\ submitting' = 0
    /\ Set(Empty)
    /\ stack' = IF stack = <<>> THEN <<"booked">> ELSE Append(Front(stack), "booked")
    /\ venue' = IF Len(stack) <= 1 THEN None ELSE venue
    /\ ShowBooked(calls[i].want)
    /\ UNCHANGED <<disk, hydrated, orders>>

\* An error answer, or none: an alert; the cart and the screen stay.
Failed(i) ==
    /\ calls[i].phase = "lost"
    /\ calls' = [calls EXCEPT ![i] = None]
    /\ submitting' = IF submitting = i THEN 0 ELSE submitting
    /\ UNCHANGED <<cart, disk, writes, hydrated, venue, stack, orders, booked>>

\* The network loses the request or the answer.
Lost(i) ==
    /\ calls[i].phase \in {"sent", "stored"}
    /\ calls' = [calls EXCEPT ![i] = Answer(@, "lost")]
    /\ UNCHANGED <<cart, disk, writes, hydrated, venue, stack, submitting, orders, booked>>

-----------------------------------------------------------------------------
(* The ledger.  create_order holds the store's lock from its SELECT to the *)
(* last item; every statement commits by itself.                           *)

LockFree == \A i \in UnderWay : calls[i].phase # "row"

\* Mistake: the row is inserted without looking for one with the same key.
InsertAlways(i) ==
    /\ calls[i].phase = "sent" /\ LockFree
    /\ orders' = orders \cup {[want |-> calls[i].want, items |-> {}]}
    /\ calls' = [calls EXCEPT ![i].phase = "row"]
    /\ UNCHANGED <<cart, disk, writes, hydrated, venue, stack, submitting, booked>>

\* Mistake: the order is answered before its row is committed.
InsertNothing(i) ==
    /\ calls[i].phase = "sent" /\ LockFree
    /\ calls' = [calls EXCEPT ![i] = Answer(@, "stored")]
    /\ UNCHANGED <<cart, disk, writes, hydrated, venue, stack, submitting, orders, booked>>

\* The idempotency key is the whole request: a row with it is the answer.
InsertOrder(i) ==
    /\ calls[i].phase = "sent" /\ LockFree
    /\ IF \E o \in orders : o.want = calls[i].want
       THEN /\ calls' = [calls EXCEPT ![i] = Answer(@, "stored")]
            /\ UNCHANGED orders
       ELSE /\ orders' = orders \cup {[want |-> calls[i].want, items |-> {}]}
            /\ calls' = [calls EXCEPT ![i].phase = "row"]
    /\ UNCHANGED <<cart, disk, writes, hydrated, venue, stack, submitting, booked>>

InsertItem(i) ==
    /\ calls[i].phase = "row"
    /\ \E o \in orders :
        /\ o.want = calls[i].want
        /\ \E s \in o.want.services \ o.items :
            /\ orders' = (orders \ {o}) \cup {[o EXCEPT !.items = @ \cup {s}]}
            /\ calls' = IF o.items \cup {s} = o.want.services
                        THEN [calls EXCEPT ![i] = Answer(@, "stored")] ELSE calls
    /\ UNCHANGED <<cart, disk, writes, hydrated, venue, stack, submitting, booked>>

\* The API process dies: every call under way fails, what is committed stays.
ApiCrash ==
    /\ ~LockFree
    /\ calls' = [i \in DOMAIN calls |->
                    IF i \in UnderWay THEN Answer(calls[i], "lost") ELSE None]
    /\ UNCHANGED <<cart, disk, writes, hydrated, venue, stack, submitting, orders, booked>>

Phone ==
    \/ Hydrate \/ Stored \/ Restart \/ Continue \/ Back \/ Confirm
    \/ OpenAssistant \/ OpenFromAssistant
    \/ \E p \in Places : OpenServices(p)
    \/ \E s \in Services : ToggleService(s)
    \/ \E p \in Pros : SetPro(p)
    \/ \E t \in Slots : SetSlot(t)
    \/ \E o \in orders : OpenBooking(o)
    \/ \E i \in UnderWay : Answered(i) \/ Failed(i)

Server ==
    \/ ApiCrash
    \/ \E i \in UnderWay : Lost(i) \/ InsertOrder(i) \/ InsertItem(i)

Next == Phone \/ Server

Spec == Init /\ [][Next]_vars

-----------------------------------------------------------------------------
(* Properties. *)

\* What is sent to a venue was chosen on that venue's screens: a slot, a service
\* or a professional of one venue never reaches another (cart.ts, "a stale slot
\* can't bleed across venues").  It takes the disk, the read, the route and the
\* cart to break it; the exception is a cart in use before the read returned, on
\* screens that a link opened: the read then puts another venue's cart under them.
CartIsPerVenue ==
    \A i \in UnderWay :
        calls[i].from # Unknown => calls[i].from \subseteq {calls[i].want.place}

\* Retries after lost answers, API crashes and abandoned screens leave one order
\* per request in the ledger (the idempotency key of POST /v1/bookings).
OneOrderEach == \A o, q \in orders : o.want = q.want => o = q

\* A booking the phone has shown as confirmed is in the ledger as it was sent,
\* although the cart may have been changed or wiped since.
ShownIsStored == \A w \in booked : \E o \in orders : o.want = w

\* The cart is on its way to the disk: the newest write, or the copy on disk when
\* none is under way, is the cart (or there is none yet and the cart is empty).
\* What was chosen before the read returned is not written until the next change.
SavedIsCart ==
    hydrated => \/ cart.from = Unknown
                \/ writes # <<>> /\ Last(writes) = cart
                \/ writes = <<>> /\ (disk = cart \/ (disk = None /\ cart = Empty))
=============================================================================
