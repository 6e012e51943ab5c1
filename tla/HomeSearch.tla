------------------------------ MODULE HomeSearch ------------------------------
(***************************************************************************)
(* The mobile home screen: one shared search store, the effect that turns  *)
(* a query into a chat turn on the screen's only socket, and the result    *)
(* set of a reply, which replaces the local filter.  Every phone of a      *)
(* tenant uses the same user and session, hence the same workflow.  The    *)
(* socket delivers the reply log in order (duplicates, replays and caches  *)
(* are the business of ChatChannel).                                       *)
(* The banner is left out: the hook takes its text from content.text,      *)
(* which no say of the workflow has, so the screen never shows one; so are *)
(* the drawer's rating and distance, which narrow the list like a chip.    *)
(***************************************************************************)
EXTENDS Naturals, FiniteSets, Sequences

CONSTANTS
    Queries,    \* what a user may type
    Verticals,  \* kinds of venue
    Venues,     \* the seed list
    VerticalOf, \* [Venues -> Verticals]
    Matches,    \* [Queries -> SUBSET Venues]: name or address contains the text
    Results,    \* sets of venues a search may find
    None,       \* JavaScript's null
    MaxTurns,   \* bound: queries the user submits
    MaxElsewhere \* bound: queries of other phones

HomeAssumption ==
    /\ VerticalOf \in [Venues -> Verticals] /\ Matches \in [Queries -> SUBSET Venues]
    /\ Results \subseteq SUBSET Venues
    /\ None \notin Queries \cup Verticals
    /\ MaxTurns \in Nat /\ MaxElsewhere \in Nat

VARIABLES
    query,      \* search.query of the store
    lastSent,   \* lastDispatchedRef
    typed,      \* number of queries submitted so far
    located,    \* has the location fix arrived (and changed dispatch)?
    link,       \* the socket: "connecting", "open" or "closed"
    log,        \* the workflow's replies: user echoes and says
    todo,       \* seqs of the turns the workflow has echoed and not answered
    seen,       \* replies delivered to the screen
    chip,       \* vertical of the active chip, None for "All"
    drawer      \* vertical applied in the filter drawer, or None

vars == <<query, lastSent, typed, located, link, log, todo, seen, chip, drawer>>

\* A say that replaces the list, one that does not; "of" is the turn it answers,
\* "mine" whether this phone sent the turn (neither is in the code).
Acts == {"search_results", "other"}
Reply == [role : {"user"}, of : Queries, mine : BOOLEAN] \cup
         [role : {"say"}, of : Nat \ {0}, act : Acts, places : Results \cup {{}}]

TypeOK ==
    /\ query \in Queries \cup {None} /\ lastSent \in Queries \cup {None}
    /\ typed \in 0..MaxTurns /\ located \in BOOLEAN
    /\ link \in {"connecting", "open", "closed"}
    /\ log \in Seq(Reply) /\ todo \in Seq(DOMAIN log)
    /\ seen \in 0..Len(log)
    /\ chip \in Verticals \cup {None} /\ drawer \in Verticals \cup {None}

Init ==
    /\ query = None /\ lastSent = None /\ typed = 0 /\ located = FALSE
    /\ link = "connecting" /\ log = <<>> /\ todo = <<>> /\ seen = 0
    /\ chip = None /\ drawer = None

-----------------------------------------------------------------------------
(* What the screen shows. *)

Seqs(role) == {n \in 1..seen : log[n].role = role}
Newest(S) == IF S = {} THEN 0 ELSE CHOOSE n \in S : \A m \in S : m <= n

LastUser == Newest(Seqs("user"))

\* The newest say after the last user echo, 0 if there is none.
Answer == Newest({n \in Seqs("say") : n > LastUser})

HasResults == Answer # 0 /\ log[Answer].act = "search_results"

\* The chip wins over the drawer; "All" leaves the choice to the drawer.
EffectiveVertical == IF chip # None THEN chip ELSE drawer

\* The agent's set replaces the filter; a venue it names must be in the seed.
Filtered ==
    IF HasResults THEN log[Answer].places \cap Venues
    ELSE {v \in Venues : /\ EffectiveVertical \in {None, VerticalOf[v]}
                         /\ query # None => v \in Matches[query]}

-----------------------------------------------------------------------------
(* The effect of search.query and dispatch. *)

Push(q, mine) ==
    /\ log' = Append(log, [role |-> "user", of |-> q, mine |-> mine])
    /\ todo' = Append(todo, Len(log) + 1)

\* A turn is echoed when it arrives; the socket drops it unless it is open.
Send(q) == IF link = "open" THEN Push(q, TRUE) ELSE UNCHANGED <<log, todo>>

\* Mistake: the effect does not remember what it has sent.
DispatchAgain(q) ==
    /\ lastSent' = q
    /\ IF q = None THEN UNCHANGED <<log, todo>> ELSE Send(q)

\* Runs after every change of the query and of dispatch itself.
Dispatch(q) ==
    /\ lastSent' = q
    /\ IF q = None \/ q = lastSent THEN UNCHANGED <<log, todo>> ELSE Send(q)

\* /search submits into the store (the empty text clears it).
Submit(q) ==
    /\ q # None => typed < MaxTurns
    /\ typed' = IF q = None THEN typed ELSE typed + 1
    /\ query' = q
    /\ Dispatch(q)
    /\ UNCHANGED <<located, link, seen, chip, drawer>>

Clear ==
    /\ query # None
    /\ query' = None
    /\ Dispatch(None)
    /\ UNCHANGED <<typed, located, link, seen, chip, drawer>>

\* The location fix: dispatch is a new function, so the effect runs again.
Located ==
    /\ ~located
    /\ located' = TRUE
    /\ Dispatch(query)
    /\ UNCHANGED <<query, typed, link, seen, chip, drawer>>

PickChip(v) ==
    /\ chip' = v
    /\ UNCHANGED <<query, lastSent, typed, located, link, log, todo, seen, drawer>>

\* Applying the drawer sets its vertical and the matching chip.
ApplyFilters(v) ==
    /\ drawer' = v
    /\ chip' = v
    /\ UNCHANGED <<query, lastSent, typed, located, link, log, todo, seen>>

-----------------------------------------------------------------------------
(* Socket and workflow. *)

Turns == {n \in DOMAIN log : log[n].role = "user"}
Mine == {n \in Turns : log[n].mine}

\* Another phone submits a query to the same workflow.
Elsewhere(q) ==
    /\ Cardinality(Turns \ Mine) < MaxElsewhere
    /\ Push(q, FALSE)
    /\ UNCHANGED <<query, lastSent, typed, located, link, seen, chip, drawer>>

Connected ==
    /\ link = "connecting"
    /\ link' = "open"
    /\ UNCHANGED <<query, lastSent, typed, located, log, todo, seen, chip, drawer>>

\* Nothing reopens a closed socket while the screen is mounted.
Closed ==
    /\ link # "closed"
    /\ link' = "closed"
    /\ UNCHANGED <<query, lastSent, typed, located, log, todo, seen, chip, drawer>>

\* Mistake: the newest turn is answered first.
AnswerNewestTurn ==
    /\ todo # <<>>
    /\ log' = Append(log, [role |-> "say", of |-> todo[Len(todo)], act |-> "other",
                           places |-> {}])
    /\ todo' = SubSeq(todo, 1, Len(todo) - 1)
    /\ UNCHANGED <<query, lastSent, typed, located, link, seen, chip, drawer>>

\* The workflow answers its oldest turn; what it answers is free.
AnswerTurn ==
    /\ todo # <<>>
    /\ \E act \in Acts : \E places \in Results \cup {{}} :
        /\ (act = "search_results") = (places # {})
        /\ log' = Append(log, [role |-> "say", of |-> Head(todo), act |-> act,
                               places |-> places])
    /\ todo' = Tail(todo)
    /\ UNCHANGED <<query, lastSent, typed, located, link, seen, chip, drawer>>

\* Mistake: the cursor runs ahead of the log.
DeliverAhead ==
    /\ link = "open" /\ seen <= Len(log)
    /\ seen' = seen + 1
    /\ UNCHANGED <<query, lastSent, typed, located, link, log, todo, chip, drawer>>

Deliver ==
    /\ link = "open" /\ seen < Len(log)
    /\ seen' = seen + 1
    /\ UNCHANGED <<query, lastSent, typed, located, link, log, todo, chip, drawer>>

Next ==
    \/ Clear \/ Located \/ Connected \/ Closed \/ AnswerTurn \/ Deliver
    \/ \E q \in Queries \cup {None} : Submit(q)
    \/ \E q \in Queries : Elsewhere(q)
    \/ \E v \in Verticals \cup {None} : PickChip(v) \/ ApplyFilters(v)

Spec == Init /\ [][Next]_vars

-----------------------------------------------------------------------------
(* Properties. *)

\* Once the workflow has nothing left to answer and everything is delivered, what
\* fills the list is the answer to the session's last turn, whichever phone sent it
\* and however turns and answers were interleaved (useHomeSearchDispatch, the "since
\* last query" cursor).
SettledViewIsLatest ==
    todo = <<>> /\ seen = Len(log) /\ Answer # 0 => log[Answer].of = Newest(Turns)

\* A query becomes at most one turn: neither the location fix, which runs the
\* effect again, nor clearing it sends it twice (lastDispatchedRef).
OneTurnPerQuery == Cardinality(Mine) <= typed
=============================================================================
