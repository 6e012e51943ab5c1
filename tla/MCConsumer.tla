----------------------------- MODULE MCConsumer -----------------------------
(***************************************************************************)
(* The three surfaces a customer uses: the mobile booking flow, the mobile *)
(* home screen and the web page.  They share no state, so a behaviour of   *)
(* the whole is an interleaving of theirs, and every property is about one *)
(* of them: each behaviour checked here drives one ("surface").            *)
(***************************************************************************)
EXTENDS BookingFlow, TLC

CONSTANTS
    MaxTurns, MaxElsewhere, MaxSessions,
    mario, gold, restaurant, gym, reservations, membership, concierge

VARIABLES
    surface,
    query, lastSent, typed, located, link, log, todo, seen, chip, drawer,
    selectedId, agentSelection, verticalFilter, matching, pendingPick, dismissedSig,
    session, socket, status, closing, railLog, railTodo, sent, items, turns

homeVars == <<query, lastSent, typed, located, link, log, todo, seen, chip, drawer>>
pageVars == <<selectedId, agentSelection, verticalFilter, matching, pendingPick,
              dismissedSig, session, socket, status, closing, railLog, railTodo, sent,
              items, turns>>

Verticals == {restaurant, gym}
Seed == {mario, gold}
VerticalOfSeed == (mario :> restaurant) @@ (gold :> gym)

\* A customer of the home screen searches for a venue by name; one chip is enough to
\* come between a query and its answer.
Home == INSTANCE HomeSearch WITH
    Queries <- Places, Venues <- Seed,
    Verticals <- {restaurant}, VerticalOf <- [v \in Seed |-> restaurant],
    Matches <- [q \in Places |-> {mario}], Results <- {Seed}

Page == INSTANCE Atlas WITH
    Businesses <- Seed, VerticalOf <- VerticalOfSeed,
    NameSets <- {Seed}, Results <- {Seed},
    AgentsFor <- (restaurant :> {reservations, concierge}) @@ (gym :> {membership, concierge}),
    DefaultAgent <- (restaurant :> reservations) @@ (gym :> membership),
    log <- railLog, todo <- railTodo

ASSUME ConsumerAssumption ==
    FlowAssumption /\ Home!HomeAssumption /\ Page!AtlasAssumption

Alike == Permutations(Places)

ConsumerInit ==
    /\ Init /\ Home!Init /\ Page!Init
    /\ surface \in {"flow", "home", "page"}

ConsumerNext ==
    \/ surface = "flow" /\ Next /\ UNCHANGED <<surface, homeVars, pageVars>>
    \/ surface = "home" /\ Home!Next /\ UNCHANGED <<surface, vars, pageVars>>
    \/ surface = "page" /\ Page!Next /\ UNCHANGED <<surface, vars, homeVars>>

ConsumerSpec == ConsumerInit /\ [][ConsumerNext]_<<surface, vars, homeVars, pageVars>>

-----------------------------------------------------------------------------
(* The properties of the other two, under one name each.                   *)

\* Every variable of the three surfaces has its type.
AllTypeOK == TypeOK /\ Home!TypeOK /\ Page!TypeOK

\* With nothing left to answer, the home screen shows the last turn's answer.
SettledViewIsLatest == Home!SettledViewIsLatest

\* A query of the home screen becomes at most one turn (lastDispatchedRef).
OneTurnPerQuery == Home!OneTurnPerQuery

\* Every message of the web page goes to an agent its business has (Atlas, agentSlug).
EnvelopeAgentFits == Page!EnvelopeAgentFits

\* With every message answered, the web page stops waiting (Atlas, thinking).
SettledIsNotThinking == Page!SettledIsNotThinking
=============================================================================
