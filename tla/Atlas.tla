------------------------------- MODULE Atlas -------------------------------
(***************************************************************************)
(* The consumer page on the web: the selection and the filters, from which *)
(* the business and the agent of every message follow; the chat rail,      *)
(* whose buttons come from the timeline; and the socket, which "+ new"     *)
(* replaces while the page and its timeline stay.  The handlers of a       *)
(* replaced socket are still attached to the page.                         *)
(***************************************************************************)
EXTENDS Naturals, Sequences

CONSTANTS
    Businesses,   \* the seed list
    VerticalOf,   \* [Businesses -> verticals]
    AgentsFor,    \* [verticals -> the agents a strip offers]
    DefaultAgent, \* [verticals -> agent]
    NameSets,     \* sets of businesses whose names contain some text
    Results,      \* sets of businesses a search may find
    Slots,        \* what an offer offers
    None,         \* JavaScript's null
    MaxTurns,     \* bound: messages that reach a workflow
    MaxSessions   \* bound: sessions of one load of the page

Verticals == DOMAIN AgentsFor
Agents == UNION {AgentsFor[v] : v \in Verticals}

AtlasAssumption ==
    /\ VerticalOf \in [Businesses -> Verticals]
    /\ DefaultAgent \in [Verticals -> Agents]
    /\ \A v \in Verticals : DefaultAgent[v] \in AgentsFor[v]
    /\ None \notin Businesses \cup Verticals \cup Agents \cup Slots
    /\ Businesses \in NameSets /\ NameSets \cup Results \subseteq SUBSET Businesses
    /\ MaxTurns \in Nat /\ MaxSessions \in Nat \ {0}

VARIABLES
    selectedId,     \* the pin or chip clicked last, or None
    agentSelection, \* the agent picked last, or None
    verticalFilter, \* the vertical chip, None for "All"
    matching,       \* businesses whose name contains the search text
    pendingPick,    \* the slot tapped last and the timeline's length then, or None
    dismissedSig,   \* place_ids of the banner dismissed last, or None
    session,        \* number of the session
    socket,         \* its socket: "connecting", "open" or "dead"
    status,         \* what the page takes the socket's state to be
    closing,        \* replaced sockets whose close event is still to come
    log,            \* replies of the session's workflow
    todo,           \* messages it has echoed and not answered
    sent,           \* number of replies delivered to the page
    items,          \* the timeline
    turns           \* number of messages sent

choice == <<selectedId, agentSelection, verticalFilter, matching, pendingPick, dismissedSig>>
channel == <<session, socket, status, closing, sent, items>>
workflow == <<log, todo>>
atlasVars == <<choice, channel, workflow, turns>>

\* Kinds of action a say may carry; "none" for a plain one; a booking is
\* confirmed or failed.
Kinds == {"none", "offer_slots", "booking_outcome", "search_results"}
Reply == [session : 1..MaxSessions, seq : Nat \ {0}, role : {"user", "system", "say"},
          kind : Kinds, place_ids : Results \cup {{}}]

TypeOK ==
    /\ selectedId \in Businesses \cup {None} /\ agentSelection \in Agents \cup {None}
    /\ verticalFilter \in Verticals \cup {None} /\ matching \in NameSets
    /\ pendingPick = None \/ pendingPick \in [slot : Slots, mark : 0..Len(items)]
    /\ dismissedSig \in Results \cup {None}
    /\ session \in 1..MaxSessions /\ closing \in 0..session
    /\ socket \in {"connecting", "open", "dead"}
    /\ status \in {"connecting", "connected", "closed"}
    /\ log \in Seq(Reply) /\ todo \in 0..MaxTurns /\ sent \in 0..Len(log)
    /\ items \in Seq(Reply)
    /\ turns \in 0..MaxTurns

Init ==
    /\ selectedId = None /\ agentSelection = None /\ verticalFilter = None
    /\ matching = Businesses /\ pendingPick = None /\ dismissedSig = None
    /\ session = 1 /\ socket = "connecting" /\ status = "connecting" /\ closing = 0
    /\ log = <<>> /\ todo = 0 /\ sent = 0 /\ items = <<>>
    /\ turns = 0

-----------------------------------------------------------------------------
(* What the page derives. *)

Filtered == {b \in matching : verticalFilter \in {None, VerticalOf[b]}}

Selected == IF selectedId \in Filtered THEN selectedId ELSE None

\* Mistake: the agent picked last, whatever is selected now.
AgentSlugUnclamped ==
    IF agentSelection # None THEN agentSelection ELSE DefaultAgent[VerticalOf[Selected]]

\* The agent picked last, if the selected business has it.
AgentSlug ==
    LET v == VerticalOf[Selected] IN
    IF agentSelection \in AgentsFor[v] THEN agentSelection ELSE DefaultAgent[v]

Newest(N) == IF N = {} THEN 0 ELSE CHOOSE n \in N : \A m \in N : m <= n
Spoken(roles) == {n \in DOMAIN items : items[n].role \in roles}

\* deriveAction: the newest say with an action, however old.
Action == Newest({n \in Spoken({"say"}) : items[n].kind # "none"})
HasAction(kind) == Action # 0 /\ items[Action].kind = kind

\* Mistake: only a say with an action ends the wait.
ThinkingUntilAction == Newest(Spoken({"user"})) > Action

\* Nothing said since the last message; a system note counts as said.
Thinking == Newest(Spoken({"user"})) > Newest(Spoken({"say", "system"}))

\* The slot shown as being confirmed, until a booking's outcome follows the tap.
PendingBookingSlot ==
    IF pendingPick = None \/ \E n \in DOMAIN items :
            /\ n > pendingPick.mark /\ items[n].role = "say"
            /\ items[n].kind = "booking_outcome"
    THEN None ELSE pendingPick.slot

ShowBanner ==
    /\ selectedId = None /\ HasAction("search_results")
    /\ items[Action].place_ids # dismissedSig

-----------------------------------------------------------------------------
(* The user. *)

Select(b) ==
    /\ selectedId' = b
    /\ UNCHANGED <<agentSelection, verticalFilter, matching, pendingPick, dismissedSig,
                   channel, workflow, turns>>

\* A pin of the map.
OnSelect(b) == b \in Filtered /\ Select(b)

\* A chip of the banner.
PickMatch(b) == ShowBanner /\ b \in items[Action].place_ids /\ Select(b)

\* A chip of the chat rail.
PickSearchResult(b) ==
    /\ Selected # None /\ HasAction("search_results") /\ b \in items[Action].place_ids
    /\ Select(b)

PickAgent(a) ==
    /\ Selected # None /\ a \in AgentsFor[VerticalOf[Selected]]
    /\ agentSelection' = a
    /\ UNCHANGED <<selectedId, verticalFilter, matching, pendingPick, dismissedSig,
                   channel, workflow, turns>>

SetFilters(v, names) ==
    /\ verticalFilter' = v /\ matching' = names
    /\ UNCHANGED <<selectedId, agentSelection, pendingPick, dismissedSig, channel,
                   workflow, turns>>

DismissBanner ==
    /\ ShowBanner
    /\ dismissedSig' = items[Action].place_ids
    /\ matching' = Businesses
    /\ UNCHANGED <<selectedId, agentSelection, verticalFilter, pendingPick, channel,
                   workflow, turns>>

Push(role, kind, ids) ==
    Append(log, [session |-> session, seq |-> Len(log) + 1, role |-> role,
                 kind |-> kind, place_ids |-> ids])

\* The workflow echoes what reaches it; nothing does unless the socket is open.
Send ==
    IF socket = "open"
    THEN /\ turns < MaxTurns
         /\ turns' = turns + 1
         /\ log' = Push("user", "none", {})
         /\ todo' = todo + 1
    ELSE UNCHANGED <<workflow, turns>>

\* The composer or a prompt, both disabled unless the page believes to be connected.
Submit ==
    /\ Selected # None /\ status = "connected"
    /\ Send
    /\ UNCHANGED <<choice, channel>>

\* A chip of the business's details is never disabled.
AskAbout ==
    /\ Selected # None
    /\ Send
    /\ UNCHANGED <<choice, channel>>

\* A button of the newest offer; the tap is noted also when nothing was sent.
PickSlot(t) ==
    /\ Selected # None /\ HasAction("offer_slots")
    /\ status = "connected" /\ PendingBookingSlot # t
    /\ pendingPick' = [slot |-> t, mark |-> Len(items)]
    /\ Send
    /\ UNCHANGED <<selectedId, agentSelection, verticalFilter, matching, dismissedSig, channel>>

\* "+ new": another id, another socket; the timeline and the tap stay.
NewSession ==
    /\ session < MaxSessions
    /\ session' = session + 1
    /\ selectedId' = None
    /\ socket' = "connecting"
    /\ closing' = IF socket = "dead" /\ status = "closed" THEN closing ELSE closing + 1
    /\ log' = <<>> /\ todo' = 0 /\ sent' = 0
    /\ UNCHANGED <<agentSelection, verticalFilter, matching, pendingPick, dismissedSig,
                   status, items, turns>>

-----------------------------------------------------------------------------
(* The socket and the workflow. *)

Opened ==
    /\ socket = "connecting"
    /\ socket' = "open" /\ status' = "connected"
    /\ UNCHANGED <<choice, session, closing, sent, items, workflow, turns>>

\* The connection is gone before the page hears of it.
Dropped ==
    /\ socket # "dead"
    /\ socket' = "dead"
    /\ UNCHANGED <<choice, session, status, closing, sent, items, workflow, turns>>

CloseEvent ==
    /\ socket = "dead" /\ status # "closed"
    /\ status' = "closed"
    /\ UNCHANGED <<choice, session, socket, closing, sent, items, workflow, turns>>

\* A replaced socket's close event: the page takes it for the new one's.
LateCloseEvent ==
    /\ closing > 0
    /\ closing' = closing - 1 /\ status' = "closed"
    /\ UNCHANGED <<choice, session, socket, sent, items, workflow, turns>>

\* A turn ends in a say; notes may come first (bound: one note in a session).
Note ==
    /\ todo > 0 /\ \A n \in DOMAIN log : log[n].role # "system"
    /\ log' = Push("system", "none", {})
    /\ UNCHANGED <<choice, channel, todo, turns>>

Say ==
    /\ todo > 0
    /\ \E kind \in Kinds : \E ids \in Results \cup {{}} :
        /\ (kind = "search_results") = (ids # {})
        /\ log' = Push("say", kind, ids)
    /\ todo' = todo - 1
    /\ UNCHANGED <<choice, channel, turns>>

\* A reply whose seq the timeline has is taken for a duplicate.
Deliver ==
    /\ socket = "open" /\ sent < Len(log)
    /\ sent' = sent + 1
    /\ items' = IF \E n \in DOMAIN items : items[n].seq = sent + 1
                THEN items ELSE Append(items, log[sent + 1])
    /\ UNCHANGED <<choice, session, socket, status, closing, workflow, turns>>

Next ==
    \/ \E b \in Businesses : OnSelect(b) \/ PickMatch(b) \/ PickSearchResult(b)
    \/ \E a \in Agents : PickAgent(a)
    \/ \E v \in Verticals \cup {None} : \E names \in NameSets : SetFilters(v, names)
    \/ \E t \in Slots : PickSlot(t)
    \/ DismissBanner \/ Submit \/ AskAbout \/ NewSession
    \/ Opened \/ Dropped \/ CloseEvent \/ LateCloseEvent \/ Note \/ Say \/ Deliver

Spec == Init /\ [][Next]_atlasVars

-----------------------------------------------------------------------------
(* Properties. *)

\* Every message goes to an agent its business has, although the agent, the business
\* and the filters that hide it are chosen apart and in any order (agentSlug, "clamped
\* to the agents valid for the selected business's vertical").
EnvelopeAgentFits ==
    [][turns' # turns => AgentSlug \in AgentsFor[VerticalOf[Selected]]]_atlasVars

\* Once every message of the page's first session is answered and delivered the rail
\* stops waiting, whichever way echoes, notes and answers of several messages were
\* interleaved (thinking, "between the last user turn and the next say/system reply").
SettledIsNotThinking ==
    session = 1 /\ todo = 0 /\ sent = Len(log) => ~Thinking
=============================================================================
