----------------------------- MODULE AtlasProofs -----------------------------
(***************************************************************************)
(* What Atlas keeps for any businesses, agents, sets of names and results, *)
(* slots and bounds: types; the agent of every message is one of its       *)
(* business; and in the first session, where the timeline is the log as    *)
(* far as it was delivered, nobody waits once everything is answered.      *)
(***************************************************************************)
EXTENDS Atlas, WellFoundedInduction, TLAPS

-----------------------------------------------------------------------------
(* The newest of some replies. *)

LEMMA NewestOfSome ==
  ASSUME NEW n \in Nat, NEW S \in SUBSET (1..n), S # {}
  PROVE Newest(S) \in S /\ \A m \in S : m <= Newest(S)
<1> DEFINE T == {v \in Nat : \E s \in S : v = n - s}
           R == OpToRel(<, Nat)
<1>1. \A s \in S : s \in Nat /\ n - s \in Nat
  OBVIOUS
<1>2. T \subseteq Nat /\ T # {}
  BY <1>1
<1>3. PICK x \in T : \A y \in T : ~(<<y, x>> \in R)
  <2>1. IsWellFoundedOn(R, Nat)
    BY NatLessThanWellFounded
  <2> HIDE DEF T, R
  <2> QED
    BY <1>2, <2>1, WFMin
<1>4. \A y \in T : ~(y < x)
  BY <1>2, <1>3 DEF OpToRel
<1>5. PICK k \in S : x = n - k
  OBVIOUS
<1>6. ASSUME NEW m \in S PROVE m <= k
  <2>1. n - m \in T
    BY <1>1
  <2>2. ~(n - m < n - k)
    BY <1>4, <1>5, <2>1
  <2> QED
    BY <1>1, <2>2
<1> QED
  BY <1>5, <1>6 DEF Newest

LEMMA SpokenPositions ==
  ASSUME items \in Seq(Reply), NEW roles
  PROVE Len(items) \in Nat /\ Spoken(roles) \in SUBSET (1..Len(items))
BY DEF Spoken

\* The say whose buttons are shown is one of the timeline, with an action.
LEMMA ActionShown ==
  ASSUME items \in Seq(Reply), Action # 0
  PROVE Action \in DOMAIN items /\ items[Action] \in Reply /\ items[Action].kind # "none"
<1> DEFINE S == {n \in Spoken({"say"}) : items[n].kind # "none"}
<1>1. S \in SUBSET (1..Len(items)) /\ Len(items) \in Nat
  BY SpokenPositions
<1>2. S # {}
  BY DEF Action, Newest
<1>3. Newest(S) \in S
  BY <1>1, <1>2, NewestOfSome
<1>4. Action \in S /\ DOMAIN items = 1..Len(items)
  BY <1>3 DEF Action
<1> QED
  BY <1>1, <1>4

-----------------------------------------------------------------------------
(* Types.  A say with results names some, and no more messages wait for an *)
(* answer than were sent.                                                  *)

NamesSome(s) == \A n \in DOMAIN s : s[n].kind = "search_results" => s[n].place_ids # {}

TypeInv == TypeOK /\ NamesSome(log) /\ NamesSome(items) /\ todo <= turns

\* A reply is pushed at the end of the log, with the next seq.
LEMMA PushedReply ==
  ASSUME TypeInv, NEW role \in {"user", "system", "say"}, NEW kind \in Kinds,
         NEW ids \in Results \cup {{}}, kind = "search_results" => ids # {}
  PROVE /\ Push(role, kind, ids) \in Seq(Reply) /\ NamesSome(Push(role, kind, ids))
        /\ Len(Push(role, kind, ids)) = Len(log) + 1
        /\ Push(role, kind, ids)[Len(log) + 1].role = role
        /\ Push(role, kind, ids)[Len(log) + 1].seq = Len(log) + 1
        /\ \A n \in 1..Len(log) : Push(role, kind, ids)[n] = log[n]
<1>1. log \in Seq(Reply) /\ Len(log) \in Nat /\ DOMAIN log = 1..Len(log) /\ NamesSome(log)
      /\ session \in 1..MaxSessions
  BY DEF TypeInv, TypeOK
<1>2. PICK b : b = [session |-> session, seq |-> Len(log) + 1, role |-> role, kind |-> kind,
                    place_ids |-> ids]
  OBVIOUS
<1>3. b \in Reply /\ b.role = role /\ b.seq = Len(log) + 1
      /\ (b.kind = "search_results" => b.place_ids # {})
  BY <1>1, <1>2 DEF Reply
<1>4. PICK s : s = Append(log, b)
  OBVIOUS
<1>5. /\ s \in Seq(Reply) /\ Len(s) = Len(log) + 1 /\ DOMAIN s = 1..Len(log) + 1
      /\ s[Len(log) + 1] = b /\ \A n \in 1..Len(log) : s[n] = log[n]
  BY <1>1, <1>3, <1>4
<1>6. NamesSome(s)
  BY <1>1, <1>3, <1>5 DEF NamesSome
<1>7. Push(role, kind, ids) = s
  BY <1>2, <1>4 DEF Push
<1> QED
  BY <1>3, <1>5, <1>6, <1>7

\* What a message does to the workflow.
LEMMA SentMessage ==
  ASSUME AtlasAssumption, TypeInv, Send
  PROVE /\ log' \in Seq(Reply) /\ NamesSome(log)' /\ todo' \in 0..MaxTurns
        /\ turns' \in 0..MaxTurns /\ todo' <= turns' /\ sent \in 0..Len(log')
        /\ \/ UNCHANGED <<log, todo, turns>>
           \/ todo' = todo + 1 /\ log' = Push("user", "none", {})
<1>1. /\ turns \in 0..MaxTurns /\ todo \in 0..MaxTurns /\ todo <= turns /\ MaxTurns \in Nat
      /\ log \in Seq(Reply) /\ NamesSome(log) /\ sent \in 0..Len(log) /\ Len(log) \in Nat
  BY DEF TypeInv, TypeOK, AtlasAssumption
<1>2. CASE UNCHANGED <<log, todo, turns>>
  BY <1>1, <1>2 DEF NamesSome
<1>3. CASE /\ turns < MaxTurns /\ turns' = turns + 1 /\ log' = Push("user", "none", {})
           /\ todo' = todo + 1
  <2>1. log' \in Seq(Reply) /\ NamesSome(log') /\ Len(log') = Len(log) + 1
    BY <1>3, PushedReply DEF Kinds
  <2> QED
    BY <1>1, <1>3, <2>1 DEF NamesSome
<1> QED
  BY <1>2, <1>3 DEF Send, workflow

LEMMA TypeStep ==
  ASSUME AtlasAssumption, TypeInv, [Next]_atlasVars
  PROVE TypeInv'
<1> DEFINE Marks == [slot : Slots, mark : 0..Len(items)]
           View ==
             /\ selectedId \in Businesses \cup {None} /\ agentSelection \in Agents \cup {None}
             /\ verticalFilter \in Verticals \cup {None} /\ matching \in NameSets
             /\ dismissedSig \in Results \cup {None}
           Socket ==
             /\ session \in 1..MaxSessions /\ closing \in 0..session
             /\ socket \in {"connecting", "open", "dead"}
             /\ status \in {"connecting", "connected", "closed"}
           Server ==
             /\ log \in Seq(Reply) /\ NamesSome(log) /\ todo \in 0..MaxTurns
             /\ turns \in 0..MaxTurns /\ todo <= turns /\ sent \in 0..Len(log)
           Screen ==
             /\ items \in Seq(Reply) /\ NamesSome(items)
             /\ pendingPick = None \/ pendingPick \in Marks
<1>0. View /\ Socket /\ Server /\ Screen /\ MaxTurns \in Nat /\ MaxSessions \in Nat
      /\ Len(log) \in Nat /\ Len(items) \in Nat /\ Businesses \in NameSets
  BY DEF TypeInv, TypeOK, AtlasAssumption
<1> SUFFICES View' /\ Socket' /\ Server' /\ Screen'
  BY DEF TypeInv, TypeOK
<1>a. ASSUME UNCHANGED <<log, todo, turns, sent>> PROVE Server'
  BY <1>0, <1>a DEF NamesSome
<1>b. ASSUME UNCHANGED <<items, pendingPick>> PROVE Screen'
  BY <1>0, <1>b DEF NamesSome
<1>1. ASSUME NEW b \in Businesses, OnSelect(b) \/ PickMatch(b) \/ PickSearchResult(b)
      PROVE View' /\ Socket' /\ Server' /\ Screen'
  <2>1. Select(b)
    BY <1>1 DEF OnSelect, PickMatch, PickSearchResult
  <2> QED
    BY <1>0, <1>a, <1>b, <2>1 DEF Select, channel, workflow
<1>2. ASSUME NEW a \in Agents, PickAgent(a) PROVE View' /\ Socket' /\ Server' /\ Screen'
  BY <1>0, <1>a, <1>b, <1>2 DEF PickAgent, channel, workflow
<1>3. ASSUME NEW v \in Verticals \cup {None}, NEW names \in NameSets, SetFilters(v, names)
      PROVE View' /\ Socket' /\ Server' /\ Screen'
  BY <1>0, <1>a, <1>b, <1>3 DEF SetFilters, channel, workflow
<1>4. CASE DismissBanner
  <2>1. items[Action].place_ids \in Results
    <3>1. Action \in DOMAIN items /\ items[Action] \in Reply
          /\ items[Action].kind = "search_results"
      BY <1>0, <1>4, ActionShown DEF DismissBanner, ShowBanner, HasAction
    <3>2. items[Action].place_ids # {}
      BY <1>0, <3>1 DEF NamesSome
    <3> QED
      BY <3>1, <3>2 DEF Reply
  <2> QED
    BY <1>0, <1>a, <1>b, <1>4, <2>1 DEF DismissBanner, channel, workflow
<1>5. CASE Submit \/ AskAbout
  <2>1. Server'
    BY <1>0, <1>5, SentMessage DEF Submit, AskAbout, channel
  <2> QED
    BY <1>0, <1>b, <1>5, <2>1 DEF Submit, AskAbout, choice, channel
<1>6. ASSUME NEW t \in Slots, PickSlot(t) PROVE View' /\ Socket' /\ Server' /\ Screen'
  <2>1. Server'
    BY <1>0, <1>6, SentMessage DEF PickSlot, channel
  <2>2. [slot |-> t, mark |-> Len(items)] \in Marks
    BY <1>0
  <2>3. Screen'
    BY <1>0, <1>6, <2>2 DEF PickSlot, channel, NamesSome
  <2> QED
    BY <1>0, <1>6, <2>1, <2>3 DEF PickSlot, channel
<1>7. CASE NewSession
  <2>1. log' = <<>> /\ todo' = 0 /\ sent' = 0 /\ turns' = turns
    BY <1>7 DEF NewSession
  <2>2. Server'
    BY <1>0, <2>1 DEF NamesSome
  <2> QED
    BY <1>0, <1>b, <1>7, <2>2 DEF NewSession
<1>8. CASE Opened \/ Dropped \/ CloseEvent \/ LateCloseEvent
  BY <1>0, <1>a, <1>b, <1>8 DEF Opened, Dropped, CloseEvent, LateCloseEvent, choice, workflow
<1>9. CASE Note
  <2>1. log' \in Seq(Reply) /\ NamesSome(log') /\ Len(log') = Len(log) + 1
    BY <1>9, PushedReply DEF Note, Kinds
  <2>2. Server'
    BY <1>0, <1>9, <2>1 DEF Note, channel, NamesSome
  <2> QED
    BY <1>0, <1>b, <1>9, <2>2 DEF Note, choice, channel
<1>10. CASE Say
  <2>1. log' \in Seq(Reply) /\ NamesSome(log') /\ Len(log') = Len(log) + 1
    BY <1>10, PushedReply DEF Say
  <2>2. Server'
    BY <1>0, <1>10, <2>1 DEF Say, channel, NamesSome
  <2> QED
    BY <1>0, <1>b, <1>10, <2>2 DEF Say, choice, channel
<1>11. CASE Deliver
  <2>1. sent + 1 \in DOMAIN log /\ log[sent + 1] \in Reply
        /\ (log[sent + 1].kind = "search_results" => log[sent + 1].place_ids # {})
    BY <1>0, <1>11 DEF Deliver, NamesSome
  <2>2. PICK r : r = log[sent + 1]
    OBVIOUS
  <2>3. items' \in Seq(Reply) /\ NamesSome(items') /\ Len(items') >= Len(items)
        /\ Len(items') \in Nat
    <3>1. CASE items' = items
      BY <1>0, <3>1
    <3>2. CASE items' = Append(items, r)
      <4>1. items' \in Seq(Reply) /\ Len(items') = Len(items) + 1
            /\ DOMAIN items' = 1..Len(items) + 1 /\ items'[Len(items) + 1] = r
            /\ \A n \in 1..Len(items) : items'[n] = items[n] /\ n \in DOMAIN items
        BY <1>0, <2>1, <2>2, <3>2
      <4> QED
        BY <1>0, <2>1, <2>2, <4>1 DEF NamesSome
    <3> QED
      BY <1>11, <2>2, <3>1, <3>2 DEF Deliver
  <2>4. Screen'
    <3>1. pendingPick' = pendingPick
      BY <1>11 DEF Deliver, choice
    <3>2. pendingPick = None \/ pendingPick \in [slot : Slots, mark : 0..Len(items')]
      <4>1. 0..Len(items) \subseteq 0..Len(items')
        BY <1>0, <2>3
      <4> QED
        BY <1>0, <4>1
    <3>3. NamesSome(items)'
      BY <2>3 DEF NamesSome
    <3> QED
      BY <2>3, <3>1, <3>2, <3>3
  <2>5. View' /\ Socket'
    BY <1>0, <1>11 DEF Deliver, choice
  <2>6. Server'
    BY <1>0, <1>11 DEF Deliver, workflow, NamesSome
  <2> QED
    BY <2>4, <2>5, <2>6
<1>12. CASE UNCHANGED atlasVars
  BY <1>0, <1>a, <1>b, <1>12 DEF atlasVars, choice, channel, workflow
<1> QED
  BY <1>1, <1>2, <1>3, <1>4, <1>5, <1>6, <1>7, <1>8, <1>9, <1>10, <1>11, <1>12 DEF Next

LEMMA TypeInit ==
  ASSUME AtlasAssumption, Init PROVE TypeInv
<1>1. <<>> \in Seq(Reply) /\ Len(<<>>) = 0 /\ NamesSome(<<>>)
  BY DEF NamesSome
<1> QED
  BY <1>1 DEF Init, TypeInv, TypeOK, AtlasAssumption

\* Every variable of the page, its socket and its session has its type.
THEOREM TypeCorrect ==
  ASSUME AtlasAssumption PROVE Spec => []TypeOK
<1>1. TypeInv => TypeOK
  BY DEF TypeInv
<1> QED
  BY <1>1, TypeInit, TypeStep, PTL DEF Spec

-----------------------------------------------------------------------------
(* The agent of a message. *)

\* The agent the page sends with is one of the business it is about.
LEMMA AgentFits ==
  ASSUME AtlasAssumption, TypeInv, Selected # None
  PROVE AgentSlug \in AgentsFor[VerticalOf[Selected]]
<1>1. Selected \in Businesses
  BY DEF Selected, Filtered, TypeInv, TypeOK, AtlasAssumption
<1>2. VerticalOf[Selected] \in Verticals
  BY <1>1 DEF AtlasAssumption
<1> QED
  BY <1>2 DEF AgentSlug, AtlasAssumption

\* Every message goes to an agent its business has, in whatever order the agent, the business
\* and the filters that hide it are chosen.
THEOREM MessagesFit ==
  ASSUME AtlasAssumption PROVE Spec => EnvelopeAgentFits
<1>1. ASSUME TypeInv, [Next]_atlasVars
      PROVE [turns' # turns => AgentSlug \in AgentsFor[VerticalOf[Selected]]]_atlasVars
  <2> SUFFICES ASSUME Next, turns' # turns PROVE Selected # None
    BY <1>1, AgentFits
  <2>1. ASSUME NEW b \in Businesses, OnSelect(b) \/ PickMatch(b) \/ PickSearchResult(b)
        PROVE turns' = turns
    BY <2>1 DEF OnSelect, PickMatch, PickSearchResult, Select
  <2>2. ASSUME NEW a \in Agents, PickAgent(a) PROVE turns' = turns
    BY <2>2 DEF PickAgent
  <2>3. ASSUME NEW v, NEW names, SetFilters(v, names) PROVE turns' = turns
    BY <2>3 DEF SetFilters
  <2>4. CASE DismissBanner \/ NewSession \/ Opened \/ Dropped \/ CloseEvent \/ LateCloseEvent
             \/ Note \/ Say \/ Deliver
    BY <2>4 DEF DismissBanner, NewSession, Opened, Dropped, CloseEvent, LateCloseEvent, Note,
       Say, Deliver
  <2>5. ASSUME NEW t \in Slots, PickSlot(t) PROVE Selected # None
    BY <2>5 DEF PickSlot
  <2>6. CASE Submit \/ AskAbout
    BY <2>6 DEF Submit, AskAbout
  <2> QED
    BY <2>1, <2>2, <2>3, <2>4, <2>5, <2>6 DEF Next
<1>2. TypeInv /\ [Next]_atlasVars => TypeInv'
  BY TypeStep
<1>3. Init => TypeInv
  BY TypeInit
<1> QED
  BY <1>1, <1>2, <1>3, PTL DEF Spec, EnvelopeAgentFits

-----------------------------------------------------------------------------
(* The first session.  The timeline is what was delivered of the log, no   *)
(* seq is taken for a duplicate, and a log without open messages ends in a *)
(* say.                                                                    *)

FirstInv ==
    session = 1 =>
        /\ \A n \in DOMAIN log : log[n].seq = n
        /\ Len(items) = sent /\ \A n \in 1..sent : items[n] = log[n]
        /\ todo = 0 /\ log # <<>> => log[Len(log)].role = "say"

LEMMA FirstPush ==
  ASSUME TypeInv, FirstInv, UNCHANGED <<session, items, sent>>,
         NEW role \in {"user", "system", "say"}, NEW kind \in Kinds,
         NEW ids \in Results \cup {{}}, kind = "search_results" => ids # {},
         log' = Push(role, kind, ids), todo' # 0 \/ role = "say"
  PROVE FirstInv'
<1>1. /\ Len(log) \in Nat /\ DOMAIN log = 1..Len(log) /\ sent \in 0..Len(log)
  BY DEF TypeInv, TypeOK
<1>2. /\ Len(log') = Len(log) + 1 /\ DOMAIN log' = 1..Len(log) + 1
      /\ log'[Len(log) + 1].role = role /\ log'[Len(log) + 1].seq = Len(log) + 1
      /\ \A n \in 1..Len(log) : log'[n] = log[n]
  BY <1>1, PushedReply
<1> QED
  BY <1>1, <1>2 DEF FirstInv

LEMMA FirstStep ==
  ASSUME AtlasAssumption, TypeInv, FirstInv, [Next]_atlasVars
  PROVE FirstInv'
<1>0. session \in Nat /\ session >= 1 /\ MaxTurns \in Nat /\ todo \in 0..MaxTurns
  BY DEF TypeInv, TypeOK, AtlasAssumption
<1>a. ASSUME UNCHANGED <<session, log, todo, sent, items>> PROVE FirstInv'
  BY <1>a DEF FirstInv
<1>b. ASSUME Send, UNCHANGED <<session, sent, items>> PROVE FirstInv'
  <2>1. CASE UNCHANGED <<log, todo, turns>>
    BY <1>a, <1>b, <2>1
  <2>2. CASE todo' = todo + 1 /\ log' = Push("user", "none", {})
    BY <1>0, <1>b, <2>2, FirstPush DEF Kinds
  <2> QED
    BY <1>b, <2>1, <2>2, SentMessage
<1>1. ASSUME NEW b \in Businesses, OnSelect(b) \/ PickMatch(b) \/ PickSearchResult(b)
      PROVE FirstInv'
  BY <1>a, <1>1 DEF OnSelect, PickMatch, PickSearchResult, Select, channel, workflow
<1>2. ASSUME NEW a \in Agents, PickAgent(a) PROVE FirstInv'
  BY <1>a, <1>2 DEF PickAgent, channel, workflow
<1>3. ASSUME NEW v, NEW names, SetFilters(v, names) PROVE FirstInv'
  BY <1>a, <1>3 DEF SetFilters, channel, workflow
<1>4. CASE DismissBanner \/ Opened \/ Dropped \/ CloseEvent \/ LateCloseEvent
  BY <1>a, <1>4 DEF DismissBanner, Opened, Dropped, CloseEvent, LateCloseEvent, channel, workflow
<1>5. CASE Submit \/ AskAbout
  BY <1>b, <1>5 DEF Submit, AskAbout, channel
<1>6. ASSUME NEW t \in Slots, PickSlot(t) PROVE FirstInv'
  BY <1>b, <1>6 DEF PickSlot, channel
<1>7. CASE NewSession
  BY <1>0, <1>7 DEF NewSession, FirstInv
<1>8. CASE Note
  BY <1>0, <1>8, FirstPush DEF Note, Kinds, channel
<1>9. CASE Say
  <2>1. PICK kind \in Kinds, ids \in Results \cup {{}} :
          (kind = "search_results") = (ids # {}) /\ log' = Push("say", kind, ids)
    BY <1>9 DEF Say
  <2> QED
    BY <1>9, <2>1, FirstPush DEF Say, channel
<1>10. CASE Deliver
  <2> SUFFICES ASSUME session' = 1 PROVE FirstInv'
    BY DEF FirstInv
  <2>1. /\ session = 1 /\ sent < Len(log) /\ sent' = sent + 1 /\ UNCHANGED <<log, todo>>
        /\ items \in Seq(Reply) /\ Len(items) = sent /\ DOMAIN items = 1..sent
        /\ sent \in Nat /\ Len(log) \in Nat /\ DOMAIN log = 1..Len(log)
        /\ \A n \in 1..sent : items[n] = log[n]
        /\ \A n \in DOMAIN log : log[n].seq = n
    BY <1>10 DEF Deliver, workflow, FirstInv, TypeInv, TypeOK
  <2>2. \A n \in DOMAIN items : items[n].seq # sent + 1
    BY <2>1
  <2>3. items' = Append(items, log[sent + 1]) /\ log[sent + 1] \in Reply
    BY <1>10, <2>1, <2>2 DEF Deliver, TypeInv, TypeOK
  <2>4. /\ Len(items') = sent + 1 /\ items'[sent + 1] = log[sent + 1]
        /\ \A n \in 1..sent : items'[n] = items[n]
    BY <2>1, <2>3
  <2>5. \A n \in 1..sent + 1 : items'[n] = log[n]
    BY <2>1, <2>4
  <2> QED
    BY <2>1, <2>4, <2>5 DEF FirstInv
<1>11. CASE UNCHANGED atlasVars
  BY <1>a, <1>11 DEF atlasVars, channel, workflow
<1> QED
  BY <1>1, <1>2, <1>3, <1>4, <1>5, <1>6, <1>7, <1>8, <1>9, <1>10, <1>11 DEF Next

\* Once every message of the first session is answered and delivered the rail stops waiting.
THEOREM StopsThinking ==
  ASSUME AtlasAssumption PROVE Spec => []SettledIsNotThinking
<1>1. ASSUME TypeInv, FirstInv, session = 1, todo = 0, sent = Len(log) PROVE ~Thinking
  <2> DEFINE U == Spoken({"user"})
             S == Spoken({"say", "system"})
  <2>1. /\ items \in Seq(Reply) /\ Len(items) \in Nat
        /\ U \in SUBSET (1..Len(items)) /\ S \in SUBSET (1..Len(items))
    BY <1>1, SpokenPositions DEF TypeInv, TypeOK
  <2>2. CASE items = <<>>
    BY <2>1, <2>2 DEF Thinking, Newest
  <2>3. CASE items # <<>>
    <3>1. Len(items) > 0 /\ Len(log) = Len(items) /\ log \in Seq(Reply)
      BY <1>1, <2>1, <2>3 DEF FirstInv, TypeInv, TypeOK
    <3>2. items[Len(items)].role = "say"
      BY <1>1, <2>1, <3>1 DEF FirstInv
    <3>3. Len(items) \in S
      BY <2>1, <3>1, <3>2 DEF Spoken
    <3>4. Newest(S) >= Len(items) /\ Newest(S) \in 1..Len(items)
      BY <2>1, <3>3, NewestOfSome
    <3>5. Newest(U) \in 0..Len(items)
      <4>1. CASE U = {}
        BY <2>1, <4>1 DEF Newest
      <4>2. CASE U # {}
        <5>1. U # {} => Newest(U) \in U
          <6> HIDE DEF U
          <6> QED
            BY <2>1, NewestOfSome
        <5> QED
          BY <2>1, <4>2, <5>1
      <4> QED
        BY <4>1, <4>2
    <3> HIDE DEF U, S
    <3> QED
      BY <2>1, <3>4, <3>5 DEF Thinking, U, S
  <2> QED
    BY <2>2, <2>3
<1>2. TypeInv /\ FirstInv => SettledIsNotThinking
  BY <1>1 DEF SettledIsNotThinking
<1>3. Init => TypeInv /\ FirstInv
  BY TypeInit DEF Init, FirstInv
<1>4. TypeInv /\ FirstInv /\ [Next]_atlasVars => (TypeInv /\ FirstInv)'
  BY TypeStep, FirstStep
<1> QED
  BY <1>2, <1>3, <1>4, PTL DEF Spec
=============================================================================
