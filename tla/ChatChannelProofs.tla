-------------------------- MODULE ChatChannelProofs --------------------------
(***************************************************************************)
(* The chat channel for logs and caches of any length and any number of    *)
(* runs: nothing is on the screen twice on either hook; the timeline of    *)
(* the web hook only grows; and, with a cache that holds a whole log, the  *)
(* web screen shows the first run in order and all that was sent.          *)
(***************************************************************************)
EXTENDS ChatChannel, TLAPS

\* A socket that is or was open talks to a run.
Attached == live \/ conn # "none" => run # 0

TypeInv == TypeOK /\ Attached

\* The duplicate guard compares seqs; so do the screen and the cache.
Once(s) == \A i, j \in DOMAIN s : s[i].seq = s[j].seq => i = j

OnceInv == TypeInv /\ Once(items) /\ Once(cache)

\* The web hook opens its socket after the cache has been read, and shows nothing before.
ReadFirst ==
  /\ conn # "none" => mounted /\ hydrated
  /\ ~hydrated => items = <<>>

WebInv == TypeInv /\ ReadFirst

Gapless(s) == \A i \in DOMAIN s : s[i] = [run |-> 1, seq |-> i]

\* Nothing was shown or stored before the first run; in it the screen and the cache are
\* a gapless beginning of the log, and the cursors are on it.
FirstRun ==
  /\ run = 0 => items = <<>> /\ cache = <<>>
  /\ run = 1 => /\ Gapless(items) /\ Gapless(cache)
                /\ log <= MaxLog /\ upTo <= log
                /\ conn = "open" => Len(items) >= lastSeq

FirstRunInv == WebInv /\ FirstRun

-----------------------------------------------------------------------------
(* The timeline: appending and trimming.                                   *)

LEMMA AppendOne ==
  ASSUME NEW s \in Seq(Item), NEW r \in Item
  PROVE  /\ Append(s, r) \in Seq(Item)
         /\ Len(Append(s, r)) = Len(s) + 1
         /\ DOMAIN Append(s, r) = 1..Len(s) + 1
         /\ DOMAIN s = 1..Len(s) /\ Len(s) \in Nat
         /\ \A i \in DOMAIN s : Append(s, r)[i] = s[i]
         /\ Append(s, r)[Len(s) + 1] = r
OBVIOUS

\* The cache keeps the newest CacheLimit items, in their order.
LEMMA TrimmedKeepsTheEnd ==
  ASSUME NEW s \in Seq(Item)
  PROVE  /\ Trimmed(s) \in Seq(Item)
         /\ \E k \in Nat : /\ k + Len(Trimmed(s)) = Len(s)
                           /\ \A i \in DOMAIN Trimmed(s) : /\ i + k \in DOMAIN s
                                                           /\ Trimmed(s)[i] = s[i + k]
         /\ Len(s) <= CacheLimit => Trimmed(s) = s
<1> DEFINE first == IF Len(s) > CacheLimit THEN Len(s) - CacheLimit + 1 ELSE 1
<1>1. first \in Nat \ {0} /\ first <= Len(s) + 1 /\ Len(s) \in Nat /\ CacheLimit \in Nat \ {0}
  BY ChannelAssumption
<1>2. Trimmed(s) = SubSeq(s, first, Len(s))
  BY DEF Trimmed
<1> HIDE DEF first
<1>3. PICK k \in Nat : first = k + 1 /\ k <= Len(s)
  BY <1>1
<1>4. /\ Trimmed(s) \in Seq(Item) /\ k + Len(Trimmed(s)) = Len(s)
      /\ \A i \in 1..Len(Trimmed(s)) : Trimmed(s)[i] = s[i + k]
  BY <1>1, <1>2, <1>3
<1>5. \A i \in DOMAIN Trimmed(s) : i + k \in DOMAIN s /\ Trimmed(s)[i] = s[i + k]
  <2>1. DOMAIN Trimmed(s) = 1..Len(Trimmed(s)) /\ DOMAIN s = 1..Len(s)
        /\ Len(Trimmed(s)) \in Nat
    BY <1>4
  <2> QED
    BY <1>1, <1>3, <1>4, <2>1
<1>6. ASSUME Len(s) <= CacheLimit PROVE Trimmed(s) = s
  <2>1. first = 1
    BY <1>1, <1>6 DEF first
  <2> QED
    BY <1>2, <2>1
<1> QED
  BY <1>4, <1>5, <1>6

\* What Show may do to the timeline and the cache.
LEMMA ShowStep ==
  ASSUME TypeOK, NEW r \in Item, Show(r)
  PROVE  /\ UNCHANGED <<mounted, hydrated>>
         /\ \/ /\ \E i \in DOMAIN items : items[i].seq = r.seq
               /\ UNCHANGED <<items, cache>>
            \/ /\ \A i \in DOMAIN items : items[i].seq # r.seq
               /\ items' = Append(items, r) /\ items' \in Seq(Item)
               /\ cache' = IF hydrated THEN Trimmed(items') ELSE cache
         /\ cache' \in Seq(Item)
<1>1. items \in Seq(Item) /\ cache \in Seq(Item)
  BY DEF TypeOK
<1>2. Append(items, r) \in Seq(Item)
  BY <1>1
<1> QED
  BY <1>1, <1>2, TrimmedKeepsTheEnd DEF Show

LEMMA DeliverStep ==
  ASSUME TypeInv, Deliver, NEW r, r = [run |-> run, seq |-> lastSeq + 1]
  PROVE  /\ r \in Item
         /\ conn = "open" /\ lastSeq < upTo /\ lastSeq' = lastSeq + 1
         /\ UNCHANGED <<run, live, log, conn, upTo, mounted, hydrated>>
         /\ items' \in Seq(Item) /\ cache' \in Seq(Item)
         /\ \/ /\ \E i \in DOMAIN items : items[i].seq = r.seq
               /\ UNCHANGED <<items, cache>>
            \/ /\ \A i \in DOMAIN items : items[i].seq # r.seq
               /\ items' = Append(items, r)
               /\ cache' = IF hydrated THEN Trimmed(items') ELSE cache
<1>1. /\ conn = "open" /\ lastSeq < upTo /\ lastSeq' = lastSeq + 1 /\ Show(r)
      /\ UNCHANGED <<run, live, log, conn, upTo>>
  BY DEF Deliver, server
<1>2. TypeOK /\ items \in Seq(Item) /\ r \in Item
  BY <1>1 DEF TypeInv, TypeOK, Attached, Item
<1>3. items' \in Seq(Item)
  <2>1. Append(items, r) \in Seq(Item)
    BY <1>2
  <2> QED
    BY <1>1, <1>2, <2>1 DEF Show
<1> QED
  BY <1>1, <1>2, <1>3, ShowStep

-----------------------------------------------------------------------------
(* Types.                                                                  *)

LEMMA TypeStep == TypeInv /\ [Next]_vars => TypeInv'
<1> SUFFICES ASSUME TypeInv, [Next]_vars PROVE TypeInv'
  OBVIOUS
<1>1. ASSUME Deliver
      PROVE  /\ items' \in Seq(Item) /\ cache' \in Seq(Item)
             /\ UNCHANGED <<run, live, log, conn, upTo, mounted, hydrated>>
             /\ lastSeq' = lastSeq + 1
  BY <1>1, DeliverStep
<1>2. Attached'
  <2>1. run + 1 # 0
    BY DEF TypeInv, TypeOK
  <2> QED
    BY <1>1, <2>1, Zenon DEF TypeInv, Attached, Next, vars, server, socket, screen, PushReply,
       EndRun, Mount, Hydrate, Unmount, Connect, StartOrAttach, Disconnect, SendToLive,
       SendToDead, Poll
<1>3. (live \in BOOLEAN /\ mounted \in BOOLEAN /\ hydrated \in BOOLEAN)'
  BY <1>1, Zenon DEF TypeInv, TypeOK, Next, vars, server, socket, screen, PushReply, EndRun,
     Mount, Hydrate, Unmount, Connect, StartOrAttach, Disconnect, SendToLive, SendToDead, Poll
<1>4. (/\ run \in Nat /\ log \in Nat /\ lastSeq \in Nat /\ upTo \in Nat
       /\ conn \in {"none", "open", "closed"})'
  <2> USE DEF TypeInv, TypeOK, server, socket, screen
  <2>1. CASE PushReply \/ EndRun \/ Disconnect \/ SendToLive \/ SendToDead \/ Poll
    BY <2>1 DEF PushReply, EndRun, Disconnect, SendToLive, SendToDead, Poll
  <2>2. CASE Mount \/ Hydrate \/ Unmount
    BY <2>2 DEF Mount, Hydrate, Unmount
  <2>3. CASE Connect
    BY <2>3 DEF Connect, StartOrAttach
  <2>4. CASE Deliver
    BY <1>1, <2>4
  <2>5. CASE UNCHANGED vars
    BY <2>5 DEF vars
  <2> QED
    BY <2>1, <2>2, <2>3, <2>4, <2>5 DEF Next
<1>5. (items \in Seq(Item) /\ cache \in Seq(Item))'
  <2>1. <<>> \in Seq(Item) /\ items \in Seq(Item) /\ cache \in Seq(Item)
    BY DEF TypeInv, TypeOK
  <2> QED
    BY <1>1, <2>1, Zenon DEF Next, vars, server, socket, screen, PushReply, EndRun,
       Mount, Hydrate, Unmount, Connect, StartOrAttach, Disconnect, SendToLive, SendToDead, Poll
<1> QED
  BY <1>2, <1>3, <1>4, <1>5 DEF TypeInv, TypeOK

LEMMA TypeInit == Init => TypeInv
<1>1. 0 \in Nat /\ <<>> \in Seq(Item)
  OBVIOUS
<1> QED
  BY <1>1, Zenon DEF Init, TypeInv, TypeOK, Attached

\* Every variable keeps its type, whatever the hook, the cache and the bounds.
THEOREM TypeCorrect == Spec => []TypeOK
<1>1. TypeInv => TypeOK
  BY DEF TypeInv
<1> QED
  BY <1>1, TypeInit, TypeStep, PTL DEF Spec

-----------------------------------------------------------------------------
(* Nothing twice.                                                          *)

\* What a step may do to the screen and the cache.
LEMMA TimelineStep ==
  ASSUME TypeInv, [Next]_vars
  PROVE  \/ UNCHANGED <<items, cache>>
         \/ (Mount \/ Unmount) /\ items' = <<>> /\ cache' = cache
         \/ Hydrate /\ items' = cache /\ cache' = cache
         \/ Deliver
<1>1. CASE Mount \/ Unmount
  BY <1>1, Zenon DEF Mount, Unmount
<1>2. CASE Hydrate
  BY <1>2, Zenon DEF Hydrate
<1>3. CASE PushReply \/ EndRun \/ Connect \/ Disconnect \/ SendToLive \/ SendToDead \/ Poll
  BY <1>3, Zenon DEF PushReply, EndRun, Connect, Disconnect, SendToLive, SendToDead, Poll, screen
<1>4. CASE UNCHANGED vars
  BY <1>4, Zenon DEF vars, screen
<1> QED
  BY <1>1, <1>2, <1>3, <1>4, Zenon DEF Next

LEMMA TrimmedOnce == ASSUME NEW s \in Seq(Item), Once(s) PROVE Once(Trimmed(s))
<1>1. PICK k \in Nat : \A i \in DOMAIN Trimmed(s) : /\ i + k \in DOMAIN s
                                                     /\ Trimmed(s)[i] = s[i + k]
  BY TrimmedKeepsTheEnd
<1>2. DOMAIN Trimmed(s) = 1..Len(Trimmed(s)) /\ Len(Trimmed(s)) \in Nat
  BY TrimmedKeepsTheEnd
<1>3. SUFFICES ASSUME NEW i \in DOMAIN Trimmed(s), NEW j \in DOMAIN Trimmed(s),
                      Trimmed(s)[i].seq = Trimmed(s)[j].seq
               PROVE  i = j
  BY DEF Once
<1>4. i + k = j + k
  BY <1>1, <1>3 DEF Once
<1> QED
  BY <1>2, <1>4

LEMMA ShownOnce ==
  ASSUME NEW s \in Seq(Item), NEW r \in Item, Once(s),
         \A i \in DOMAIN s : s[i].seq # r.seq
  PROVE  Once(Append(s, r))
<1> DEFINE t == Append(s, r)
<1>1. /\ DOMAIN t = 1..Len(s) + 1 /\ DOMAIN s = 1..Len(s) /\ Len(s) \in Nat
      /\ t[Len(s) + 1] = r /\ \A i \in DOMAIN s : t[i] = s[i]
  BY AppendOne
<1> HIDE DEF t
<1>2. Once(t)
  BY <1>1 DEF Once
<1> QED
  BY <1>2 DEF t

LEMMA OnceStep == OnceInv /\ [Next]_vars => OnceInv'
<1> SUFFICES ASSUME OnceInv, [Next]_vars PROVE OnceInv'
  OBVIOUS
<1>1. TypeInv /\ TypeOK /\ TypeInv' /\ items \in Seq(Item) /\ cache \in Seq(Item)
  BY TypeStep DEF OnceInv, TypeInv, TypeOK
<1>2. CASE UNCHANGED <<items, cache>>
  BY <1>1, <1>2, Zenon DEF OnceInv
<1>3. CASE items' = <<>> /\ cache' = cache
  <2>1. Once(<<>>)
    BY DEF Once
  <2> QED
    BY <1>1, <1>3, <2>1, Zenon DEF OnceInv
<1>4. CASE items' = cache /\ cache' = cache
  BY <1>1, <1>4, Zenon DEF OnceInv
<1>5. CASE Deliver
  <2>1. PICK r : r = [run |-> run, seq |-> lastSeq + 1]
    OBVIOUS
  <2>2. CASE UNCHANGED <<items, cache>>
    BY <1>1, <2>2, Zenon DEF OnceInv
  <2>3. CASE /\ \A i \in DOMAIN items : items[i].seq # r.seq
             /\ items' = Append(items, r)
             /\ cache' = IF hydrated THEN Trimmed(items') ELSE cache
    <3>1. r \in Item /\ items' \in Seq(Item)
      BY <1>1, <1>5, <2>1, DeliverStep
    <3>2. Once(items')
      BY <1>1, <2>3, <3>1, ShownOnce DEF OnceInv
    <3>3. Once(Trimmed(items'))
      BY <3>1, <3>2, TrimmedOnce
    <3> QED
      BY <1>1, <2>3, <3>2, <3>3, Zenon DEF OnceInv
  <2> QED
    BY <1>1, <1>5, <2>1, <2>2, <2>3, DeliverStep
<1> QED
  BY <1>1, <1>2, <1>3, <1>4, <1>5, TimelineStep

\* No reply is shown twice, on the web and on mobile, for every length of log and cache
\* and every number of runs: replays after a reconnection or a reload are recognised.
THEOREM NothingShownTwice == Spec => []NothingTwice
<1>1. Init => OnceInv
  BY TypeInit DEF Init, OnceInv, Once
<1>2. OnceInv => NothingTwice
  BY DEF OnceInv, Once, NothingTwice
<1> QED
  BY <1>1, <1>2, OnceStep, PTL DEF Spec

-----------------------------------------------------------------------------
(* The web hook: its timeline only grows.                                  *)

LEMMA ReadFirstStep ==
  ASSUME ~AsyncHydrate PROVE WebInv /\ [Next]_vars => WebInv'
<1> SUFFICES ASSUME WebInv, [Next]_vars PROVE ReadFirst'
  BY TypeStep DEF WebInv
<1>1. CASE Deliver
  <2>1. conn = "open" /\ UNCHANGED <<conn, mounted, hydrated>>
    BY <1>1, DeliverStep DEF WebInv
  <2> QED
    BY <2>1, Zenon DEF WebInv, ReadFirst
<1>2. CASE Mount \/ Unmount
  <2>1. CASE Mount
    BY <2>1, Zenon DEF WebInv, ReadFirst, Mount, socket
  <2> QED
    BY <1>2, <2>1, Zenon DEF ReadFirst, Unmount
<1>3. CASE Hydrate
  BY <1>3, Zenon DEF WebInv, ReadFirst, Hydrate, socket
<1>4. CASE Connect
  BY <1>4, Zenon DEF WebInv, ReadFirst, Connect, screen
<1>5. CASE PushReply \/ EndRun \/ Disconnect \/ SendToLive \/ SendToDead \/ Poll
  <2>1. "open" # "none"
    OBVIOUS
  <2> QED
    BY <1>5, <2>1, Zenon DEF WebInv, ReadFirst, PushReply, EndRun, Disconnect, SendToLive,
       SendToDead, Poll, socket, screen
<1>6. CASE UNCHANGED vars
  BY <1>6, Zenon DEF WebInv, ReadFirst, vars, socket, screen
<1> QED
  BY <1>1, <1>2, <1>3, <1>4, <1>5, <1>6, Zenon DEF Next

LEMMA GrowsAtTheEnd ==
  \A s \in Seq(Item) : /\ IsPrefix(s, s) /\ IsPrefix(<<>>, s)
                       /\ \A r \in Item : IsPrefix(s, Append(s, r))
<1> TAKE s \in Seq(Item)
<1>1. SubSeq(s, 1, Len(s)) = s /\ Len(s) \in Nat
  OBVIOUS
<1>2. IsPrefix(s, s)
  BY <1>1 DEF IsPrefix
<1>3. IsPrefix(<<>>, s)
  <2>1. Len(<<>>) = 0 /\ SubSeq(<<>>, 1, 0) = <<>> /\ SubSeq(s, 1, 0) = <<>>
    OBVIOUS
  <2> QED
    BY <1>1, <2>1 DEF IsPrefix
<1>4. ASSUME NEW r \in Item PROVE IsPrefix(s, Append(s, r))
  <2> DEFINE t == Append(s, r)
             u == SubSeq(t, 1, Len(s))
  <2>1. t \in Seq(Item) /\ Len(t) = Len(s) + 1 /\ \A i \in 1..Len(s) : t[i] = s[i]
    BY <1>1
  <2> HIDE DEF t
  <2>2. u \in Seq(Item) /\ Len(u) = Len(s) /\ \A i \in 1..Len(s) : u[i] = t[i]
    BY <1>1, <2>1
  <2> HIDE DEF u
  <2>3. u = s
    BY <1>1, <2>1, <2>2
  <2> QED
    BY <1>1, <2>1, <2>3 DEF IsPrefix, t, u
<1> QED
  BY <1>2, <1>3, <1>4

\* On the web hook nothing on the screen moves or disappears before the screen is left, for
\* every length of log and cache and every number of runs.
THEOREM WebTimelineOnlyGrows ==
  ASSUME ~AsyncHydrate PROVE Spec => TimelineOnlyGrows
<1>1. Init => WebInv
  BY TypeInit DEF Init, WebInv, ReadFirst
<1>2. WebInv /\ [Next]_vars => [mounted /\ mounted' => IsPrefix(items, items')]_vars
  <2> SUFFICES ASSUME WebInv, [Next]_vars, mounted, mounted' PROVE IsPrefix(items, items')
    OBVIOUS
  <2>1. TypeInv /\ items \in Seq(Item) /\ cache \in Seq(Item)
    BY DEF WebInv, TypeInv, TypeOK
  <2>2. CASE UNCHANGED <<items, cache>>
    BY <2>1, <2>2, GrowsAtTheEnd
  <2>3. CASE Hydrate
    <3>1. items = <<>> /\ items' \in {items, cache}
      BY <2>3, Zenon DEF WebInv, ReadFirst, Hydrate
    <3> QED
      BY <2>1, <3>1, GrowsAtTheEnd
  <2>4. CASE Deliver
    <3>1. PICK r : r = [run |-> run, seq |-> lastSeq + 1]
      OBVIOUS
    <3>2. r \in Item /\ (items' = items \/ items' = Append(items, r))
      BY <2>1, <2>4, <3>1, DeliverStep
    <3> QED
      BY <2>1, <3>2, GrowsAtTheEnd
  <2>5. ~Mount /\ ~Unmount
    BY Zenon DEF Mount, Unmount
  <2> QED
    BY <2>1, <2>2, <2>3, <2>4, <2>5, TimelineStep
<1> QED
  BY <1>1, <1>2, ReadFirstStep, PTL DEF Spec, TimelineOnlyGrows

-----------------------------------------------------------------------------
(* The web hook in the first run, with a cache that holds a whole log.     *)

\* The next reply of the first run continues the timeline, or is part of it already.
LEMMA FirstRunDeliver ==
  ASSUME ~AsyncHydrate, CacheLimit >= MaxLog, FirstRunInv, Deliver, run = 1
  PROVE  /\ Gapless(items') /\ Gapless(cache')
         /\ lastSeq' = lastSeq + 1 /\ Len(items') >= lastSeq'
         /\ UNCHANGED <<run, log, conn, upTo>>
<1>1. PICK r : r = [run |-> run, seq |-> lastSeq + 1]
  OBVIOUS
<1>2. /\ TypeInv /\ items \in Seq(Item) /\ cache \in Seq(Item)
      /\ log \in Nat /\ upTo \in Nat /\ lastSeq \in Nat
      /\ Len(items) \in Nat /\ DOMAIN items = 1..Len(items)
  BY DEF FirstRunInv, WebInv, TypeInv, TypeOK
<1>3. /\ conn = "open" /\ lastSeq < upTo /\ lastSeq' = lastSeq + 1 /\ r \in Item
      /\ UNCHANGED <<run, log, conn, upTo>>
  BY <1>1, <1>2, DeliverStep
<1>4. /\ Gapless(items) /\ Gapless(cache) /\ Len(items) >= lastSeq
      /\ log <= MaxLog /\ upTo <= log
  BY <1>3 DEF FirstRunInv, FirstRun
<1>5. CASE UNCHANGED <<items, cache>> /\ \E i \in DOMAIN items : items[i].seq = r.seq
  <2>1. PICK i \in DOMAIN items : items[i].seq = r.seq
    BY <1>5
  <2>2. i = lastSeq + 1
    BY <1>1, <1>4, <2>1 DEF Gapless
  <2> QED
    BY <1>2, <1>3, <1>4, <1>5, <2>1, <2>2
<1>6. CASE /\ \A i \in DOMAIN items : items[i].seq # r.seq
           /\ items' = Append(items, r)
           /\ cache' = IF hydrated THEN Trimmed(items') ELSE cache
  <2>1. lastSeq = Len(items)
    <3>1. lastSeq + 1 \notin DOMAIN items
      <4>1. \A i \in DOMAIN items : items[i].seq = i
        BY <1>4 DEF Gapless
      <4>2. r.seq = lastSeq + 1
        BY <1>1
      <4>3. \A i \in DOMAIN items : items[i].seq # r.seq
        BY <1>6
      <4> QED
        BY <4>1, <4>2, <4>3, Zenon
    <3>2. lastSeq + 1 \notin 1..Len(items)
      BY <1>2, <3>1
    <3>3. lastSeq \in Nat /\ Len(items) \in Nat /\ Len(items) >= lastSeq
      BY <1>2, <1>4
    <3> QED
      BY <3>2, <3>3
  <2>2. /\ items' \in Seq(Item) /\ Len(items') = Len(items) + 1
        /\ DOMAIN items' = 1..Len(items) + 1
        /\ items'[Len(items) + 1] = r /\ \A i \in DOMAIN items : items'[i] = items[i]
    BY <1>2, <1>3, <1>6, AppendOne
  <2>3. r = [run |-> 1, seq |-> Len(items) + 1]
    BY <1>1, <2>1
  <2>4. Gapless(items')
    BY <1>2, <1>4, <2>2, <2>3 DEF Gapless
  <2>5. Len(items') <= CacheLimit
    BY <1>2, <1>3, <1>4, <2>1, <2>2, ChannelAssumption
  <2>6. cache' \in {items', cache}
    BY <1>6, <2>2, <2>5, TrimmedKeepsTheEnd
  <2> QED
    BY <1>3, <1>4, <2>1, <2>2, <2>4, <2>6
<1> QED
  BY <1>1, <1>2, <1>5, <1>6, DeliverStep

LEMMA FirstRunStep ==
  ASSUME ~AsyncHydrate, CacheLimit >= MaxLog PROVE FirstRunInv /\ [Next]_vars => FirstRunInv'
<1> SUFFICES ASSUME FirstRunInv, [Next]_vars PROVE FirstRun'
  BY ReadFirstStep DEF FirstRunInv
<1>1. /\ WebInv /\ TypeInv /\ run \in Nat /\ log \in Nat /\ lastSeq \in Nat /\ upTo \in Nat
      /\ items \in Seq(Item)
  BY DEF FirstRunInv, WebInv, TypeInv, TypeOK
<1> USE DEF FirstRunInv, FirstRun
<1>2. CASE PushReply \/ EndRun
  BY <1>1, <1>2, ChannelAssumption DEF PushReply, EndRun, socket, screen
<1>3. CASE Mount \/ Unmount
  <2>1. /\ items' = <<>> /\ conn' # "open" /\ UNCHANGED <<run, log, cache>>
        /\ upTo' \in {upTo, 0}
    <3>1. CASE Mount
      <4>1. conn # "open"
        BY <3>1, Zenon DEF WebInv, ReadFirst, Mount
      <4> QED
        BY <3>1, <4>1 DEF Mount, server, socket
    <3> QED
      BY <1>3, <3>1 DEF Unmount, server
  <2>2. Gapless(<<>>)
    BY DEF Gapless
  <2> QED
    BY <1>1, <2>1, <2>2
<1>4. CASE Hydrate
  <2>1. /\ conn # "open" /\ items' \in {items, cache}
        /\ UNCHANGED <<run, log, conn, upTo, cache>>
    <3>1. ~hydrated
      BY <1>4, Zenon DEF Hydrate
    <3>2. conn = "none"
      BY <3>1, Zenon DEF WebInv, ReadFirst
    <3> QED
      BY <1>4, <3>2 DEF Hydrate, server, socket
  <2> QED
    BY <1>1, <2>1
<1>5. CASE Connect
  <2>1. UNCHANGED <<items, cache>> /\ lastSeq' = 0 /\ upTo' = 0
    BY <1>5 DEF Connect, screen
  <2>2. Len(items) >= 0
    BY <1>1
  <2>3. CASE UNCHANGED <<run, log>>
    BY <1>1, <2>1, <2>2, <2>3
  <2>4. CASE run' = run + 1 /\ log' = 0
    <3>1. Gapless(<<>>)
      BY DEF Gapless
    <3> QED
      BY <1>1, <2>1, <2>2, <2>4, <3>1, ChannelAssumption
  <2> QED
    BY <1>5, <2>3, <2>4 DEF Connect, StartOrAttach, server
<1>6. CASE Disconnect \/ SendToDead
  BY <1>1, <1>6 DEF Disconnect, SendToDead, server, screen
<1>7. CASE SendToLive
  BY <1>1, <1>7, ChannelAssumption DEF SendToLive, socket, screen
<1>8. CASE Poll
  BY <1>1, <1>8 DEF Poll, server, screen
<1>9. CASE Deliver
  <2>1. conn = "open" /\ run' = run
    BY <1>1, <1>9, DeliverStep
  <2>2. run # 0
    BY <1>1, <2>1, Zenon DEF TypeInv, Attached
  <2>3. CASE run = 1
    BY <1>1, <1>9, <2>3, FirstRunDeliver
  <2> QED
    BY <2>1, <2>2, <2>3
<1>10. CASE UNCHANGED vars
  BY <1>1, <1>10 DEF vars, server, socket, screen
<1> QED
  BY <1>2, <1>3, <1>4, <1>5, <1>6, <1>7, <1>8, <1>9, <1>10, Zenon DEF Next

LEMMA FirstRunCorrect ==
  ASSUME ~AsyncHydrate, CacheLimit >= MaxLog PROVE Spec => []FirstRunInv
<1>1. Init => FirstRunInv
  BY TypeInit DEF Init, FirstRunInv, WebInv, ReadFirst, FirstRun
<1> QED
  BY <1>1, FirstRunStep, PTL DEF Spec

\* On the web hook, with a cache that holds as much as one run pushes, the screen shows a
\* gapless beginning of the first run's log in its order: reloads, lost sockets and replays of
\* the log neither skip nor reorder a reply.
THEOREM FirstRunKeepsOrder ==
  ASSUME ~AsyncHydrate, CacheLimit >= MaxLog PROVE Spec => []FirstRunInOrder
<1>1. FirstRunInv => FirstRunInOrder
  BY DEF FirstRunInv, FirstRun, Gapless, FirstRunInOrder
<1> QED
  BY <1>1, FirstRunCorrect, PTL

\* There, what the handler counts as sent is on the screen.
THEOREM FirstRunReachesScreen ==
  ASSUME ~AsyncHydrate, CacheLimit >= MaxLog PROVE Spec => []FirstRunIsShown
<1>1. FirstRunInv => FirstRunIsShown
  BY DEF FirstRunInv, FirstRun, FirstRunIsShown
<1> QED
  BY <1>1, FirstRunCorrect, PTL
=============================================================================
