---------------------------- MODULE ChatChannel ----------------------------
(***************************************************************************)
(* How the replies of a conversation reach the screen: the reply log of    *)
(* the session's workflow run (workflows/session.py), the WebSocket        *)
(* handler that polls it (channels/web_ws.py), and the chat hook with its  *)
(* cached timeline (web and mobile, features/chat/useWsChat.ts).  A reply  *)
(* is identified by its run and its seq; the hook knows only the seq.      *)
(***************************************************************************)
EXTENDS Naturals, Sequences, SequencesExt

CONSTANTS
  AsyncHydrate,  \* TRUE: the mobile hook, whose cache is read while the
                 \* socket already delivers; FALSE: the web hook
  CacheLimit,    \* timeline items the cache keeps
  MaxLog,        \* bound: replies one run pushes
  MaxRuns        \* bound: runs of the workflow id

ASSUME ChannelAssumption ==
  /\ AsyncHydrate \in BOOLEAN
  /\ CacheLimit \in Nat \ {0}
  /\ MaxLog \in Nat
  /\ MaxRuns \in Nat \ {0}

VARIABLES
  run,       \* the latest run under the workflow id, 0 before the first
  live,      \* it is still executing
  log,       \* replies it has pushed: their seqs are 1..log
  conn,      \* the mounted screen's socket: "none" | "open" | "closed"
  lastSeq,   \* last_seq of its outbound loop
  upTo,      \* last seq of the batch the outbound loop is sending
  mounted,   \* the chat screen is mounted
  hydrated,  \* its timeline was read from the cache
  items,     \* the timeline shown
  cache      \* the timeline stored on the device

server == <<run, live, log>>
socket == <<conn, lastSeq, upTo>>
screen == <<mounted, hydrated, items, cache>>
vars == <<server, socket, screen>>

Item == [run : Nat \ {0}, seq : Nat \ {0}]

Init ==
  /\ run = 0 /\ live = FALSE /\ log = 0
  /\ conn = "none" /\ lastSeq = 0 /\ upTo = 0
  /\ mounted = FALSE /\ hydrated = FALSE /\ items = <<>> /\ cache = <<>>

-----------------------------------------------------------------------------
(* The workflow run.                                                       *)

PushReply ==
  /\ live
  /\ log < MaxLog
  /\ log' = log + 1
  /\ UNCHANGED <<run, live, socket, screen>>

(* 24 idle hours, a close, or an uncaught ActivityError.                   *)
EndRun ==
  /\ live
  /\ live' = FALSE
  /\ UNCHANGED <<run, log, socket, screen>>

-----------------------------------------------------------------------------
(* The chat hook.                                                          *)

Mount ==
  /\ ~mounted
  /\ mounted' = TRUE
  /\ hydrated' = FALSE
  /\ items' = <<>>
  /\ UNCHANGED <<cache, server, socket>>

(* A cached timeline replaces whatever is shown.                           *)
Hydrate ==
  /\ mounted /\ ~hydrated
  /\ hydrated' = TRUE
  /\ items' = IF cache # <<>> THEN cache ELSE items
  /\ UNCHANGED <<mounted, cache, server, socket>>

Unmount ==
  /\ mounted
  /\ mounted' = FALSE
  /\ hydrated' = FALSE
  /\ items' = <<>>
  /\ conn' = "none" /\ lastSeq' = 0 /\ upTo' = 0
  /\ UNCHANGED <<cache, server>>

Trimmed(s) == SubSeq(s, IF Len(s) > CacheLimit THEN Len(s) - CacheLimit + 1 ELSE 1, Len(s))

(* Mistake: the replayed replies are appended again.                       *)
ShowAgain(r) ==
  /\ items' = Append(items, r)
  /\ cache' = IF hydrated THEN Trimmed(items') ELSE cache
  /\ UNCHANGED <<mounted, hydrated>>

(* A seq that is shown already is a duplicate; what is shown is stored.    *)
Show(r) ==
  /\ IF \E i \in DOMAIN items : items[i].seq = r.seq
       THEN UNCHANGED <<items, cache>>
       ELSE /\ items' = Append(items, r)
            /\ cache' = IF hydrated THEN Trimmed(items') ELSE cache
  /\ UNCHANGED <<mounted, hydrated>>

-----------------------------------------------------------------------------
(* The WebSocket handler.                                                  *)

(* start_workflow under the session's id: attach to the run that executes, *)
(* or start the next one.                                                  *)
StartOrAttach ==
  \/ live /\ UNCHANGED server
  \/ ~live /\ run < MaxRuns /\ run' = run + 1 /\ live' = TRUE /\ log' = 0

(* Mistake on the web: the socket opens before the cache has been read.    *)
ConnectEarly ==
  /\ mounted /\ conn = "none"
  /\ StartOrAttach
  /\ conn' = "open" /\ lastSeq' = 0 /\ upTo' = 0
  /\ UNCHANGED screen

(* A mount opens one socket; nothing reopens it when it closes.            *)
Connect ==
  /\ mounted /\ conn = "none"
  /\ hydrated \/ AsyncHydrate
  /\ StartOrAttach
  /\ conn' = "open" /\ lastSeq' = 0 /\ upTo' = 0
  /\ UNCHANGED screen

Disconnect ==
  /\ conn = "open"
  /\ conn' = "closed"
  /\ UNCHANGED <<lastSeq, upTo, server, screen>>

(* The user's text is signalled and echoed in the log; a signal to a run   *)
(* that is over raises in the inbound loop, which closes the socket.       *)
SendToLive ==
  /\ conn = "open" /\ live
  /\ log < MaxLog
  /\ log' = log + 1
  /\ UNCHANGED <<run, live, socket, screen>>

SendToDead ==
  /\ conn = "open" /\ ~live
  /\ conn' = "closed"
  /\ UNCHANGED <<lastSeq, upTo, server, screen>>

(* replies_since(last_seq), answered by a live or a finished run.          *)
Poll ==
  /\ conn = "open" /\ lastSeq = upTo
  /\ log > lastSeq
  /\ upTo' = log
  /\ UNCHANGED <<conn, lastSeq, server, screen>>

(* Mistakes: the cursor jumps to the end of the batch, or the seq sent is  *)
(* the one before it.                                                      *)
DeliverJumping ==
  /\ conn = "open" /\ lastSeq < upTo
  /\ lastSeq' = upTo
  /\ Show([run |-> run, seq |-> lastSeq + 1])
  /\ UNCHANGED <<conn, upTo, server>>

DeliverOffByOne ==
  /\ conn = "open" /\ lastSeq < upTo
  /\ lastSeq' = lastSeq + 1
  /\ Show([run |-> run, seq |-> lastSeq])
  /\ UNCHANGED <<conn, upTo, server>>

(* The next reply of the batch is sent.                                    *)
Deliver ==
  /\ conn = "open" /\ lastSeq < upTo
  /\ lastSeq' = lastSeq + 1
  /\ Show([run |-> run, seq |-> lastSeq + 1])
  /\ UNCHANGED <<conn, upTo, server>>

Next ==
  \/ PushReply \/ EndRun
  \/ Mount \/ Hydrate \/ Unmount
  \/ Connect \/ Disconnect \/ SendToLive \/ SendToDead
  \/ Poll \/ Deliver

Spec == Init /\ [][Next]_vars

(* The outbound loop polls and sends for as long as the socket is open.    *)
FairSpec == Spec /\ WF_vars(Poll) /\ WF_vars(Deliver)

-----------------------------------------------------------------------------
TypeOK ==
  /\ run \in Nat /\ live \in BOOLEAN /\ log \in Nat
  /\ conn \in {"none", "open", "closed"}
  /\ lastSeq \in Nat /\ upTo \in Nat
  /\ mounted \in BOOLEAN /\ hydrated \in BOOLEAN
  /\ items \in Seq(Item)
  /\ cache \in Seq(Item)

(* No reply is on the screen twice, however often the log is replayed to a *)
(* screen that shows part of it already (the duplicate guard of the hook). *)
NothingTwice ==
  \A i, j \in DOMAIN items : items[i] = items[j] => i = j

(* While a session has had one run and the cache holds all of it, the      *)
(* screen shows a gapless beginning of the log, in its order, through any  *)
(* sequence of reloads and lost connections.                               *)
FirstRunInOrder ==
  run = 1 => \A i \in DOMAIN items : items[i] = [run |-> 1, seq |-> i]

(* What the outbound loop counts as sent in the first run is on the        *)
(* screen: its cursor never runs ahead of the timeline.                    *)
FirstRunIsShown ==
  run = 1 /\ conn = "open" => Len(items) >= lastSeq

(* A reply on the screen stays there, at its place, until the screen is    *)
(* left: reading the cache does not undo what the socket delivered.        *)
TimelineOnlyGrows ==
  [][mounted /\ mounted' => IsPrefix(items, items')]_vars

(* Every reply of the first run gets to a screen that stays connected.     *)
EveryReplyShown ==
  \A n \in 1..MaxLog :
    run = 1 /\ conn = "open" /\ log >= n ~> Len(items) >= n \/ conn # "open"

-----------------------------------------------------------------------------
(* A reconnecting client replays the whole history of the run it talks to  *)
(* (workflows/session.py l.98-101).                                        *)
HistoryIsReplayed ==
  conn = "open" =>
    \A n \in 1..lastSeq : \E i \in DOMAIN items : items[i] = [run |-> run, seq |-> n]

=============================================================================
