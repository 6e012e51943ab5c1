----------------------------- MODULE NoticeBell -----------------------------
(***************************************************************************)
(* The merchant's notification feed: one file, appended to by the worker   *)
(* and rewritten by the API when the console marks entries read, and the   *)
(* bell that polls it.  The two processes have a lock each, so neither     *)
(* excludes the other.  Only the newest Shown entries are listed.          *)
(***************************************************************************)
EXTENDS Naturals, Sequences, FiniteSets, SequencesExt

CONSTANTS
    Notices,    \* notification ids (booking, kind)
    None,       \* nothing under way
    Shown,      \* entries the bell asks for
    OneProcess  \* do the worker and the API share a lock?

ASSUME BellAssumption ==
    None \notin Notices /\ Shown \in Nat \ {0} /\ OneProcess \in BOOLEAN

VARIABLES
    feed,       \* lines of notifications.jsonl, oldest first
    due,        \* notices the worker still has to send
    sending,    \* the append under way: the notice and the ids it found, or None
    told,       \* notices whose append has returned
    marking,    \* the rewrite under way: wanted ids and the lines it read, or None
    bell,       \* what the bell shows: entries, newest first, and the count
    poll,       \* the GET under way, how far it is and what it has read
    markRead,   \* the bell's mutation: "idle", "sent", "ok" or "lost"
    wanted,     \* the ids of that mutation
    listed      \* history: every id the bell has shown

bellVars == <<feed, due, sending, told, marking, bell, poll, markRead, wanted, listed>>

Entry == [id : Notices, read : BOOLEAN]
View == [entries : Seq(Entry), unread : Nat]
Nothing == [entries |-> <<>>, unread |-> 0]
Least(m, n) == IF m <= n THEN m ELSE n
Ids(s) == {s[i].id : i \in DOMAIN s}
Unread(s) == {s[i].id : i \in {j \in DOMAIN s : ~s[j].read}}

TypeOK ==
    /\ feed \in Seq(Entry)
    /\ due \subseteq Notices /\ told \subseteq Notices /\ listed \subseteq Notices
    /\ sending = None \/ sending \in [id : Notices, known : SUBSET Notices]
    /\ marking = None \/ marking \in [ids : SUBSET Notices, lines : Seq(Entry)]
    /\ bell \in View
    /\ poll \in [at : {"idle", "asked", "listed", "read"}, view : View]
    /\ markRead \in {"idle", "sent", "ok", "lost"} /\ wanted \subseteq Notices

Init ==
    /\ feed = <<>> /\ due = Notices /\ sending = None /\ told = {} /\ marking = None
    /\ bell = Nothing /\ poll = [at |-> "idle", view |-> Nothing]
    /\ markRead = "idle" /\ wanted = {} /\ listed = {}

-----------------------------------------------------------------------------
(* The worker: append holds the worker's lock from the read to the write.  *)

Excluded(other) == OneProcess /\ other # None

AppendRead(n) ==
    /\ n \in due /\ sending = None /\ ~Excluded(marking)
    /\ sending' = [id |-> n, known |-> Ids(feed)]
    /\ UNCHANGED <<feed, due, told, marking, bell, poll, markRead, wanted, listed>>

\* The line is written unless the id was there; then the append returns, or the
\* worker dies and the activity is tried again.
AppendWrite ==
    /\ sending # None
    /\ feed' = IF sending.id \in sending.known THEN feed
               ELSE Append(feed, [id |-> sending.id, read |-> FALSE])
    /\ \/ /\ told' = told \cup {sending.id} /\ due' = due \ {sending.id}
       \/ UNCHANGED <<told, due>>
    /\ sending' = None
    /\ UNCHANGED <<marking, bell, poll, markRead, wanted, listed>>

WorkerCrash ==
    /\ sending # None
    /\ sending' = None
    /\ UNCHANGED <<feed, due, told, marking, bell, poll, markRead, wanted, listed>>

-----------------------------------------------------------------------------
(* The bell: react-query polls the feed; a mutation that succeeds drops the *)
(* poll under way and asks again.                                           *)

At(step, view) == poll' = [at |-> step, view |-> view]

Poll ==
    /\ poll.at = "idle"
    /\ At("asked", Nothing)
    /\ UNCHANGED <<feed, due, sending, told, marking, bell, markRead, wanted, listed>>

\* The handler reads the file twice: once for the list, once for the count.
ListEntries ==
    /\ poll.at = "asked"
    /\ At("listed", [entries |-> SubSeq(Reverse(feed), 1, Least(Shown, Len(feed))),
                     unread |-> 0])
    /\ UNCHANGED <<feed, due, sending, told, marking, bell, markRead, wanted, listed>>

CountUnread ==
    /\ poll.at = "listed"
    /\ At("read", [poll.view EXCEPT !.unread = Cardinality(Unread(feed))])
    /\ UNCHANGED <<feed, due, sending, told, marking, bell, markRead, wanted, listed>>

ShowEntries ==
    /\ poll.at = "read"
    /\ bell' = poll.view
    /\ listed' = listed \cup Ids(poll.view.entries)
    /\ At("idle", Nothing)
    /\ UNCHANGED <<feed, due, sending, told, marking, markRead, wanted>>

PollFails ==
    /\ poll.at # "idle"
    /\ At("idle", Nothing)
    /\ UNCHANGED <<feed, due, sending, told, marking, bell, markRead, wanted, listed>>

\* "Mark all read" sends the ids of the unread entries on the screen.
MarkAllRead ==
    /\ markRead = "idle" /\ Unread(bell.entries) # {}
    /\ markRead' = "sent"
    /\ wanted' = Unread(bell.entries)
    /\ UNCHANGED <<feed, due, sending, told, marking, bell, poll, listed>>

MarkAnswered ==
    /\ markRead \in {"ok", "lost"}
    /\ IF markRead = "ok" THEN At("asked", Nothing) ELSE UNCHANGED poll
    /\ markRead' = "idle"
    /\ UNCHANGED <<feed, due, sending, told, marking, bell, wanted, listed>>

-----------------------------------------------------------------------------
(* The API: mark_read holds the API's lock from the read to the replace.    *)

MarkReadLines ==
    /\ markRead = "sent" /\ marking = None /\ ~Excluded(sending)
    /\ marking' = [ids |-> wanted, lines |-> feed]
    /\ UNCHANGED <<feed, due, sending, told, bell, poll, markRead, wanted, listed>>

\* Mistake: every entry is flipped, not the wanted ones.
MarkEveryLine ==
    /\ marking # None
    /\ feed' = [i \in DOMAIN marking.lines |-> [marking.lines[i] EXCEPT !.read = TRUE]]
    /\ markRead' \in {"ok", "lost"}
    /\ marking' = None
    /\ UNCHANGED <<due, sending, told, bell, poll, wanted, listed>>

\* The file is replaced only if an entry was flipped; the answer may be lost.
MarkReplace ==
    /\ marking # None
    /\ LET flipped == [i \in DOMAIN marking.lines |->
                        IF marking.lines[i].id \in marking.ids
                        THEN [marking.lines[i] EXCEPT !.read = TRUE] ELSE marking.lines[i]]
       IN  feed' = IF flipped = marking.lines THEN feed ELSE flipped
    /\ markRead' \in {"ok", "lost"}
    /\ marking' = None
    /\ UNCHANGED <<due, sending, told, bell, poll, wanted, listed>>

\* The API dies before the replace.
ApiCrash ==
    /\ markRead = "sent"
    /\ marking' = None /\ markRead' = "lost"
    /\ UNCHANGED <<feed, due, sending, told, bell, poll, wanted, listed>>

Next ==
    \/ \E n \in Notices : AppendRead(n)
    \/ AppendWrite \/ WorkerCrash
    \/ Poll \/ ListEntries \/ CountUnread \/ ShowEntries \/ PollFails \/ MarkAllRead \/ MarkAnswered
    \/ MarkReadLines \/ MarkReplace \/ ApiCrash

Spec == Init /\ [][Next]_bellVars

-----------------------------------------------------------------------------
(* Properties. *)

\* An entry is marked read only if the bell has shown it: what arrives between
\* the poll, the click and the rewrite stays unread (NotificationsBell, mark_read).
ReadWasShown == Ids(feed) \ Unread(feed) \subseteq listed

\* Worker crashes and retries, and rewrites of the file in between, never leave two
\* entries with one id (append, "idempotent on id").
EntriesOnce == \A i, j \in DOMAIN feed : feed[i].id = feed[j].id => i = j

\* A notification that was sent is in the feed (notify.py, "always writes the
\* per-tenant feed"; notifications.py, "append-only").
NoticeKept == told \subseteq Ids(feed)
=============================================================================
