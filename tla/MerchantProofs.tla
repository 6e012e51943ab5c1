--------------------------- MODULE MerchantProofs ---------------------------
(***************************************************************************)
(* What holds of everything a merchant or an operator uses, whichever part *)
(* is driven: the bell, the agents tab, the wizard and the console page.   *)
(* The bell and the page are proved about here; what ConsoleProofs and     *)
(* OnboardingProofs prove of the other two is carried over at the end.     *)
(***************************************************************************)
EXTENDS MCMerchant, FiniteSetTheorems, WellFoundedInduction, TLAPS

-----------------------------------------------------------------------------
(* The bell, for any number of notices and any length of its list: only    *)
(* shown entries are marked read, no entry is doubled, and, if the worker  *)
(* and the API exclude each other, none is lost.                           *)

ReadIds(s) == {s[i].id : i \in {j \in DOMAIN s : s[j].read}}
Distinct(s) == \A i, j \in DOMAIN s : s[i].id = s[j].id => i = j

\* The part of TypeOK the proofs need.
Lines ==
    /\ feed \in Seq(Entry)
    /\ sending # None => sending.id \in Notices
    /\ marking # None => marking.lines \in Seq(Entry)

\* Whatever is read, or is about to be marked read, has been on the screen.
Seen ==
    /\ ReadIds(feed) \subseteq listed
    /\ Ids(bell.entries) \subseteq listed /\ wanted \subseteq listed
    /\ marking # None => marking.ids \subseteq listed /\ ReadIds(marking.lines) \subseteq listed

\* What an append or a rewrite under way has read covers, or is covered by, the file.
Once ==
    /\ Distinct(feed)
    /\ sending # None => Ids(feed) \subseteq sending.known
    /\ marking # None => Distinct(marking.lines) /\ Ids(marking.lines) \subseteq Ids(feed)

BellInv == Lines /\ Seen /\ Once

\* With one lock, at most one of the two is under way and what it read is the file.
Locked ==
    /\ sending = None \/ marking = None
    /\ sending # None => sending.known = Ids(feed)
    /\ marking # None => marking.lines = feed

KeptInv == Lines /\ Locked /\ NoticeKept

\* What mark_read writes.
Flipped(m) == [i \in DOMAIN m.lines |-> IF m.lines[i].id \in m.ids
                                        THEN [m.lines[i] EXCEPT !.read = TRUE] ELSE m.lines[i]]

-----------------------------------------------------------------------------
(* Appending an unread line; flipping lines.                                *)

LEMMA AppendUnread ==
    ASSUME NEW s \in Seq(Entry), NEW n \in Notices, NEW t,
           t = Append(s, [id |-> n, read |-> FALSE])
    PROVE  /\ t \in Seq(Entry)
           /\ Ids(t) = Ids(s) \cup {n}
           /\ ReadIds(t) = ReadIds(s)
           /\ Distinct(s) /\ n \notin Ids(s) => Distinct(t)
<1> DEFINE e == [id |-> n, read |-> FALSE]
<1>1. e \in Entry /\ e.id = n /\ e.read = FALSE
  BY DEF Entry
<1>2. /\ t \in Seq(Entry) /\ Len(t) = Len(s) + 1 /\ DOMAIN t = 1..Len(s) + 1
      /\ DOMAIN s = 1..Len(s) /\ Len(s) \in Nat
      /\ t[Len(s) + 1] = e /\ \A i \in 1..Len(s) : t[i] = s[i]
  BY <1>1
<1> HIDE DEF e
<1>3. Ids(t) = Ids(s) \cup {n}
  BY <1>1, <1>2 DEF Ids
<1>4. ReadIds(t) = ReadIds(s)
  BY <1>1, <1>2 DEF ReadIds
<1>5. ASSUME Distinct(s), n \notin Ids(s) PROVE Distinct(t)
  BY <1>1, <1>2, <1>5 DEF Distinct, Ids
<1> QED
  BY <1>2, <1>3, <1>4, <1>5

LEMMA FlippedLines ==
    ASSUME NEW m, m.lines \in Seq(Entry)
    PROVE  /\ Flipped(m) \in Seq(Entry)
           /\ Ids(Flipped(m)) = Ids(m.lines)
           /\ ReadIds(Flipped(m)) \subseteq ReadIds(m.lines) \cup m.ids
           /\ Distinct(m.lines) => Distinct(Flipped(m))
<1> DEFINE s == m.lines
           f == Flipped(m)
<1>1. s \in Seq(Entry) /\ DOMAIN s = 1..Len(s) /\ Len(s) \in Nat
      /\ \A i \in DOMAIN s : s[i] \in Entry
  OBVIOUS
<1>2. DOMAIN f = DOMAIN s
  BY DEF Flipped
<1>3. \A i \in DOMAIN s : /\ f[i] \in Entry /\ f[i].id = s[i].id
                          /\ f[i].read => s[i].read \/ s[i].id \in m.ids
  <2>1. TAKE i \in DOMAIN s
  <2>2. s[i] \in Entry
    BY <1>1
  <2>3. f[i] = IF s[i].id \in m.ids THEN [s[i] EXCEPT !.read = TRUE] ELSE s[i]
    BY DEF Flipped
  <2> QED
    BY <2>2, <2>3 DEF Entry
<1>4. f \in Seq(Entry)
  <2>1. f \in [1..Len(s) -> Entry]
    BY <1>1, <1>2, <1>3 DEF Flipped
  <2> QED
    BY <1>1, <2>1
<1> HIDE DEF f, s
<1>5. Ids(f) = Ids(s)
  BY <1>2, <1>3 DEF Ids
<1>6. ReadIds(f) \subseteq ReadIds(s) \cup m.ids
  BY <1>2, <1>3 DEF ReadIds
<1>7. Distinct(s) => Distinct(f)
  BY <1>2, <1>3 DEF Distinct
<1> QED
  BY <1>4, <1>5, <1>6, <1>7 DEF f, s

LEMMA UnreadAreIds == ASSUME NEW s PROVE Unread(s) \subseteq Ids(s)
BY DEF Unread, Ids

\* An id all of whose lines are read has a read line.
LEMMA ReadHasLine ==
    ASSUME NEW s \in Seq(Entry)
    PROVE  Ids(s) \ Unread(s) \subseteq ReadIds(s)
BY DEF Ids, Unread, ReadIds, Entry

-----------------------------------------------------------------------------
(* The steps that change the file.                                          *)

LEMMA AppendWriteStep ==
    ASSUME Lines, AppendWrite
    PROVE  /\ sending # None /\ sending.id \in Notices /\ sending' = None
           /\ UNCHANGED <<marking, bell, wanted, listed>>
           /\ told' \subseteq told \cup {sending.id}
           /\ IF sending.id \in sending.known
              THEN feed' = feed
              ELSE /\ feed' \in Seq(Entry)
                   /\ Ids(feed') = Ids(feed) \cup {sending.id}
                   /\ ReadIds(feed') = ReadIds(feed)
                   /\ Distinct(feed) /\ sending.id \notin Ids(feed) => Distinct(feed')
<1>1. /\ sending # None /\ sending.id \in Notices /\ sending' = None
      /\ UNCHANGED <<marking, bell, wanted, listed>> /\ told' \subseteq told \cup {sending.id}
  BY DEF AppendWrite, Lines
<1>2. CASE sending.id \in sending.known
  BY <1>1, <1>2 DEF AppendWrite
<1>3. CASE sending.id \notin sending.known
  <2>1. feed' = Append(feed, [id |-> sending.id, read |-> FALSE])
    BY <1>3 DEF AppendWrite
  <2>2. feed \in Seq(Entry)
    BY DEF Lines
  <2>3. /\ feed' \in Seq(Entry)
        /\ Ids(feed') = Ids(feed) \cup {sending.id}
        /\ ReadIds(feed') = ReadIds(feed)
        /\ Distinct(feed) /\ sending.id \notin Ids(feed) => Distinct(feed')
    <3> DEFINE n == sending.id
               t == Append(feed, [id |-> n, read |-> FALSE])
    <3>1. n \in Notices
      BY <1>1
    <3>2. /\ t \in Seq(Entry) /\ Ids(t) = Ids(feed) \cup {n} /\ ReadIds(t) = ReadIds(feed)
          /\ Distinct(feed) /\ n \notin Ids(feed) => Distinct(t)
      BY <2>2, <3>1, AppendUnread
    <3> HIDE DEF t
    <3> QED
      BY <2>1, <3>2 DEF t
  <2> QED
    BY <1>1, <1>3, <2>3
<1> QED
  BY <1>2, <1>3

LEMMA MarkReplaceStep ==
    ASSUME Lines, MarkReplace
    PROVE  /\ marking # None /\ marking' = None
           /\ UNCHANGED <<sending, told, bell, wanted, listed>>
           /\ \/ feed' = feed
              \/ /\ feed' \in Seq(Entry)
                 /\ Ids(feed') = Ids(marking.lines)
                 /\ ReadIds(feed') \subseteq ReadIds(marking.lines) \cup marking.ids
                 /\ Distinct(marking.lines) => Distinct(feed')
<1>1. /\ marking # None /\ marking' = None
      /\ UNCHANGED <<sending, told, bell, wanted, listed>>
  BY DEF MarkReplace
<1>2. feed' = feed \/ feed' = Flipped(marking)
  BY DEF MarkReplace, Flipped
<1>3. marking.lines \in Seq(Entry)
  BY <1>1 DEF Lines
<1> QED
  BY <1>1, <1>2, <1>3, FlippedLines

-----------------------------------------------------------------------------
(* BellInv is inductive.                                                    *)

LEMMA BellInit == Init => BellInv
BY DEF Init, BellInv, Lines, Seen, Once, ReadIds, Ids, Distinct, Nothing

LEMMA BellStep == BellInv /\ [Next]_bellVars => BellInv'
<1> SUFFICES ASSUME BellInv, [Next]_bellVars PROVE BellInv'
  OBVIOUS
<1>0. Lines /\ Seen /\ Once
  BY DEF BellInv
<1>1. CASE \E n \in Notices : AppendRead(n)
  <2>1. Lines'
    BY <1>0, <1>1 DEF Lines, AppendRead, Ids, Entry
  <2>2. Seen'
    BY <1>0, <1>1 DEF Seen, AppendRead
  <2>3. Once'
    BY <1>0, <1>1 DEF Once, AppendRead
  <2> QED
    BY <2>1, <2>2, <2>3 DEF BellInv
<1>2. CASE AppendWrite
  <2>0. /\ sending # None /\ sending' = None /\ UNCHANGED <<marking, bell, wanted, listed>>
        /\ \/ feed' = feed
           \/ /\ feed' \in Seq(Entry) /\ sending.id \notin sending.known
              /\ Ids(feed') = Ids(feed) \cup {sending.id} /\ ReadIds(feed') = ReadIds(feed)
              /\ Distinct(feed) /\ sending.id \notin Ids(feed) => Distinct(feed')
    BY <1>0, <1>2, AppendWriteStep
  <2>1. Lines'
    BY <1>0, <2>0 DEF Lines
  <2>2. Seen'
    BY <1>0, <2>0 DEF Seen
  <2>3. Once'
    BY <1>0, <2>0 DEF Once
  <2> QED
    BY <2>1, <2>2, <2>3 DEF BellInv
<1>3. CASE MarkReadLines
  <2>1. Lines'
    BY <1>0, <1>3 DEF Lines, MarkReadLines
  <2>2. Seen'
    BY <1>0, <1>3 DEF Seen, MarkReadLines
  <2>3. Once'
    BY <1>0, <1>3 DEF Once, MarkReadLines
  <2> QED
    BY <2>1, <2>2, <2>3 DEF BellInv
<1>4. CASE MarkReplace
  <2>0. /\ marking # None /\ marking' = None /\ UNCHANGED <<sending, bell, wanted, listed>>
        /\ \/ feed' = feed
           \/ /\ feed' \in Seq(Entry) /\ Ids(feed') = Ids(marking.lines)
              /\ ReadIds(feed') \subseteq ReadIds(marking.lines) \cup marking.ids
              /\ Distinct(marking.lines) => Distinct(feed')
    BY <1>0, <1>4, MarkReplaceStep
  <2>1. Lines'
    BY <1>0, <2>0 DEF Lines
  <2>2. Seen'
    BY <1>0, <2>0 DEF Seen
  <2>3. Once'
    BY <1>0, <2>0 DEF Once
  <2> QED
    BY <2>1, <2>2, <2>3 DEF BellInv
<1>5. CASE ShowEntries
  BY <1>0, <1>5 DEF BellInv, Lines, Seen, Once, ShowEntries
<1>6. CASE MarkAllRead
  BY <1>0, <1>6, UnreadAreIds DEF BellInv, Lines, Seen, Once, MarkAllRead
<1>7. CASE ApiCrash \/ WorkerCrash
  BY <1>0, <1>7 DEF BellInv, Lines, Seen, Once, ApiCrash, WorkerCrash
<1>8. CASE Poll \/ ListEntries \/ CountUnread \/ PollFails \/ MarkAnswered
  <2>1. UNCHANGED <<feed, sending, marking, bell, wanted, listed>>
    BY <1>8 DEF Poll, ListEntries, CountUnread, PollFails, MarkAnswered
  <2> QED
    BY <1>0, <2>1 DEF BellInv, Lines, Seen, Once
<1>9. CASE UNCHANGED bellVars
  BY <1>0, <1>9 DEF BellInv, Lines, Seen, Once, bellVars
<1> QED
  BY <1>1, <1>2, <1>3, <1>4, <1>5, <1>6, <1>7, <1>8, <1>9 DEF Next

\* Whatever polls, clicks, crashes and rewrites are interleaved, an entry that is read
\* has been shown by the bell (NotificationsBell, mark_read).
THEOREM ShownBeforeRead == Spec => []ReadWasShown
<1>1. BellInv => ReadWasShown
  BY ReadHasLine DEF BellInv, Lines, Seen, ReadWasShown
<1> QED
  BY BellInit, BellStep, <1>1, PTL DEF Spec

\* Retries after crashes and rewrites by the other process leave one entry per id
\* (append, "idempotent on id").
THEOREM NoEntryTwice == Spec => []EntriesOnce
<1>1. BellInv => EntriesOnce
  BY DEF BellInv, Once, Distinct, EntriesOnce
<1> QED
  BY BellInit, BellStep, <1>1, PTL DEF Spec

-----------------------------------------------------------------------------
(* With one lock for the worker and the API.                                *)

LEMMA KeptInit == Init => KeptInv
BY DEF Init, KeptInv, Lines, Locked, NoticeKept, Ids

LEMMA KeptStep == OneProcess /\ KeptInv /\ [Next]_bellVars => KeptInv'
<1> SUFFICES ASSUME OneProcess, KeptInv, [Next]_bellVars PROVE KeptInv'
  OBVIOUS
<1>0. Lines /\ Locked /\ NoticeKept
  BY DEF KeptInv
<1>1. CASE \E n \in Notices : AppendRead(n)
  <2>1. Lines'
    BY <1>0, <1>1 DEF Lines, AppendRead, Ids, Entry
  <2>2. Locked'
    BY <1>0, <1>1 DEF Locked, AppendRead, Excluded
  <2> QED
    BY <1>0, <1>1, <2>1, <2>2 DEF KeptInv, NoticeKept, AppendRead
<1>2. CASE AppendWrite
  <2>0. /\ sending # None /\ sending' = None /\ marking' = marking
        /\ told' \subseteq told \cup {sending.id}
        /\ IF sending.id \in sending.known
           THEN feed' = feed
           ELSE feed' \in Seq(Entry) /\ Ids(feed') = Ids(feed) \cup {sending.id}
    BY <1>0, <1>2, AppendWriteStep
  <2>1. Lines'
    BY <1>0, <2>0 DEF Lines
  <2>2. Locked'
    BY <1>0, <2>0 DEF Locked
  <2>3. NoticeKept'
    BY <1>0, <2>0 DEF Locked, NoticeKept
  <2> QED
    BY <2>1, <2>2, <2>3 DEF KeptInv
<1>3. CASE MarkReadLines
  BY <1>0, <1>3 DEF KeptInv, Lines, Locked, NoticeKept, MarkReadLines, Excluded
<1>4. CASE MarkReplace
  <2>0. /\ marking # None /\ marking' = None /\ sending' = sending /\ told' = told
        /\ \/ feed' = feed
           \/ feed' \in Seq(Entry) /\ Ids(feed') = Ids(marking.lines)
    BY <1>0, <1>4, MarkReplaceStep
  <2> QED
    BY <1>0, <2>0 DEF KeptInv, Lines, Locked, NoticeKept
<1>5. CASE ApiCrash \/ WorkerCrash
  BY <1>0, <1>5 DEF KeptInv, Lines, Locked, NoticeKept, ApiCrash, WorkerCrash
<1>6. CASE Poll \/ ListEntries \/ CountUnread \/ ShowEntries \/ PollFails \/ MarkAllRead
           \/ MarkAnswered
  <2>1. UNCHANGED <<feed, sending, told, marking>>
    BY <1>6 DEF Poll, ListEntries, CountUnread, ShowEntries, PollFails, MarkAllRead,
                MarkAnswered
  <2> QED
    BY <1>0, <2>1 DEF KeptInv, Lines, Locked, NoticeKept
<1>7. CASE UNCHANGED bellVars
  BY <1>0, <1>7 DEF KeptInv, Lines, Locked, NoticeKept, bellVars
<1> QED
  BY <1>1, <1>2, <1>3, <1>4, <1>5, <1>6, <1>7 DEF Next

\* If the worker and the API shared a lock, no notification that was sent would be lost
\* from the feed (notify.py, "always writes the per-tenant feed"): the run feed_rewrite
\* shows that the assumption is needed.
THEOREM KeptWithOneLock ==
    ASSUME OneProcess
    PROVE  Spec => []NoticeKept
<1>1. KeptInv => NoticeKept
  BY DEF KeptInv
<1>2. KeptInv /\ [Next]_bellVars => KeptInv'
  BY KeptStep
<1> QED
  BY KeptInit, <1>1, <1>2, PTL DEF Spec

-----------------------------------------------------------------------------
(* The bell: types.                                                        *)

LEMMA UnreadCount ==
    ASSUME NEW s \in Seq(Entry)
    PROVE  Cardinality(Unread(s)) \in Nat
<1> DEFINE D == {j \in DOMAIN s : ~s[j].read}
           f == [j \in D |-> s[j].id]
<1>1. D \subseteq 1..Len(s) /\ Len(s) \in Nat /\ IsFiniteSet(1..Len(s))
  BY FS_Interval
<1>2. IsFiniteSet(D)
  BY <1>1, FS_Subset
<1>3. f \in Surjection(D, Unread(s))
  BY DEF Surjection, Unread
<1> QED
  BY <1>2, <1>3, FS_Surjection, FS_CardinalityType

\* The newest entries of the file.
LEMMA NewestEntries ==
    ASSUME NEW s \in Seq(Entry)
    PROVE  SubSeq(Reverse(s), 1, Least(Shown, Len(s))) \in Seq(Entry)
<1>1. PICK n \in Nat : n = Len(s)
  OBVIOUS
<1>2. \A i \in 1..n : (n - i) + 1 \in 1..n /\ s[(n - i) + 1] \in Entry
  BY <1>1
<1>3. PICK r : r = Reverse(s)
  OBVIOUS
<1>4. r \in [1..n -> Entry]
  BY <1>1, <1>2, <1>3 DEF Reverse
<1>5. r \in Seq(Entry) /\ Len(r) = n
  BY <1>1, <1>4
<1>6. Least(Shown, n) \in 0..n
  BY BellAssumption DEF Least
<1>7. SubSeq(r, 1, Least(Shown, n)) \in Seq(Entry)
  BY <1>5, <1>6
<1> QED
  BY <1>1, <1>3, <1>7

LEMMA BellTypes == TypeOK /\ [Next]_bellVars => TypeOK'
<1> SUFFICES ASSUME TypeOK, [Next]_bellVars PROVE TypeOK'
  OBVIOUS
<1>0. /\ feed \in Seq(Entry) /\ Ids(feed) \subseteq Notices
      /\ Ids(bell.entries) \subseteq Notices /\ Unread(bell.entries) \subseteq Notices
      /\ Ids(poll.view.entries) \subseteq Notices
      /\ poll.view \in View /\ bell \in View /\ Nothing \in View
  <2>1. ASSUME NEW s \in Seq(Entry) PROVE Ids(s) \subseteq Notices /\ Unread(s) \subseteq Notices
    <3>0. DOMAIN s = 1..Len(s) /\ \A i \in DOMAIN s : s[i] \in Entry
      OBVIOUS
    <3>1. \A i \in DOMAIN s : s[i].id \in Notices
      BY <3>0 DEF Entry
    <3> QED
      BY <3>1 DEF Ids, Unread
  <2>2. feed \in Seq(Entry) /\ bell \in View /\ poll.view \in View
    BY DEF TypeOK
  <2>3. bell.entries \in Seq(Entry) /\ poll.view.entries \in Seq(Entry)
    BY <2>2 DEF View
  <2>4. <<>> \in Seq(Entry) /\ Nothing \in View
    BY DEF Nothing, View
  <2> QED
    BY <2>1, <2>2, <2>3, <2>4
<1>1. Lines
  BY DEF TypeOK, Lines
<1>2. ASSUME NEW n \in Notices, AppendRead(n) PROVE TypeOK'
  BY <1>0, <1>2 DEF TypeOK, AppendRead
<1>3. CASE AppendWrite
  BY <1>0, <1>1, <1>3, AppendWriteStep DEF TypeOK, AppendWrite
<1>4. CASE WorkerCrash \/ PollFails \/ Poll
  BY <1>0, <1>4 DEF TypeOK, WorkerCrash, PollFails, Poll, At
<1>5. CASE ListEntries
  BY <1>0, <1>5, NewestEntries DEF TypeOK, ListEntries, At, View
<1>6. CASE CountUnread
  BY <1>0, <1>6, UnreadCount DEF TypeOK, CountUnread, At, View
<1>7. CASE ShowEntries
  BY <1>0, <1>7 DEF TypeOK, ShowEntries, At
<1>8. CASE MarkAllRead
  BY <1>0, <1>8 DEF TypeOK, MarkAllRead
<1>9. CASE MarkAnswered
  BY <1>0, <1>9 DEF TypeOK, MarkAnswered, At
<1>10. CASE MarkReadLines
  BY <1>0, <1>10 DEF TypeOK, MarkReadLines
<1>11. CASE MarkReplace
  BY <1>0, <1>1, <1>11, MarkReplaceStep DEF TypeOK, MarkReplace
<1>12. CASE ApiCrash
  BY <1>0, <1>12 DEF TypeOK, ApiCrash
<1>13. CASE UNCHANGED bellVars
  BY <1>0, <1>13 DEF TypeOK, bellVars
<1> QED
  BY <1>2, <1>3, <1>4, <1>5, <1>6, <1>7, <1>8, <1>9, <1>10, <1>11, <1>12, <1>13 DEF Next

LEMMA BellTypesInit == Init => TypeOK
BY DEF Init, TypeOK, Nothing, View

-----------------------------------------------------------------------------
(* The page: types.  The tenant it is about is one of the list, and there  *)
(* is one while the deletion dialog is open.                               *)

PageTypes == Page!TypeOK /\ (asking => list # {})

\* A nonempty set of numbers has a smallest one.
LEMMA MinOfSome ==
  ASSUME NEW S \in SUBSET Nat, S # {}
  PROVE Page!Min(S) \in S
<1> DEFINE R == OpToRel(<, Nat)
<1>1. PICK x \in S : \A y \in S : ~(<<y, x>> \in R)
  <2>1. IsWellFoundedOn(R, Nat)
    BY NatLessThanWellFounded
  <2> HIDE DEF R
  <2> QED
    BY <2>1, WFMin
<1>2. S \subseteq Nat
  OBVIOUS
<1>3. \A y \in S : ~(y < x)
  BY <1>1, <1>2 DEF OpToRel
<1>4. \A y \in S : x <= y
  BY <1>2, <1>3
<1> QED
  BY <1>4 DEF Page!Min

LEMMA AboutListed ==
  ASSUME PageTypes, list # {}
  PROVE Page!Selected \in list
<1>1. Page!Min(list) \in list
  BY MinOfSome, MerchantAssumption DEF PageTypes, Page!TypeOK, Page!OperatorAssumption
<1> QED
  BY <1>1 DEF Page!Selected, Page!SelectedIn, Page!First

\* The requests under way: what is answered, removed or no longer heard stays a request.
Requests(js) == js \in Seq(Page!Job) /\ Len(js) <= sentRequests

LEMMA RequestsNow ==
  ASSUME PageTypes
  PROVE /\ requests \in Seq(Page!Job) /\ DOMAIN requests = 1..Len(requests)
        /\ Len(requests) \in Nat /\ sentRequests \in Nat /\ Len(requests) <= sentRequests
        /\ \A i \in DOMAIN requests : requests[i] \in Page!Job
BY MerchantAssumption DEF PageTypes, Page!TypeOK, Page!OperatorAssumption

LEMMA AnsweredJob ==
  ASSUME PageTypes, NEW i \in DOMAIN requests, NEW answer \in {"key", "known", "deleted"}
  PROVE Requests([requests EXCEPT ![i].at = answer])
<1>1. PICK b : b = [requests[i] EXCEPT !.at = answer]
  OBVIOUS
<1>2. b \in Page!Job
  BY <1>1, RequestsNow DEF Page!Job
<1>3. Requests([requests EXCEPT ![i] = b])
  BY <1>2, RequestsNow DEF Requests
<1> QED
  BY <1>1, <1>3

LEMMA RemovedJob ==
  ASSUME PageTypes, NEW i \in DOMAIN requests
  PROVE Requests(Page!RemoveAt(requests, i))
<1>1. PICK n \in Nat : n = Len(requests) /\ i \in 1..n
  BY RequestsNow
<1>2. PICK a : a = SubSeq(requests, 1, i - 1)
  OBVIOUS
<1>3. PICK b : b = SubSeq(requests, i + 1, n)
  OBVIOUS
<1>4. a \in Seq(Page!Job) /\ Len(a) = i - 1
  BY <1>1, <1>2, RequestsNow
<1>5. b \in Seq(Page!Job) /\ Len(b) = n - i
  BY <1>1, <1>3, RequestsNow
<1>6. a \o b \in Seq(Page!Job) /\ Len(a \o b) = n - 1
  BY <1>1, <1>4, <1>5
<1>7. n - 1 <= sentRequests
  BY <1>1, RequestsNow
<1> QED
  BY <1>1, <1>2, <1>3, <1>6, <1>7 DEF Page!RemoveAt, Requests

LEMMA ClosedJobs ==
  ASSUME NEW js, Requests(js)
  PROVE Requests(Page!Closed(js))
<1>1. \A b \in Page!Job : [b EXCEPT !.to = "page"] \in Page!Job
  BY DEF Page!Job
<1>2. js \in Seq(Page!Job) /\ Len(js) \in Nat /\ DOMAIN js = 1..Len(js)
      /\ \A i \in DOMAIN js : js[i] \in Page!Job
  BY DEF Requests
<1>3. PICK cs : cs = Page!Closed(js)
  OBVIOUS
<1>4. cs = [i \in 1..Len(js) |-> IF js[i].to = "dialog" THEN [js[i] EXCEPT !.to = "page"]
                                 ELSE js[i]]
  BY <1>2, <1>3 DEF Page!Closed
<1>5. cs \in [1..Len(js) -> Page!Job]
  BY <1>1, <1>2, <1>4
<1>6. cs \in Seq(Page!Job) /\ Len(cs) = Len(js)
  BY <1>2, <1>4, <1>5
<1> QED
  BY <1>3, <1>6 DEF Requests

LEMMA UnheardJobs ==
  ASSUME PageTypes
  PROVE Requests([i \in DOMAIN requests |-> [requests[i] EXCEPT !.to = "nobody"]])
<1>1. \A b \in Page!Job : [b EXCEPT !.to = "nobody"] \in Page!Job
  BY DEF Page!Job
<1>2. PICK js : js = [i \in 1..Len(requests) |-> [requests[i] EXCEPT !.to = "nobody"]]
  OBVIOUS
<1>3. js \in [1..Len(requests) -> Page!Job]
  BY <1>1, <1>2, RequestsNow
<1>4. js \in Seq(Page!Job) /\ Len(js) = Len(requests)
  BY <1>2, <1>3, RequestsNow
<1> QED
  BY <1>2, <1>4, RequestsNow DEF Requests

\* A request that is sent is the last.
LEMMA SentJob ==
  ASSUME PageTypes, NEW kind \in {"create", "delete"}, NEW t \in Tenants,
         NEW who \in {"dialog", "page"}, Page!Send(kind, t, who)
  PROVE Requests(requests)' /\ sentRequests' \in 0..MaxJobs
<1>1. sentRequests \in 0..MaxJobs /\ MaxJobs \in Nat
  BY MerchantAssumption DEF PageTypes, Page!TypeOK, Page!OperatorAssumption
<1>2. PICK b : b = [kind |-> kind, tenant |-> t, to |-> who, at |-> "sent"]
  OBVIOUS
<1>3. b \in Page!Job
  BY <1>2 DEF Page!Job
<1>4. requests' = Append(requests, b) /\ sentRequests' = sentRequests + 1
      /\ sentRequests < MaxJobs
  BY <1>2 DEF Page!Send
<1> QED
  BY <1>1, <1>3, <1>4, RequestsNow DEF Requests

\* What is neither the requests nor the list stays of its type.
LEMMA PageTypesStep ==
  ASSUME PageTypes, [Page!Next]_operatorVars
  PROVE PageTypes'
<1>0. /\ registry \subseteq Tenants /\ others \in 0..MaxOthers /\ MaxOthers \in Nat
      /\ list \subseteq Tenants /\ listStale \in BOOLEAN /\ behind \subseteq Tenants
      /\ listing \in [at : {"idle", "asked", "read"}, rows : SUBSET Tenants]
      /\ override \in Tenants \cup {None} /\ url \in Tenants \cup {None}
      /\ asking \in BOOLEAN /\ provisioning \in BOOLEAN /\ issued \in Tenants \cup {None}
      /\ Requests(requests) /\ sentRequests \in 0..MaxJobs /\ (asking => list # {})
  BY MerchantAssumption DEF PageTypes, Page!TypeOK, Page!OperatorAssumption, Requests
<1>1. Page!Asked \in [at : {"idle", "asked", "read"}, rows : SUBSET Tenants]
      /\ Page!Idle \in [at : {"idle", "asked", "read"}, rows : SUBSET Tenants]
  BY DEF Page!Asked, Page!Idle
<1> DEFINE Typed ==
      /\ registry \subseteq Tenants /\ others \in 0..MaxOthers
      /\ list \subseteq Tenants /\ listStale \in BOOLEAN /\ behind \subseteq Tenants
      /\ listing \in [at : {"idle", "asked", "read"}, rows : SUBSET Tenants]
      /\ override \in Tenants \cup {None} /\ url \in Tenants \cup {None}
      /\ asking \in BOOLEAN /\ provisioning \in BOOLEAN /\ issued \in Tenants \cup {None}
      /\ Requests(requests) /\ sentRequests \in 0..MaxJobs /\ (asking => list # {})
<1> SUFFICES Typed'
  BY DEF PageTypes, Page!TypeOK, Requests
<1>2. ASSUME NEW t \in Tenants, Page!Pick(t) \/ Page!Revive(t) \/ Page!OthersChange(t)
      PROVE Typed'
  BY <1>0, <1>2 DEF Page!Pick, Page!Revive, Page!OthersChange, Page!OnSelect, Page!Registry,
     Page!Query, Page!View, Page!Dialog, Requests
<1>3. ASSUME NEW t \in Tenants, Page!Submit(t) PROVE Typed'
  <2>1. Requests(requests)' /\ sentRequests' \in 0..MaxJobs
    BY <1>3, SentJob DEF Page!Submit
  <2> QED
    BY <1>0, <1>3, <2>1 DEF Page!Submit, Page!Registry, Page!Query, Page!View, Page!Dialog
<1>4. CASE Page!OpenRecent \/ Page!AskDelete \/ Page!CancelDelete \/ Page!OpenForm
  <2>1. Page!Selected # None => list # {}
    BY DEF Page!Selected, Page!SelectedIn, Page!First
  <2>2. CASE Page!OpenRecent
    BY <1>0, <2>2 DEF Page!OpenRecent, Page!Registry, Page!Query, Page!Dialog, Requests
  <2>3. CASE Page!AskDelete \/ Page!CancelDelete
    BY <1>0, <2>1, <2>3 DEF Page!AskDelete, Page!CancelDelete, Page!Registry, Page!Query,
       Page!Dialog, Requests
  <2>4. CASE Page!OpenForm
    BY <1>0, <2>4 DEF Page!OpenForm, Page!Registry, Page!Query, Page!View, Requests
  <2> QED
    BY <1>4, <2>2, <2>3, <2>4
<1>5. CASE Page!Reload
  <2>1. Requests(requests')
    BY <1>5, UnheardJobs DEF Page!Reload
  <2> QED
    BY <1>0, <1>1, <1>5, <2>1 DEF Page!Reload, Page!CloseDialog, Page!Registry, Requests
<1>6. CASE Page!Poll \/ Page!ReadList \/ Page!ShowList \/ Page!ListFails
  <2>0. CASE Page!Poll
    BY <1>0, <1>1, <2>0 DEF Page!Poll, Page!Registry, Page!View, Page!Dialog, Requests
  <2>1. CASE Page!ListFails
    BY <1>0, <1>1, <2>1 DEF Page!ListFails, Page!Registry, Page!View, Page!Dialog, Requests
  <2>2. CASE Page!ReadList
    <3>1. [at |-> "read", rows |-> registry]
            \in [at : {"idle", "asked", "read"}, rows : SUBSET Tenants]
      BY <1>0
    <3> QED
      BY <1>0, <2>2, <3>1 DEF Page!ReadList, Page!Registry, Page!View, Page!Dialog, Requests
  <2>3. CASE Page!ShowList
    <3>1. listing.rows \subseteq Tenants
      BY <1>0
    <3> QED
      BY <1>0, <1>1, <2>3, <3>1 DEF Page!ShowList, Page!Registry, Page!Dialog, Requests
  <2> QED
    BY <1>6, <2>0, <2>1, <2>2, <2>3
<1>7. CASE Page!ConfirmDelete
  <2>1. Page!Selected \in Tenants
    BY <1>0, <1>7, AboutListed DEF Page!ConfirmDelete
  <2>2. Requests(requests)' /\ sentRequests' \in 0..MaxJobs
    BY <1>7, <2>1, SentJob DEF Page!ConfirmDelete
  <2> QED
    BY <1>0, <1>7, <2>2 DEF Page!ConfirmDelete, Page!Registry, Page!Query, Page!Dialog
<1>8. CASE Page!CancelForm
  <2>1. Requests(requests')
    BY <1>0, <1>8, ClosedJobs DEF Page!CancelForm
  <2> QED
    BY <1>0, <1>8, <2>1 DEF Page!CancelForm, Page!CloseDialog, Page!Registry, Page!Query,
       Page!View, Requests
<1>9. CASE Page!Done
  <2>1. Requests(requests')
    BY <1>0, <1>9, ClosedJobs DEF Page!Done, Page!OnCreated
  <2> QED
    BY <1>0, <1>1, <1>9, <2>1 DEF Page!Done, Page!OnCreated, Page!OnSelect, Page!CloseDialog,
       Page!Invalidate, Page!Registry, Requests
<1>10. ASSUME NEW i \in DOMAIN requests PROVE requests[i].tenant \in Tenants
  BY RequestsNow DEF Page!Job
<1>11. ASSUME NEW i \in DOMAIN requests, Page!HandleDelete(i) \/ Page!HandleCreate(i)
       PROVE Typed'
  <2>1. Requests(requests')
    BY <1>11, AnsweredJob DEF Page!HandleDelete, Page!HandleCreate, Page!Handled
  <2> QED
    BY <1>0, <1>10, <1>11, <2>1 DEF Page!HandleDelete, Page!HandleCreate, Page!Query,
       Page!View, Page!Dialog, Requests
<1>12. ASSUME NEW i \in DOMAIN requests,
              Page!DeleteAnswered(i) \/ Page!KeyAnswered(i) \/ Page!Lost(i)
       PROVE Typed'
  <2>1. Requests(requests')
    BY <1>12, RemovedJob DEF Page!DeleteAnswered, Page!KeyAnswered, Page!Lost
  <2>2. CASE Page!DeleteAnswered(i)
    BY <1>0, <1>1, <2>1, <2>2 DEF Page!DeleteAnswered, Page!Invalidate, Page!Registry,
       Page!View, Page!Dialog, Requests
  <2>3. CASE Page!KeyAnswered(i)
    BY <1>0, <1>10, <2>1, <2>3 DEF Page!KeyAnswered, Page!Registry, Page!Query, Page!View,
       Requests
  <2>4. CASE Page!Lost(i)
    BY <1>0, <2>1, <2>4 DEF Page!Lost, Page!Registry, Page!Query, Page!View, Page!Dialog,
       Requests
  <2> QED
    BY <1>12, <2>2, <2>3, <2>4
<1>13. ASSUME NEW i \in DOMAIN requests, Page!KnownAnswered(i) PROVE Typed'
  <2>1. Requests(requests')
    BY <1>13, RemovedJob, ClosedJobs DEF Page!KnownAnswered, Page!OnCreated
  <2> QED
    BY <1>0, <1>1, <1>10, <1>13, <2>1 DEF Page!KnownAnswered, Page!OnCreated, Page!OnSelect,
       Page!CloseDialog, Page!Invalidate, Page!Registry, Requests
<1>14. CASE UNCHANGED operatorVars
  BY <1>0, <1>14 DEF operatorVars, Requests
<1> QED
  BY <1>2, <1>3, <1>4, <1>5, <1>6, <1>7, <1>8, <1>9, <1>11, <1>12, <1>13, <1>14 DEF Page!Next

LEMMA PageTypesInit ==
  ASSUME Page!Init PROVE PageTypes
<1>1. /\ requests = <<>> /\ sentRequests = 0 /\ <<>> \in Seq(Page!Job) /\ Len(<<>>) = 0
      /\ 0 \in 0..MaxJobs /\ 0 \in 0..MaxOthers
  BY MerchantAssumption DEF Page!Init, Page!OperatorAssumption
<1>2. listing \in [at : {"idle", "asked", "read"}, rows : SUBSET Tenants]
  BY DEF Page!Init, Page!Asked
<1>3. /\ registry \subseteq Tenants /\ others = 0 /\ list = {} /\ listStale /\ behind = {}
      /\ {override, url} \subseteq Tenants \cup {None} /\ ~asking /\ ~provisioning
      /\ issued = None /\ listStale \in BOOLEAN /\ asking \in BOOLEAN /\ provisioning \in BOOLEAN
  BY DEF Page!Init
<1> QED
  BY <1>1, <1>2, <1>3 DEF PageTypes, Page!TypeOK

-----------------------------------------------------------------------------
(* The page: the list.  What was read, and what is shown and not to be     *)
(* asked for again, agrees with the registry on every tenant that has not  *)
(* changed behind the page's back since it was read.                       *)

Agrees(rows) == \A t \in Tenants \ behind : t \in rows <=> t \in registry

PageInv ==
    /\ PageTypes
    /\ listing.at = "read" => Agrees(listing.rows)
    /\ listing.at = "idle" /\ ~listStale => Agrees(list)

\* What changes the registry is behind the page's back, or was so before.
LEMMA StillAgrees ==
  ASSUME PageInv, UNCHANGED <<list, listing, listStale>>, behind \subseteq behind',
         \A t \in Tenants \ behind' : t \in registry' <=> t \in registry
  PROVE /\ listing'.at = "read" => Agrees(listing.rows)'
        /\ listing'.at = "idle" /\ ~listStale' => Agrees(list)'
BY DEF PageInv, Agrees

LEMMA PageStep ==
  ASSUME PageInv, [Page!Next]_operatorVars
  PROVE PageInv'
<1>0. PageTypes'
  BY PageTypesStep DEF PageInv
<1> DEFINE Listed ==
      /\ listing.at = "read" => Agrees(listing.rows)
      /\ listing.at = "idle" /\ ~listStale => Agrees(list)
<1> SUFFICES Listed'
  BY <1>0 DEF PageInv
<1>1. ASSUME NEW t \in Tenants, Page!Pick(t) \/ Page!Submit(t) PROVE Listed'
  BY <1>1, StillAgrees DEF Page!Pick, Page!Submit, Page!Registry, Page!Query
<1>2. ASSUME NEW t \in Tenants, Page!Revive(t) \/ Page!OthersChange(t) PROVE Listed'
  <2>1. \A s \in Tenants \ behind' : s \in registry' <=> s \in registry
    BY <1>2 DEF Page!Revive, Page!OthersChange
  <2> QED
    BY <1>2, <2>1, StillAgrees DEF Page!Revive, Page!OthersChange, Page!Query
<1>3. CASE Page!OpenRecent \/ Page!AskDelete \/ Page!CancelDelete \/ Page!ConfirmDelete
           \/ Page!OpenForm \/ Page!CancelForm
  BY <1>3, StillAgrees DEF Page!OpenRecent, Page!AskDelete, Page!CancelDelete,
     Page!ConfirmDelete, Page!OpenForm, Page!CancelForm, Page!Registry, Page!Query
<1>4. CASE Page!Reload \/ Page!Poll \/ Page!ListFails \/ Page!Done
  BY <1>4 DEF Page!Reload, Page!Poll, Page!ListFails, Page!Done, Page!OnCreated,
     Page!Invalidate, Page!Asked, Page!Idle
<1>5. CASE Page!ReadList
  BY <1>5 DEF Page!ReadList, Page!Registry, Agrees
<1>6. CASE Page!ShowList
  BY <1>6 DEF Page!ShowList, Page!Registry, Page!Idle, PageInv, Agrees
<1>7. ASSUME NEW i \in DOMAIN requests, Page!HandleDelete(i) PROVE Listed'
  <2>1. /\ behind \subseteq behind'
        /\ \A s \in Tenants \ behind' : s \in registry' <=> s \in registry
    BY <1>7 DEF Page!HandleDelete
  <2> QED
    BY <1>7, <2>1, StillAgrees DEF Page!HandleDelete, Page!Query
<1>8. ASSUME NEW i \in DOMAIN requests, Page!HandleCreate(i) PROVE Listed'
  <2>1. /\ behind \subseteq behind'
        /\ \A s \in Tenants \ behind' : s \in registry' <=> s \in registry
    BY <1>8 DEF Page!HandleCreate
  <2> QED
    BY <1>8, <2>1, StillAgrees DEF Page!HandleCreate, Page!Query
<1>9. ASSUME NEW i \in DOMAIN requests, Page!DeleteAnswered(i) \/ Page!KnownAnswered(i)
      PROVE Listed'
  BY <1>9 DEF Page!DeleteAnswered, Page!KnownAnswered, Page!OnCreated, Page!Invalidate,
     Page!Asked
<1>10. ASSUME NEW i \in DOMAIN requests, Page!KeyAnswered(i) \/ Page!Lost(i) PROVE Listed'
  BY <1>10, StillAgrees DEF Page!KeyAnswered, Page!Lost, Page!Registry, Page!Query
<1>11. CASE UNCHANGED operatorVars
  BY <1>11, StillAgrees DEF operatorVars
<1> QED
  BY <1>1, <1>2, <1>3, <1>4, <1>5, <1>6, <1>7, <1>8, <1>9, <1>10, <1>11 DEF Page!Next

LEMMA PageInit ==
  ASSUME Page!Init PROVE PageInv
BY PageTypesInit DEF PageInv, Page!Init, Page!Asked

\* A tenant that the operator picked, and that is there as far as the page can know, is the
\* one the page is about.
LEMMA PageCurrent ==
  ASSUME PageInv PROVE Page!SettledPageIsCurrent
<1> SUFFICES ASSUME listing.at = "idle", ~listStale
             PROVE /\ \A t \in Tenants \ behind : t \in list <=> t \in registry
                   /\ override \in registry \ behind => Page!Selected = override
  BY DEF Page!SettledPageIsCurrent
<1>1. Agrees(list) /\ registry \subseteq Tenants
  BY DEF PageInv, PageTypes, Page!TypeOK
<1>2. None \notin Tenants
  BY MerchantAssumption DEF Page!OperatorAssumption
<1> QED
  BY <1>1, <1>2 DEF Agrees, Page!Selected, Page!SelectedIn

-----------------------------------------------------------------------------
(* The whole.  The proofs of the agents tab and of the wizard are about    *)
(* the same definitions as MCMerchant's instances, which is all that the   *)
(* following two lemmas say.                                               *)

TabProofs == INSTANCE ConsoleProofs
WizardProofs == INSTANCE OnboardingProofs

LEMMA SameTab ==
  /\ AgentsTab!ConsoleAssumption <=> TabProofs!ConsoleAssumption
  /\ AgentsTab!Init <=> TabProofs!Init
  /\ AgentsTab!Next <=> TabProofs!Next
  /\ AgentsTab!TypeOK <=> TabProofs!TypeOK
  /\ AgentsTab!SettledTableIsDisk <=> TabProofs!SettledTableIsDisk
  /\ AgentsTab!CachedIsInstalled <=> TabProofs!CachedIsInstalled
<1>1. AgentsTab!ConsoleAssumption <=> TabProofs!ConsoleAssumption
  BY DEF AgentsTab!ConsoleAssumption, TabProofs!ConsoleAssumption
<1>2. AgentsTab!Init <=> TabProofs!Init
  BY DEF AgentsTab!Init, TabProofs!Init, AgentsTab!Unknown, TabProofs!Unknown
<1>3. AgentsTab!Next <=> TabProofs!Next
  BY DEF AgentsTab!Disk, TabProofs!Disk, AgentsTab!Tab, TabProofs!Tab, AgentsTab!Worker,
     TabProofs!Worker, AgentsTab!Versions, TabProofs!Versions, AgentsTab!Torn, TabProofs!Torn,
     AgentsTab!Unknown, TabProofs!Unknown, AgentsTab!VersionsOf, TabProofs!VersionsOf,
     AgentsTab!Installed, TabProofs!Installed, AgentsTab!Serves, TabProofs!Serves,
     AgentsTab!Refetch, TabProofs!Refetch, AgentsTab!OpenTab, TabProofs!OpenTab,
     AgentsTab!LeaveTab, TabProofs!LeaveTab, AgentsTab!ReadRows, TabProofs!ReadRows,
     AgentsTab!ShowRows, TabProofs!ShowRows, AgentsTab!FetchFails, TabProofs!FetchFails,
     AgentsTab!Start, TabProofs!Start, AgentsTab!Pending, TabProofs!Pending, AgentsTab!Install,
     TabProofs!Install, AgentsTab!Toggle, TabProofs!Toggle, AgentsTab!Uninstall,
     TabProofs!Uninstall, AgentsTab!Moved, TabProofs!Moved, AgentsTab!Answered,
     TabProofs!Answered, AgentsTab!Rejected, TabProofs!Rejected, AgentsTab!Bundle,
     TabProofs!Bundle, AgentsTab!CopyTree, TabProofs!CopyTree, AgentsTab!FinishInstall,
     TabProofs!FinishInstall, AgentsTab!Patch, TabProofs!Patch, AgentsTab!Remove,
     TabProofs!Remove, AgentsTab!TouchReload, TabProofs!TouchReload, AgentsTab!ApiCrash,
     TabProofs!ApiCrash, AgentsTab!Release, TabProofs!Release, AgentsTab!Load, TabProofs!Load,
     AgentsTab!Unlink, TabProofs!Unlink, AgentsTab!ReadBundle, TabProofs!ReadBundle,
     AgentsTab!WorkerRestart, TabProofs!WorkerRestart, AgentsTab!Next, TabProofs!Next,
     AgentsTab!Max, TabProofs!Max
<1>4. AgentsTab!TypeOK <=> TabProofs!TypeOK
  BY DEF AgentsTab!TypeOK, TabProofs!TypeOK, AgentsTab!Versions, TabProofs!Versions, AgentsTab!Row,
     TabProofs!Row, AgentsTab!Rows, TabProofs!Rows, AgentsTab!Job, TabProofs!Job,
     AgentsTab!Torn, TabProofs!Torn
<1>5. AgentsTab!SettledTableIsDisk <=> TabProofs!SettledTableIsDisk
  BY DEF AgentsTab!SettledTableIsDisk, TabProofs!SettledTableIsDisk, AgentsTab!Installed,
     TabProofs!Installed, AgentsTab!VersionsOf, TabProofs!VersionsOf, AgentsTab!Versions,
     TabProofs!Versions, AgentsTab!Max, TabProofs!Max
<1>6. AgentsTab!CachedIsInstalled <=> TabProofs!CachedIsInstalled
  BY DEF AgentsTab!CachedIsInstalled, TabProofs!CachedIsInstalled, AgentsTab!Quiet,
     TabProofs!Quiet, AgentsTab!Serves, TabProofs!Serves, AgentsTab!VersionsOf,
     TabProofs!VersionsOf, AgentsTab!Versions, TabProofs!Versions, AgentsTab!Max, TabProofs!Max
<1> QED
  BY <1>1, <1>2, <1>3, <1>4, <1>5, <1>6

LEMMA SameWizard ==
  /\ Wizard!OnboardAssumption <=> WizardProofs!OnboardAssumption
  /\ Wizard!Init <=> WizardProofs!Init
  /\ Wizard!Next <=> WizardProofs!Next
  /\ Wizard!TypeOK <=> WizardProofs!TypeOK
  /\ Wizard!ToldIsOwner <=> WizardProofs!ToldIsOwner
  /\ Wizard!LiveIsInstalled <=> WizardProofs!LiveIsInstalled
<1>1. Wizard!OnboardAssumption <=> WizardProofs!OnboardAssumption
  BY DEF Wizard!OnboardAssumption, WizardProofs!OnboardAssumption, Wizard!Creation,
     WizardProofs!Creation, Wizard!EmptyDir, WizardProofs!EmptyDir
<1>2. Wizard!Init <=> WizardProofs!Init
  BY DEF Wizard!Init, WizardProofs!Init, Wizard!Home, WizardProofs!Home, Wizard!Plain,
     WizardProofs!Plain
<1>3. Wizard!Next <=> WizardProofs!Next
  BY DEF Wizard!History, WizardProofs!History, Wizard!Server, WizardProofs!Server, Wizard!Early,
     WizardProofs!Early, Wizard!Plain, WizardProofs!Plain, Wizard!Home, WizardProofs!Home,
     Wizard!EmptyDir, WizardProofs!EmptyDir, Wizard!Owned, WizardProofs!Owned, Wizard!Told,
     WizardProofs!Told, Wizard!Trail, WizardProofs!Trail, Wizard!Guarded, WizardProofs!Guarded,
     Wizard!Show, WizardProofs!Show, Wizard!Known, WizardProofs!Known, Wizard!Go,
     WizardProofs!Go, Wizard!Answers, WizardProofs!Answers, Wizard!Unwatched,
     WizardProofs!Unwatched, Wizard!Visit, WizardProofs!Visit, Wizard!Reload,
     WizardProofs!Reload, Wizard!MeAnswers, WizardProofs!MeAnswers, Wizard!SignIn,
     WizardProofs!SignIn, Wizard!Expire, WizardProofs!Expire, Wizard!AddAnother,
     WizardProofs!AddAnother, Wizard!Claim, WizardProofs!Claim, Wizard!UnderWay,
     WizardProofs!UnderWay, Wizard!Busy, WizardProofs!Busy, Wizard!To, WizardProofs!To,
     Wizard!Refused, WizardProofs!Refused, Wizard!Answer, WizardProofs!Answer,
     Wizard!CheckSlug, WizardProofs!CheckSlug, Wizard!Create, WizardProofs!Create,
     Wizard!MakeHome, WizardProofs!MakeHome, Wizard!SaveRecord, WizardProofs!SaveRecord,
     Wizard!CreationLost, WizardProofs!CreationLost, Wizard!Created, WizardProofs!Created,
     Wizard!Install, WizardProofs!Install, Wizard!MenuDone, WizardProofs!MenuDone, Wizard!Next,
     WizardProofs!Next
<1>4. Wizard!TypeOK <=> WizardProofs!TypeOK
  BY DEF Wizard!TypeOK, WizardProofs!TypeOK, Wizard!Pages, WizardProofs!Pages, Wizard!Early,
     WizardProofs!Early, Wizard!Creation, WizardProofs!Creation, Wizard!EmptyDir,
     WizardProofs!EmptyDir
<1>5. Wizard!ToldIsOwner <=> WizardProofs!ToldIsOwner
  BY DEF Wizard!ToldIsOwner, WizardProofs!ToldIsOwner
<1>6. Wizard!LiveIsInstalled <=> WizardProofs!LiveIsInstalled
  BY DEF Wizard!LiveIsInstalled, WizardProofs!LiveIsInstalled, Wizard!Owned, WizardProofs!Owned
<1> QED
  BY <1>1, <1>2, <1>3, <1>4, <1>5, <1>6

-----------------------------------------------------------------------------
(* Every behaviour of the whole is one of the bell, and, as long as that   *)
(* part is driven, one of the agents tab, the wizard or the page; the part *)
(* never changes.                                                          *)

Steps == [MerchantNext]_<<tab, bellVars, agentsTabVars, wizardVars, operatorVars>>

LEMMA BellDriven == (MerchantInit => Init) /\ (Steps => [Next]_bellVars)
BY DEF MerchantInit, Steps, MerchantNext

LEMMA TabDriven ==
  /\ MerchantInit /\ tab \in AgentsTabs => TabProofs!Init
  /\ tab \in AgentsTabs /\ Steps
        => [TabProofs!Next]_(TabProofs!consoleVars) /\ (tab \in AgentsTabs)'
  /\ tab \notin AgentsTabs /\ Steps => (tab \notin AgentsTabs)'
<1>1. MerchantInit /\ tab \in AgentsTabs => TabProofs!Init
  BY SameTab DEF MerchantInit, AgentsTabs
<1>2. tab \in AgentsTabs /\ Steps => [TabProofs!Next]_(TabProofs!consoleVars)
  BY SameTab DEF Steps, MerchantNext, AgentsTabs, agentsTabVars, TabProofs!consoleVars
<1>3. Steps => tab' = tab
  BY DEF Steps, MerchantNext
<1> QED
  BY <1>1, <1>2, <1>3

LEMMA WizardDriven ==
  /\ MerchantInit /\ tab = "wizard" => WizardProofs!Init
  /\ tab = "wizard" /\ Steps
        => [WizardProofs!Next]_(WizardProofs!onboardVars) /\ (tab = "wizard")'
  /\ tab # "wizard" /\ Steps => (tab # "wizard")'
<1>1. MerchantInit /\ tab = "wizard" => WizardProofs!Init
  BY SameWizard DEF MerchantInit, AgentsTabs
<1>2. tab = "wizard" /\ Steps => [WizardProofs!Next]_(WizardProofs!onboardVars)
  BY SameWizard DEF Steps, MerchantNext, AgentsTabs, wizardVars, WizardProofs!onboardVars
<1>3. Steps => tab' = tab
  BY DEF Steps, MerchantNext
<1> QED
  BY <1>1, <1>2, <1>3

LEMMA PageDriven ==
  /\ MerchantInit /\ tab = "page" => PageInv
  /\ tab = "page" /\ PageInv /\ Steps => PageInv' /\ (tab = "page")'
  /\ tab # "page" /\ Steps => (tab # "page")'
<1>1. MerchantInit /\ tab = "page" => PageInv
  BY PageInit DEF MerchantInit, AgentsTabs
<1>2. tab = "page" /\ PageInv /\ Steps => PageInv'
  BY PageStep DEF Steps, MerchantNext, AgentsTabs
<1>3. Steps => tab' = tab
  BY DEF Steps, MerchantNext
<1> QED
  BY <1>1, <1>2, <1>3

\* Whichever part is driven, every variable of it has its type.
THEOREM MerchantTypes == MerchantSpec => []AllTypeOK
<1> DEFINE T == tab \in AgentsTabs
           W == tab = "wizard"
           P == tab = "page"
<1>1. (MerchantInit => TypeOK) /\ (TypeOK /\ Steps => TypeOK')
  BY BellDriven, BellTypesInit, BellTypes
<1>2. /\ MerchantInit => ~T \/ TabProofs!Init
      /\ T /\ Steps => [TabProofs!Next]_(TabProofs!consoleVars) /\ T'
      /\ ~T /\ Steps => ~T'
  BY TabDriven
<1>3. /\ MerchantInit => ~W \/ WizardProofs!Init
      /\ W /\ Steps => [WizardProofs!Next]_(WizardProofs!onboardVars) /\ W'
      /\ ~W /\ Steps => ~W'
  BY WizardDriven
<1>4. /\ MerchantInit => ~P \/ PageInv
      /\ P /\ PageInv /\ Steps => PageInv' /\ P'
      /\ ~P /\ Steps => ~P'
  BY PageDriven
<1>5. TabProofs!Spec => []TabProofs!TypeOK
  BY TabProofs!TypeCorrect, SameTab, MerchantAssumption
<1>6. WizardProofs!Spec => []WizardProofs!TypeOK
  BY WizardProofs!TypeCorrect, SameWizard, MerchantAssumption
<1>7. TypeOK /\ (~T \/ TabProofs!TypeOK) /\ (~W \/ WizardProofs!TypeOK) /\ (~P \/ PageInv)
        => AllTypeOK
  <2>1. TabProofs!TypeOK => AgentsTab!TypeOK
    BY SameTab
  <2>2. WizardProofs!TypeOK => Wizard!TypeOK
    BY SameWizard
  <2>3. PageInv => Page!TypeOK
    BY DEF PageInv, PageTypes
  <2> QED
    BY <2>1, <2>2, <2>3 DEF AllTypeOK
<1> HIDE DEF T, W, P
<1> QED
  BY <1>1, <1>2, <1>3, <1>4, <1>5, <1>6, <1>7, PTL
     DEF MerchantSpec, Steps, TabProofs!Spec, WizardProofs!Spec

\* What the worker has cached is what it would read now, however installs, switches and
\* uninstalls interleave with loads and evictions, once every change has touched the marker.
THEOREM CacheIsInstalled == MerchantSpec => []CachedIsInstalled
<1> DEFINE T == tab \in AgentsTabs
<1>1. /\ MerchantInit => ~T \/ TabProofs!Init
      /\ T /\ Steps => [TabProofs!Next]_(TabProofs!consoleVars) /\ T'
      /\ ~T /\ Steps => ~T'
  BY TabDriven
<1>2. TabProofs!Spec => []TabProofs!CachedIsInstalled
  BY TabProofs!CacheFollowsDisk, SameTab, MerchantAssumption
<1>3. ~T \/ TabProofs!CachedIsInstalled => CachedIsInstalled
  BY SameTab DEF CachedIsInstalled
<1> HIDE DEF T
<1> QED
  BY <1>1, <1>2, <1>3, PTL DEF MerchantSpec, Steps, TabProofs!Spec

\* A table that waits for nothing shows the disk, whatever polls, handlers and crashes came
\* between.
THEOREM SettledTable == MerchantSpec => []SettledTableIsDisk
<1> DEFINE T == tab \in AgentsTabs
<1>1. /\ MerchantInit => ~T \/ TabProofs!Init
      /\ T /\ Steps => [TabProofs!Next]_(TabProofs!consoleVars) /\ T'
      /\ ~T /\ Steps => ~T'
  BY TabDriven
<1>2. TabProofs!Spec => []TabProofs!SettledTableIsDisk
  BY TabProofs!TableSettles, SameTab, MerchantAssumption
<1>3. ~T \/ TabProofs!SettledTableIsDisk => SettledTableIsDisk
  BY SameTab DEF SettledTableIsDisk
<1> HIDE DEF T
<1> QED
  BY <1>1, <1>2, <1>3, PTL DEF MerchantSpec, Steps, TabProofs!Spec

\* Who was told that a tenant was created owns it, with its key, unless two creations raced
\* for the slug.
THEOREM ToldOwns == MerchantSpec => []ToldIsOwner
<1> DEFINE W == tab = "wizard"
<1>1. /\ MerchantInit => ~W \/ WizardProofs!Init
      /\ W /\ Steps => [WizardProofs!Next]_(WizardProofs!onboardVars) /\ W'
      /\ ~W /\ Steps => ~W'
  BY WizardDriven
<1>2. WizardProofs!Spec => []WizardProofs!ToldIsOwner
  BY WizardProofs!ToldOwners, SameWizard, MerchantAssumption
<1>3. ~W \/ WizardProofs!ToldIsOwner => ToldIsOwner
  BY SameWizard DEF ToldIsOwner
<1> HIDE DEF W
<1> QED
  BY <1>1, <1>2, <1>3, PTL DEF MerchantSpec, Steps, WizardProofs!Spec

\* "Your agent is live" names a tenant of the merchant with the agent, unless a race took it.
THEOREM LiveAgentIsInstalled == MerchantSpec => []LiveIsInstalled
<1> DEFINE W == tab = "wizard"
<1>1. /\ MerchantInit => ~W \/ WizardProofs!Init
      /\ W /\ Steps => [WizardProofs!Next]_(WizardProofs!onboardVars) /\ W'
      /\ ~W /\ Steps => ~W'
  BY WizardDriven
<1>2. WizardProofs!Spec => []WizardProofs!LiveIsInstalled
  BY WizardProofs!LiveAgents, SameWizard, MerchantAssumption
<1>3. ~W \/ WizardProofs!LiveIsInstalled => LiveIsInstalled
  BY SameWizard DEF LiveIsInstalled
<1> HIDE DEF W
<1> QED
  BY <1>1, <1>2, <1>3, PTL DEF MerchantSpec, Steps, WizardProofs!Spec

\* A tenant list that waits for nothing is the registry but for what changed behind the
\* page's back, and the page is about the tenant picked or provisioned last if it exists,
\* through polls, lost answers, closed dialogs and the changes of others.
THEOREM SettledPage == MerchantSpec => []SettledPageIsCurrent
<1> DEFINE P == tab = "page"
<1>1. /\ MerchantInit => ~P \/ PageInv
      /\ P /\ PageInv /\ Steps => PageInv' /\ P'
      /\ ~P /\ Steps => ~P'
  BY PageDriven
<1>2. ~P \/ PageInv => SettledPageIsCurrent
  BY PageCurrent DEF SettledPageIsCurrent
<1> HIDE DEF P
<1> QED
  BY <1>1, <1>2, PTL DEF MerchantSpec, Steps

\* Whichever part is driven, the bell's entries are marked read only after it has shown them.
THEOREM MerchantReadsWhatIsShown == MerchantSpec => []ReadWasShown
<1>1. MerchantSpec => Spec
  BY BellDriven, PTL DEF MerchantSpec, Steps, Spec
<1> QED
  BY <1>1, ShownBeforeRead, PTL
=============================================================================
