------------------------- MODULE BookingSagaProofs -------------------------
(***************************************************************************)
(* The booking saga for every set of sessions and offers, every retry      *)
(* policy and every bound: what holds on any worker; what a rollback       *)
(* claims on one without loop errors; and there, that the saga implements  *)
(* BookingContract.                                                        *)
(***************************************************************************)
EXTENDS BookingSaga, TLAPS

(* A booking is made of its session and its offer (idempotency_key).       *)
LEMMA BookingParts ==
  /\ \A b \in Booking : SessionOf(b) \in Session
  /\ \A s \in Session, o \in Offer : <<s, o>> \in Booking /\ SessionOf(<<s, o>>) = s
  BY DEF Booking, SessionOf

(* A freshly scheduled attempt is well formed and ready.                   *)
LEMMA NewAttemptType ==
  ASSUME NEW b \in Booking, NEW r \in Nat, NEW act \in Act, NEW n \in Nat
  PROVE  /\ NewAttempt(b, r, act, n) \in Attempt
         /\ NewAttempt(b, r, act, n).booking = b
         /\ NewAttempt(b, r, act, n).round = r
         /\ NewAttempt(b, r, act, n).act = act
         /\ NewAttempt(b, r, act, n).phase = "ready"
  BY DEF NewAttempt, Attempt, Phase

(* Moving an attempt to another phase changes nothing else of it.          *)
LEMMA EnteredType ==
  ASSUME NEW a \in Attempt, NEW p \in Phase
  PROVE  /\ [a EXCEPT !.phase = p] \in Attempt
         /\ [a EXCEPT !.phase = p].booking = a.booking
         /\ [a EXCEPT !.phase = p].act = a.act
         /\ [a EXCEPT !.phase = p].phase = p
  BY DEF Attempt

(* Scheduling an activity keeps the state well formed.                     *)
LEMMA ScheduleType ==
  ASSUME TypeOK, NEW s \in Session, NEW act \in Act, NEW n \in Nat,
         NEW others \in SUBSET attempts,
         UNCHANGED <<stores, told, aborted>>,
         asked' \in [Session -> Offer], round' \in [Session -> Nat],
         Schedule(s, act, n, others)
  PROVE  TypeOK'
  <1>1. <<s, asked'[s]>> \in Booking
    BY DEF Booking
  <1>2. attempts' \subseteq Attempt
    BY <1>1, NewAttemptType DEF Schedule, TypeOK
  <1>3. /\ step' \in [Session -> Act \union {"idle", "dead"}]
        /\ try' \in [Session -> Nat]
    BY DEF Schedule, TypeOK
  <1> QED
    BY <1>2, <1>3 DEF TypeOK, stores

(* Returning a SagaResult keeps the state well formed.                     *)
LEMMA ReturnType ==
  ASSUME TypeOK, NEW s \in Session, NEW status \in Outcome,
         NEW others \in SUBSET attempts,
         UNCHANGED stores, Return(s, status, others)
  PROVE  TypeOK'
  <1>1. told' \in [Booking -> Outcome \union {"none"}]
    BY DEF Return, TypeOK
  <1> QED
    BY <1>1 DEF TypeOK, stores, Return

(* The death of the run keeps the state well formed.                       *)
LEMMA FailRunType ==
  ASSUME TypeOK, NEW s \in Session, NEW others \in SUBSET attempts,
         UNCHANGED stores, FailRun(s, others)
  PROVE  TypeOK'
  <1>1. aborted' \subseteq Booking
    BY DEF FailRun, TypeOK, Current, Booking
  <1> QED
    BY <1>1 DEF TypeOK, stores, FailRun

(* Giving an activity up, or trying it again.                              *)
LEMMA RetryType ==
  ASSUME TypeOK, NEW s \in Session, NEW others \in SUBSET attempts,
         RetryOrGiveUp(s, others) \/ OnActivityError(s, others),
         Running(s), UNCHANGED stores
  PROVE  TypeOK'
  <1>1. CASE try[s] < MaxAttempts(step[s]) /\ Schedule(s, step[s], try[s] + 1, others)
             /\ UNCHANGED <<asked, round, told, aborted>>
    <2>1. step[s] \in Act /\ try[s] + 1 \in Nat
      BY DEF Running, TypeOK
    <2> QED BY <1>1, <2>1, ScheduleType DEF TypeOK
  <1>2. CASE step[s] \in Micro /\ FailRun(s, others)
    BY <1>2, FailRunType
  <1>3. CASE step[s] = "notify" /\ Continue(s, "cancel", others)
    BY <1>3, ScheduleType DEF Continue, Act, Micro, TypeOK
  <1>4. CASE step[s] = "notify_compensated" /\ Return(s, "compensated", others)
    BY <1>4, ReturnType DEF Outcome
  <1> QED BY <1>1, <1>2, <1>3, <1>4 DEF RetryOrGiveUp, OnActivityError

(* Reacting to an activity that answered keeps the state well formed.      *)
LEMMA ResultType ==
  ASSUME TypeOK, NEW s \in Session, NEW others \in SUBSET attempts,
         NEW phase \in Phase, OnResult(s, phase, others), UNCHANGED stores
  PROVE  TypeOK'
  <1>1. CASE Continue(s, "notify", others)
    BY <1>1, ScheduleType DEF Continue, Act, Notify, TypeOK
  <1>2. CASE Continue(s, "notify_compensated", others)
    BY <1>2, ScheduleType DEF Continue, Act, Notify, TypeOK
  <1>3. CASE \E status \in Outcome : Return(s, status, others)
    BY <1>3, ReturnType
  <1> QED BY <1>1, <1>2, <1>3 DEF OnResult, Outcome

(* An attempt that moves on leaves well-formed attempts.                   *)
LEMMA EnterType ==
  ASSUME TypeOK, NEW a \in attempts, NEW p \in Phase, Enter(a, p)
  PROVE  attempts' \subseteq Attempt
  BY EnteredType DEF Enter, TypeOK

(* The entry an attempt writes belongs to a booking.                       *)
LEMMA EntryType ==
  ASSUME NEW a \in Attempt
  PROVE  Entry(a) \in Booking \X Kind
  BY DEF Attempt, Entry, Kind, KindOf

(* The empty stores and idle sessions are well formed.                     *)
LEMMA TypeInit == Init => TypeOK
  BY DEF Init, TypeOK

(* A live attempt acts.                                                    *)
LEMMA AttemptStepType ==
  ASSUME TypeOK, NEW a \in attempts, AttemptStep(a)
  PROVE  TypeOK'
  <1> USE DEF control, stores
  <1>0. a \in Attempt /\ a.booking \in Booking /\ SessionOf(a.booking) \in Session
        /\ a.phase \in Phase
    BY BookingParts DEF Attempt, TypeOK
  <1>1. CASE UpsertConfirmed(a)
    <2>1. attempts' \subseteq Attempt
      BY <1>1, EnterType DEF UpsertConfirmed, Phase
    <2>2. row' \in [Booking -> {"none", "confirmed", "cancelled"}]
      BY <1>0, <1>1 DEF TypeOK, UpsertConfirmed
    <2> QED BY <1>1, <2>1, <2>2 DEF TypeOK, UpsertConfirmed
  <1>2. CASE CancelRow(a)
    <2>1. attempts' \subseteq Attempt
      BY <1>2, EnterType DEF CancelRow, Phase
    <2>2. row' \in [Booking -> {"none", "confirmed", "cancelled"}]
      BY <1>0, <1>2 DEF TypeOK, CancelRow
    <2> QED BY <1>2, <2>1, <2>2 DEF TypeOK, CancelRow
  <1>3. CASE AppendFeed(a)
    <2>1. attempts' \subseteq Attempt
      BY <1>3, EnterType DEF AppendFeed, Phase
    <2> QED BY <1>0, <1>3, <2>1, EntryType DEF TypeOK, AppendFeed
  <1>4. CASE SendEmailAndPush(a)
    <2>1. attempts' \subseteq Attempt
      BY <1>4, EnterType DEF SendEmailAndPush, Phase
    <2>2. sent' \in [Booking \X Kind -> Nat]
      BY <1>0, <1>4, EntryType DEF TypeOK, SendEmailAndPush
    <2> QED BY <1>4, <2>1, <2>2 DEF TypeOK, SendEmailAndPush
  <1>5. CASE LoopError(a)
    <2>1. attempts' \subseteq Attempt
      BY <1>5, EnterType DEF LoopError, Phase
    <2> QED BY <1>5, <2>1 DEF TypeOK, LoopError
  <1>6. CASE Report(a)
    <2>1. CASE OnResult(SessionOf(a.booking), a.phase, attempts \ {a})
      BY <1>0, <1>6, <2>1, ResultType DEF Report
    <2>2. CASE ~Awaited(a) /\ attempts' = attempts \ {a} /\ UNCHANGED control
      BY <1>6, <2>2 DEF Report, TypeOK
    <2> QED BY <1>6, <2>1, <2>2 DEF Report
  <1>7. CASE Raise(a)
    <2>1. CASE Awaited(a) /\ RetryOrGiveUp(SessionOf(a.booking), attempts \ {a})
      <3>1. Running(SessionOf(a.booking))
        BY <1>0, <2>1 DEF Awaited, Running, Attempt
      <3> QED BY <1>0, <1>7, <2>1, <3>1, RetryType DEF Raise
    <2>2. CASE ~Awaited(a) /\ attempts' = attempts \ {a} /\ UNCHANGED control
      BY <1>7, <2>2 DEF Raise, TypeOK
    <2> QED BY <1>7, <2>1, <2>2 DEF Raise
  <1>8. CASE CrashAttempt(a)
    BY <1>8 DEF CrashAttempt, TypeOK
  <1>9. CASE ForceFail(a)
    <2>1. CASE Awaited(a) /\ OnActivityError(SessionOf(a.booking), attempts \ {a})
      <3>1. Running(SessionOf(a.booking))
        BY <1>0, <2>1 DEF Awaited, Running, Attempt
      <3> QED BY <1>0, <1>9, <2>1, <3>1, RetryType DEF ForceFail
    <2>2. CASE ~Awaited(a) /\ attempts' = attempts \ {a} /\ UNCHANGED control
      BY <1>9, <2>2 DEF ForceFail, TypeOK
    <2> QED BY <1>9, <2>1, <2>2 DEF ForceFail
  <1> QED
    BY <1>1, <1>2, <1>3, <1>4, <1>5, <1>6, <1>7, <1>8, <1>9 DEF AttemptStep

(* A saga begins, times out or its run is restarted.                       *)
LEMMA SessionStepType ==
  ASSUME TypeOK, NEW s \in Session, SessionStep(s)
  PROVE  TypeOK'
  <1>1. ASSUME NEW o \in Offer, BeginSaga(s, o) PROVE TypeOK'
    <2>1. asked' \in [Session -> Offer] /\ round' \in [Session -> Nat]
      BY <1>1 DEF BeginSaga, TypeOK
    <2>2. "create" \in Act /\ 1 \in Nat
      BY DEF Act, Micro
    <2>3. Schedule(s, "create", 1, attempts) /\ UNCHANGED <<stores, told, aborted>>
      BY <1>1 DEF BeginSaga
    <2> QED BY <2>1, <2>2, <2>3, ScheduleType
  <1>2. CASE TimeOut(s)
    <2>1. Running(s) /\ RetryOrGiveUp(s, attempts) /\ UNCHANGED stores
      BY <1>2 DEF TimeOut
    <2> QED BY <2>1, RetryType
  <1>3. CASE RestartRun(s)
    BY <1>3 DEF RestartRun, TypeOK, stores
  <1> QED BY <1>1, <1>2, <1>3 DEF SessionStep

(* Every step of the system keeps the state well formed.                   *)
LEMMA TypeNext ==
  ASSUME TypeOK, [Next]_vars
  PROVE  TypeOK'
  <1>1. CASE UNCHANGED vars
    BY <1>1 DEF TypeOK, vars, stores, control
  <1> QED
    BY <1>1, SessionStepType, AttemptStepType DEF Next, Quiescent

(* Every state the saga reaches is well formed.                            *)
THEOREM TypeCorrect == Spec => []TypeOK
  <1> QED BY TypeInit, TypeNext, PTL DEF Spec

-----------------------------------------------------------------------------
(* The worker invariant.                                                   *)

(* Nothing has been written, so nothing can disagree.                      *)
LEMMA WorkerInit == Init => WorkerInv
  BY DEF Init, WorkerInv, RowsBehind, EntriesBehind, OneSender, ConfirmedWasNotified,
         NoticesHaveRows, SentAtMostOnce, Act, Micro, Notify

(* Attempts that only disappear take nothing from the invariant.           *)
LEMMA FewerAttempts ==
  ASSUME WorkerInv, UNCHANGED <<stores, step, asked, told>>, attempts' \subseteq attempts
  PROVE  WorkerInv'
  BY DEF stores, WorkerInv, RowsBehind, EntriesBehind, OneSender, ConfirmedWasNotified,
         NoticesHaveRows, SentAtMostOnce, Current, Entry

(* The saga may only schedule a step past create_booking once the row of   *)
(* its booking exists.                                                     *)
LEMMA ScheduleKeeps ==
  ASSUME TypeOK, WorkerInv, NEW s \in Session, NEW act \in Act, NEW n \in Nat,
         NEW others \in SUBSET attempts,
         UNCHANGED <<stores, told>>,
         asked' \in [Session -> Offer], round' \in [Session -> Nat],
         \A t \in Session \ {s} : asked'[t] = asked[t],
         act # "create" => row[<<s, asked'[s]>>] # "none",
         Schedule(s, act, n, others)
  PROVE  WorkerInv'
  <1> DEFINE new == NewAttempt(<<s, asked'[s]>>, round'[s], act, n)
  <1>1. /\ attempts' = others \union {new}
        /\ step' = [step EXCEPT ![s] = act]
    BY DEF Schedule
  <1>2. /\ new.booking = <<s, asked'[s]>>
        /\ new.act = act
        /\ new.phase = "ready"
    BY DEF NewAttempt
  <1> HIDE DEF new
  <1>3. RowsBehind'
    <2>1. \A t \in Session :
            step'[t] \in Act \ {"create"} => row'[<<t, asked'[t]>>] # "none"
      BY <1>1 DEF WorkerInv, RowsBehind, Current, TypeOK, stores
    <2>2. \A a \in attempts' :
            a.act # "create" \/ a.phase = "done" => row'[a.booking] # "none"
      BY <1>1, <1>2 DEF WorkerInv, RowsBehind, stores
    <2> QED BY <2>1, <2>2 DEF RowsBehind, Current
  <1>4. EntriesBehind'
    BY <1>1, <1>2 DEF WorkerInv, EntriesBehind, stores, Entry
  <1>5. OneSender'
    BY <1>1, <1>2 DEF WorkerInv, OneSender, stores, Entry
  <1> QED
    BY <1>3, <1>4, <1>5
    DEF WorkerInv, ConfirmedWasNotified, NoticesHaveRows, SentAtMostOnce, stores

(* The saga may only answer "confirmed" once the feed has the entry.       *)
LEMMA ReturnKeeps ==
  ASSUME TypeOK, WorkerInv, NEW s \in Session, NEW status \in Outcome,
         NEW others \in SUBSET attempts,
         UNCHANGED stores,
         status = "confirmed" => <<Current(s), "booking_confirmed">> \in feed,
         Return(s, status, others)
  PROVE  WorkerInv'
  <1>1. RowsBehind'
    BY DEF WorkerInv, RowsBehind, Return, TypeOK, stores, Current, Act, Micro, Notify
  <1>2. EntriesBehind' /\ OneSender'
    BY DEF WorkerInv, EntriesBehind, OneSender, Return, stores, Entry
  <1>3. ConfirmedWasNotified'
    BY DEF WorkerInv, ConfirmedWasNotified, Return, TypeOK, stores
  <1> QED
    BY <1>1, <1>2, <1>3 DEF WorkerInv, NoticesHaveRows, SentAtMostOnce, stores

(* The death of the run writes nothing.                                    *)
LEMMA FailRunKeeps ==
  ASSUME TypeOK, WorkerInv, NEW s \in Session, NEW others \in SUBSET attempts,
         UNCHANGED stores, FailRun(s, others)
  PROVE  WorkerInv'
  <1>1. RowsBehind'
    BY DEF WorkerInv, RowsBehind, FailRun, TypeOK, stores, Current, Act, Micro, Notify
  <1>2. EntriesBehind' /\ OneSender'
    BY DEF WorkerInv, EntriesBehind, OneSender, FailRun, stores, Entry
  <1> QED
    BY <1>1, <1>2
    DEF WorkerInv, ConfirmedWasNotified, NoticesHaveRows, SentAtMostOnce, FailRun, stores

(* A further attempt, or giving the activity up, keeps the agreement.      *)
LEMMA RetryKeeps ==
  ASSUME TypeOK, WorkerInv, NEW s \in Session, NEW others \in SUBSET attempts,
         RetryOrGiveUp(s, others) \/ OnActivityError(s, others),
         Running(s), UNCHANGED stores
  PROVE  WorkerInv'
  <1>0. step[s] # "create" => row[<<s, asked[s]>>] # "none"
    BY DEF WorkerInv, RowsBehind, Running, Current
  <1>1. CASE try[s] < MaxAttempts(step[s]) /\ Schedule(s, step[s], try[s] + 1, others)
             /\ UNCHANGED <<asked, round, told, aborted>>
    <2>1. step[s] \in Act /\ try[s] + 1 \in Nat
      BY DEF Running, TypeOK
    <2> QED BY <1>0, <1>1, <2>1, ScheduleKeeps DEF TypeOK
  <1>2. CASE step[s] \in Micro /\ FailRun(s, others)
    BY <1>2, FailRunKeeps
  <1>3. CASE step[s] = "notify" /\ Continue(s, "cancel", others)
    BY <1>0, <1>3, ScheduleKeeps DEF Continue, Act, Micro, TypeOK
  <1>4. CASE step[s] = "notify_compensated" /\ Return(s, "compensated", others)
    BY <1>4, ReturnKeeps DEF Outcome
  <1> QED BY <1>1, <1>2, <1>3, <1>4 DEF RetryOrGiveUp, OnActivityError

(* The awaited attempt a answers: what it did is behind the step it opens. *)
LEMMA ResultKeeps ==
  ASSUME TypeOK, WorkerInv, NEW a \in attempts, Awaited(a),
         a.phase \in {"done", "error"},
         OnResult(SessionOf(a.booking), a.phase, attempts \ {a}), UNCHANGED stores
  PROVE  WorkerInv'
  <1> DEFINE s == SessionOf(a.booking)
  <1>0. /\ s \in Session
        /\ a.booking = <<s, asked[s]>>
        /\ a.act = step[s]
    BY BookingParts DEF TypeOK, Attempt, Awaited, Current
  <1> HIDE DEF s
  <1>1. CASE step[s] = "create" /\ a.phase = "done" /\ Continue(s, "notify", attempts \ {a})
    <2>1. row[<<s, asked[s]>>] # "none"
      BY <1>0, <1>1 DEF WorkerInv, RowsBehind
    <2>2. "notify" \in Act /\ 1 \in Nat /\ attempts \ {a} \in SUBSET attempts
      BY DEF Act, Notify
    <2>3. UNCHANGED <<stores, asked, round, told>> /\ Schedule(s, "notify", 1, attempts \ {a})
      BY <1>1 DEF Continue
    <2> QED BY <1>0, <2>1, <2>2, <2>3, ScheduleKeeps DEF TypeOK
  <1>2. CASE step[s] = "create" /\ a.phase = "error" /\ Return(s, "failed", attempts \ {a})
    BY <1>0, <1>2, ReturnKeeps DEF Outcome
  <1>3. CASE step[s] = "notify" /\ Return(s, "confirmed", attempts \ {a})
    <2>1. <<Current(s), "booking_confirmed">> \in feed
      BY <1>0, <1>3 DEF WorkerInv, EntriesBehind, Entry, KindOf, Notify, Current
    <2> QED BY <1>0, <1>3, <2>1, ReturnKeeps DEF Outcome
  <1>4. CASE step[s] = "cancel" /\ Continue(s, "notify_compensated", attempts \ {a})
    <2>1. row[<<s, asked[s]>>] # "none"
      BY <1>0, <1>4 DEF WorkerInv, RowsBehind
    <2>2. "notify_compensated" \in Act /\ 1 \in Nat /\ attempts \ {a} \in SUBSET attempts
      BY DEF Act, Notify
    <2>3. UNCHANGED <<stores, asked, round, told>> /\ Schedule(s, "notify_compensated", 1, attempts \ {a})
      BY <1>4 DEF Continue
    <2> QED BY <1>0, <2>1, <2>2, <2>3, ScheduleKeeps DEF TypeOK
  <1>5. CASE step[s] = "notify_compensated" /\ Return(s, "compensated", attempts \ {a})
    BY <1>0, <1>5, ReturnKeeps DEF Outcome
  <1> QED BY <1>1, <1>2, <1>3, <1>4, <1>5 DEF OnResult, s

(* A store step of one attempt: the ledger and the feed only grow, and     *)
(* attempt a moves on to a later phase.                                    *)
LEMMA StoreKeeps ==
  ASSUME TypeOK, WorkerInv, NEW a \in attempts, NEW p \in Phase,
         Enter(a, p), UNCHANGED control,
         \A b \in Booking : row[b] # "none" => row'[b] # "none",
         feed \subseteq feed',
         \A e \in feed' \ feed : e = Entry(a) /\ row[a.booking] # "none",
         a.act = "create" => p \in {"done", "error"},
         a.act = "create" /\ p = "done" => row'[a.booking] # "none",
         a.act \in Micro => p # "send",
         a.act \in Notify => p # "error" /\ Entry(a) \in feed'
  PROVE  RowsBehind' /\ EntriesBehind' /\ ConfirmedWasNotified' /\ NoticesHaveRows'
  <1> DEFINE moved == [a EXCEPT !.phase = p]
  <1>1. attempts' = (attempts \ {a}) \union {moved}
    BY DEF Enter
  <1>2. a \in Attempt /\ a.booking \in Booking
    BY DEF TypeOK, Attempt
  <1>3. moved.booking = a.booking /\ moved.act = a.act /\ moved.phase = p
    BY <1>2, EnteredType
  <1>4. Entry(moved) = Entry(a) /\ Entry(a)[1] = a.booking
    BY <1>3 DEF Entry
  <1> HIDE DEF moved
  <1>5. RowsBehind'
    <2>1. \A t \in Session :
            step'[t] \in Act \ {"create"} => row'[<<t, asked'[t]>>] # "none"
      BY DEF WorkerInv, RowsBehind, control, Current, TypeOK, Booking
    <2>2. \A c \in attempts' :
            c.act # "create" \/ c.phase = "done" => row'[c.booking] # "none"
      BY <1>1, <1>2, <1>3 DEF WorkerInv, RowsBehind, TypeOK, Attempt
    <2> QED BY <2>1, <2>2 DEF RowsBehind, Current
  <1>6. EntriesBehind'
    <2>1. \A c \in attempts' : c.act \in Notify /\ c.phase # "ready" => Entry(c) \in feed'
      BY <1>1, <1>3, <1>4 DEF WorkerInv, EntriesBehind
    <2>2. \A c \in attempts' : /\ c.act \in Notify => c.phase # "error"
                               /\ c.act \in Micro => c.phase # "send"
      BY <1>1, <1>3 DEF WorkerInv, EntriesBehind
    <2> QED BY <2>1, <2>2 DEF EntriesBehind, Entry
  <1>7. ConfirmedWasNotified'
    BY DEF WorkerInv, ConfirmedWasNotified, control
  <1>8. NoticesHaveRows'
    BY <1>2, <1>4 DEF WorkerInv, NoticesHaveRows, TypeOK
  <1> QED BY <1>5, <1>6, <1>7, <1>8

(* Email and push are left alone and no new sender appears.                *)
LEMMA NoNewSender ==
  ASSUME TypeOK, WorkerInv, NEW a \in attempts, NEW p \in Phase \ {"send"},
         Enter(a, p), UNCHANGED sent, feed \subseteq feed'
  PROVE  OneSender' /\ SentAtMostOnce'
  <1>1. attempts' = (attempts \ {a}) \union {[a EXCEPT !.phase = p]}
    BY DEF Enter
  <1>2. [a EXCEPT !.phase = p].phase # "send"
    BY EnteredType DEF TypeOK
  <1>3. \A c \in attempts' : c.phase = "send" => c \in attempts
    BY <1>1, <1>2
  <1> QED
    BY <1>3 DEF WorkerInv, OneSender, SentAtMostOnce, Entry

(* The feed append makes at most one attempt the sender of an entry.       *)
LEMMA AppendKeeps ==
  ASSUME TypeOK, WorkerInv, NEW a \in attempts, AppendFeed(a)
  PROVE  WorkerInv'
  <1> DEFINE p == IF Entry(a) \in feed THEN "done" ELSE "send"
  <1>0. a \in Attempt /\ a.booking \in Booking /\ Entry(a) \in Booking \X Kind
    BY EntryType DEF TypeOK, Attempt
  <1>1. /\ a.act \in Notify
        /\ feed' = feed \union {Entry(a)}
        /\ Enter(a, p)
        /\ UNCHANGED <<row, sent>> /\ UNCHANGED control
    BY DEF AppendFeed
  <1>2. p \in Phase
    BY DEF Phase
  <1>3. a.act \notin Micro /\ row[a.booking] # "none"
    BY <1>1 DEF WorkerInv, RowsBehind, Notify, Micro
  <1>4. RowsBehind' /\ EntriesBehind' /\ ConfirmedWasNotified' /\ NoticesHaveRows'
    BY <1>1, <1>2, <1>3, StoreKeeps DEF Micro
  <1>5. OneSender' /\ SentAtMostOnce'
    <2>1. CASE Entry(a) \in feed
      BY <1>1, <1>2, <2>1, NoNewSender
    <2>2. CASE Entry(a) \notin feed
      <3> DEFINE moved == [a EXCEPT !.phase = "send"]
      <3>1. attempts' = (attempts \ {a}) \union {moved}
        BY <1>1, <2>2 DEF Enter
      <3>2. moved.phase = "send" /\ Entry(moved) = Entry(a)
        BY <1>0, EnteredType DEF Phase, Entry
      <3> HIDE DEF moved
      <3>3. \A c \in attempts : c.phase = "send" => Entry(c) # Entry(a)
        BY <2>2 DEF WorkerInv, EntriesBehind, TypeOK, Attempt, Act
      <3>4. sent[Entry(a)] = 0
        BY <1>0, <2>2 DEF WorkerInv, OneSender
      <3>5. \A e \in Booking \X Kind : e \notin feed' => sent'[e] = 0
        BY <1>1 DEF WorkerInv, OneSender
      <3>6. \A c \in attempts' : c.phase = "send" => sent'[Entry(c)] = 0
        BY <1>1, <3>1, <3>2, <3>4 DEF WorkerInv, OneSender
      <3>7. \A c, d \in attempts' :
              c.phase = "send" /\ d.phase = "send" /\ Entry(c) = Entry(d) => c = d
        BY <3>1, <3>2, <3>3 DEF WorkerInv, OneSender
      <3> QED
        BY <1>1, <3>5, <3>6, <3>7 DEF WorkerInv, OneSender, SentAtMostOnce, Entry
    <2> QED BY <2>1, <2>2
  <1> QED BY <1>4, <1>5 DEF WorkerInv

(* The one sender of an entry sends it and stops being its sender.         *)
LEMMA SendKeeps ==
  ASSUME TypeOK, WorkerInv, NEW a \in attempts, SendEmailAndPush(a)
  PROVE  WorkerInv'
  <1> DEFINE moved == [a EXCEPT !.phase = "done"]
  <1>0. a \in Attempt /\ a.booking \in Booking /\ Entry(a) \in Booking \X Kind
    BY EntryType DEF TypeOK, Attempt
  <1>1. /\ a.phase = "send"
        /\ sent' = [sent EXCEPT ![Entry(a)] = @ + 1]
        /\ attempts' = (attempts \ {a}) \union {moved}
        /\ Enter(a, "done")
        /\ UNCHANGED <<row, feed>> /\ UNCHANGED control
    BY DEF SendEmailAndPush, Enter
  <1>2. a.act \in Notify /\ a.act \notin Micro
    BY <1>0, <1>1 DEF WorkerInv, EntriesBehind, Attempt, Act, Notify, Micro
  <1>3. Entry(a) \in feed
    BY <1>1, <1>2 DEF WorkerInv, EntriesBehind
  <1>4. RowsBehind' /\ EntriesBehind' /\ ConfirmedWasNotified' /\ NoticesHaveRows'
    BY <1>1, <1>2, <1>3, StoreKeeps DEF Phase, Micro
  <1>5. moved.phase = "done"
    BY <1>0, EnteredType DEF Phase
  <1> HIDE DEF moved
  <1>6. \A c \in attempts' : c.phase = "send" => c \in attempts /\ Entry(c) # Entry(a)
    BY <1>1, <1>5 DEF WorkerInv, OneSender
  <1>7. sent[Entry(a)] = 0
    BY <1>1 DEF WorkerInv, OneSender
  <1>8. sent'[Entry(a)] = 1 /\ \A e \in Booking \X Kind : e # Entry(a) => sent'[e] = sent[e]
    BY <1>0, <1>1, <1>7 DEF TypeOK
  <1>9. SentAtMostOnce'
    BY <1>8 DEF WorkerInv, SentAtMostOnce
  <1>10. \A c \in attempts' : c.phase = "send" => sent'[Entry(c)] = 0
    BY <1>6, <1>8, EntryType DEF WorkerInv, OneSender, TypeOK
  <1>11. OneSender'
    BY <1>1, <1>3, <1>6, <1>8, <1>10 DEF WorkerInv, OneSender, Entry
  <1> QED BY <1>4, <1>9, <1>11 DEF WorkerInv

(* Whatever an attempt does, awaited or abandoned, the stores and the      *)
(* answers agree.                                                          *)
LEMMA WorkerAttempt ==
  ASSUME TypeOK, WorkerInv, NEW a \in attempts, AttemptStep(a)
  PROVE  WorkerInv'
  <1>0. a \in Attempt /\ a.booking \in Booking /\ SessionOf(a.booking) \in Session
        /\ a.phase \in Phase /\ a.act \in Act
    BY BookingParts DEF Attempt, TypeOK
  <1>1. CASE UpsertConfirmed(a)
    <2>1. /\ a.act = "create" /\ Enter(a, "done") /\ "done" \in Phase \ {"send"}
          /\ UNCHANGED <<feed, sent>> /\ UNCHANGED control
      BY <1>1 DEF UpsertConfirmed, Phase
    <2>2. /\ \A b \in Booking : row[b] # "none" => row'[b] # "none"
          /\ row'[a.booking] # "none"
      BY <1>0, <1>1 DEF UpsertConfirmed, TypeOK
    <2>3. RowsBehind' /\ EntriesBehind' /\ ConfirmedWasNotified' /\ NoticesHaveRows'
      BY <2>1, <2>2, StoreKeeps DEF Notify
    <2> QED BY <2>1, <2>3, NoNewSender DEF WorkerInv
  <1>2. CASE CancelRow(a)
    <2>1. /\ a.act = "cancel" /\ Enter(a, "done") /\ "done" \in Phase \ {"send"}
          /\ UNCHANGED <<feed, sent>> /\ UNCHANGED control
      BY <1>2 DEF CancelRow, Phase
    <2>2. \A b \in Booking : row[b] # "none" => row'[b] # "none"
      BY <1>0, <1>2 DEF CancelRow, TypeOK
    <2>3. RowsBehind' /\ EntriesBehind' /\ ConfirmedWasNotified' /\ NoticesHaveRows'
      BY <2>1, <2>2, StoreKeeps DEF Notify
    <2> QED BY <2>1, <2>3, NoNewSender DEF WorkerInv
  <1>3. CASE AppendFeed(a)
    BY <1>3, AppendKeeps
  <1>4. CASE SendEmailAndPush(a)
    BY <1>4, SendKeeps
  <1>5. CASE LoopError(a)
    <2>1. /\ a.act \in Micro /\ Enter(a, "error") /\ "error" \in Phase \ {"send"}
          /\ UNCHANGED <<row, feed, sent>> /\ UNCHANGED control
      BY <1>5 DEF LoopError, Phase, stores
    <2>2. a.act \notin Notify
      BY <2>1 DEF Micro, Notify
    <2>3. RowsBehind' /\ EntriesBehind' /\ ConfirmedWasNotified' /\ NoticesHaveRows'
      BY <2>1, <2>2, StoreKeeps
    <2> QED BY <2>1, <2>3, NoNewSender DEF WorkerInv
  <1>6. CASE Report(a)
    <2>1. CASE Awaited(a) /\ OnResult(SessionOf(a.booking), a.phase, attempts \ {a})
      BY <1>6, <2>1, ResultKeeps DEF Report
    <2>2. CASE ~Awaited(a) /\ attempts' = attempts \ {a} /\ UNCHANGED control
      BY <1>6, <2>2, FewerAttempts DEF Report, control
    <2> QED BY <1>6, <2>1, <2>2 DEF Report
  <1>7. CASE Raise(a)
    <2>1. CASE Awaited(a) /\ RetryOrGiveUp(SessionOf(a.booking), attempts \ {a})
      <3>1. Running(SessionOf(a.booking))
        BY <1>0, <2>1 DEF Awaited, Running
      <3> QED BY <1>0, <1>7, <2>1, <3>1, RetryKeeps DEF Raise
    <2>2. CASE ~Awaited(a) /\ attempts' = attempts \ {a} /\ UNCHANGED control
      BY <1>7, <2>2, FewerAttempts DEF Raise, control
    <2> QED BY <1>7, <2>1, <2>2 DEF Raise
  <1>8. CASE CrashAttempt(a)
    BY <1>8, FewerAttempts DEF CrashAttempt, control
  <1>9. CASE ForceFail(a)
    <2>1. CASE Awaited(a) /\ OnActivityError(SessionOf(a.booking), attempts \ {a})
      <3>1. Running(SessionOf(a.booking))
        BY <1>0, <2>1 DEF Awaited, Running, Attempt
      <3> QED BY <1>0, <1>9, <2>1, <3>1, RetryKeeps DEF ForceFail
    <2>2. CASE ~Awaited(a) /\ attempts' = attempts \ {a} /\ UNCHANGED control
      BY <1>9, <2>2, FewerAttempts DEF ForceFail, control
    <2> QED BY <1>9, <2>1, <2>2 DEF ForceFail
  <1> QED
    BY <1>1, <1>2, <1>3, <1>4, <1>5, <1>6, <1>7, <1>8, <1>9 DEF AttemptStep

(* Whatever the workflow does, the stores and the answers agree.           *)
LEMMA WorkerSession ==
  ASSUME TypeOK, WorkerInv, NEW s \in Session, SessionStep(s)
  PROVE  WorkerInv'
  <1>1. ASSUME NEW o \in Offer, BeginSaga(s, o) PROVE WorkerInv'
    <2>1. /\ asked' \in [Session -> Offer] /\ round' \in [Session -> Nat]
          /\ \A t \in Session \ {s} : asked'[t] = asked[t]
      BY <1>1 DEF BeginSaga, TypeOK
    <2>2. "create" \in Act /\ 1 \in Nat
      BY DEF Act, Micro
    <2>3. Schedule(s, "create", 1, attempts) /\ UNCHANGED <<stores, told>>
      BY <1>1 DEF BeginSaga
    <2> QED BY <2>1, <2>2, <2>3, ScheduleKeeps
  <1>2. CASE TimeOut(s)
    <2>1. Running(s) /\ RetryOrGiveUp(s, attempts) /\ UNCHANGED stores
      BY <1>2 DEF TimeOut
    <2> QED BY <2>1, RetryKeeps
  <1>3. CASE RestartRun(s)
    <2>1. \A t \in Session : step'[t] \in Act => step'[t] = step[t]
      BY <1>3 DEF RestartRun, TypeOK, Act, Micro, Notify
    <2>2. RowsBehind'
      BY <1>3, <2>1 DEF RestartRun, WorkerInv, RowsBehind, stores, Current
    <2> QED
      BY <1>3, <2>2 DEF RestartRun, WorkerInv, EntriesBehind, OneSender,
         ConfirmedWasNotified, NoticesHaveRows, SentAtMostOnce, stores, Entry
  <1> QED BY <1>1, <1>2, <1>3 DEF SessionStep

(* The worker invariant is inductive.                                      *)
LEMMA WorkerNext ==
  ASSUME TypeOK, WorkerInv, [Next]_vars
  PROVE  WorkerInv'
  <1>1. CASE UNCHANGED vars
    BY <1>1, FewerAttempts DEF vars, control, stores
  <1> QED
    BY <1>1, WorkerSession, WorkerAttempt DEF Next, Quiescent

(* On any worker, the answers given, the feed, the ledger and the attempts *)
(* in flight agree in every reachable state.                               *)
THEOREM WorkerCorrect == Spec => []WorkerInv
  <1>1. TypeOK /\ WorkerInv /\ [Next]_vars => TypeOK' /\ WorkerInv'
    BY TypeNext, WorkerNext
  <1>2. Init => TypeOK /\ WorkerInv
    BY TypeInit, WorkerInit
  <1> QED BY <1>1, <1>2, PTL DEF Spec

(* A saga answers "confirmed" only for a booking the merchant can read of, *)
(* for every retry policy and every interleaving of attempts.              *)
THEOREM ConfirmedMeansNotified == Spec => []ConfirmedWasNotified
  BY WorkerCorrect, PTL DEF WorkerInv

(* One email and one push per event, whatever is retried or lands late.    *)
THEOREM EmailOnce == Spec => []SentAtMostOnce
  BY WorkerCorrect, PTL DEF WorkerInv

-----------------------------------------------------------------------------
(* What a rollback of the booking saga claims, proved for the stub worker  *)
(* (LoopFaults = FALSE), and what the ledger never undoes, proved for any  *)
(* worker.                                                                 *)


(* Only the two ledger tools touch a row, and neither revives a booking.   *)
LEMMA RowSteps ==
  ASSUME TypeOK, [Next]_vars
  PROVE  \A b \in Booking : /\ row[b] = "cancelled" => row'[b] = "cancelled"
                            /\ row[b] # "none" => row'[b] # "none"
  <1>1. ASSUME NEW a \in attempts, UpsertConfirmed(a) \/ CancelRow(a)
        PROVE  \A b \in Booking : /\ row[b] = "cancelled" => row'[b] = "cancelled"
                                  /\ row[b] # "none" => row'[b] # "none"
    BY <1>1 DEF UpsertConfirmed, CancelRow, TypeOK, Attempt
  <1>2. ASSUME NEW a \in attempts, AttemptStep(a), ~UpsertConfirmed(a), ~CancelRow(a)
        PROVE  row' = row
    BY <1>2 DEF AttemptStep, AppendFeed, SendEmailAndPush, LoopError, Report, Raise, ForceFail,
                CrashAttempt, stores
  <1>3. ASSUME NEW s \in Session, SessionStep(s) PROVE row' = row
    BY <1>3 DEF SessionStep, BeginSaga, TimeOut, RestartRun, stores
  <1>4. CASE UNCHANGED vars
    BY <1>4 DEF vars, stores
  <1> QED BY <1>1, <1>2, <1>3, <1>4 DEF Next, Quiescent

(* A cancelled booking stays cancelled, on any worker.                     *)
THEOREM NoResurrection == Spec => CancelledIsFinal
  <1>1. ASSUME TypeOK, [Next]_vars
        PROVE  [\A b \in Booking : row[b] = "cancelled" => row'[b] = "cancelled"]_vars
    BY <1>1, RowSteps
  <1> QED BY <1>1, TypeCorrect, PTL DEF CancelledIsFinal, Spec

-----------------------------------------------------------------------------
(* The stub invariant.                                                     *)

(* Nothing has been rolled back yet.                                       *)
LEMMA StubInit == Init => StubInv
  BY DEF Init, StubInv, CancelsBehind, CreatesAccounted, CompensatedIsReleased,
         CompensationNoticeIsTrue, NoSilentReservation, Act, Micro, Notify

(* What the control state of one session contributes.                      *)
LEMMA ScheduleStub ==
  ASSUME TypeOK, StubInv, NEW s \in Session, NEW act \in Act, NEW n \in Nat,
         NEW others \in SUBSET attempts,
         UNCHANGED <<stores, told, aborted>>,
         asked' \in [Session -> Offer],
         \A t \in Session \ {s} : asked'[t] = asked[t],
         Running(s) => asked'[s] = asked[s],
         act = "notify_compensated" => row[<<s, asked'[s]>>] = "cancelled",
         Schedule(s, act, n, others)
  PROVE  StubInv'
  <1> DEFINE new == NewAttempt(<<s, asked'[s]>>, round'[s], act, n)
  <1>1. /\ attempts' = others \union {new}
        /\ step' = [step EXCEPT ![s] = act]
    BY DEF Schedule
  <1>2. /\ new.booking = <<s, asked'[s]>>
        /\ new.act = act
        /\ new.phase = "ready"
    BY DEF NewAttempt
  <1> HIDE DEF new
  <1>3. \A b \in Booking : Accounted(b) => Accounted(b)'
    <2> SUFFICES ASSUME NEW b \in Booking, Accounted(b) PROVE Accounted(b)'
      OBVIOUS
    <2>1. CASE SessionOf(b) = s
      BY <1>1, <2>1 DEF Accounted, Busy, Running, Current, TypeOK
    <2>2. CASE SessionOf(b) # s
      BY <1>1, <2>2, BookingParts DEF Accounted, Busy, Running, Current, TypeOK
    <2> QED BY <2>1, <2>2
  <1>4. \A b : b = <<s, asked'[s]>> => Accounted(b)'
    <2> SUFFICES ASSUME NEW b, b = <<s, asked'[s]>> PROVE Accounted(b)'
      OBVIOUS
    <2>1. SessionOf(b) = s
      BY DEF SessionOf
    <2>2. step'[s] \in Act
      BY <1>1 DEF TypeOK
    <2> QED BY <2>1, <2>2 DEF Accounted, Busy, Running, Current
  <1>5. CancelsBehind'
    <2>1. \A t \in Session :
            step'[t] = "notify_compensated" => row'[<<t, asked'[t]>>] = "cancelled"
      BY <1>1 DEF StubInv, CancelsBehind, Current, TypeOK, stores
    <2>2. \A a \in attempts' :
            \/ a.act = "cancel" /\ a.phase = "done"
            \/ a.act = "notify_compensated"
            => row'[a.booking] = "cancelled"
      BY <1>1, <1>2 DEF StubInv, CancelsBehind, stores
    <2> QED BY <2>1, <2>2 DEF CancelsBehind, Current
  <1>6. CreatesAccounted'
    <2> SUFFICES ASSUME NEW a \in attempts', a.act = "create"
                 PROVE  row'[a.booking] # "none" \/ Accounted(a.booking)'
      BY DEF CreatesAccounted
    <2>1. CASE a = new
      BY <1>2, <1>4, <2>1
    <2>2. CASE a \in attempts
      <3>1. a.booking \in Booking
        BY <2>2 DEF TypeOK, Attempt
      <3> QED BY <1>3, <2>2, <3>1 DEF StubInv, CreatesAccounted, stores
    <2> QED BY <1>1, <2>1, <2>2
  <1>7. NoSilentReservation'
    BY <1>3 DEF StubInv, NoSilentReservation, stores
  <1> QED
    BY <1>1, <1>2, <1>5, <1>6, <1>7
    DEF StubInv, CompensatedIsReleased, CompensationNoticeIsTrue, stores

(* A saga that ends leaves its booking accounted for by its answer.        *)
LEMMA ReturnStub ==
  ASSUME TypeOK, WorkerInv, StubInv, NEW s \in Session, NEW status \in Outcome,
         NEW others \in SUBSET attempts,
         UNCHANGED stores, Return(s, status, others),
         \/ status = "confirmed" /\ row[Current(s)] # "none"
         \/ status = "compensated" /\ row[Current(s)] = "cancelled"
  PROVE  StubInv'
  <1>0. Current(s) \in Booking
    BY DEF Current, Booking, TypeOK
  <1>1. /\ step' = [step EXCEPT ![s] = "idle"]
        /\ told' = [told EXCEPT ![Current(s)] = status]
        /\ attempts' \subseteq attempts
        /\ UNCHANGED <<row, feed, sent, asked, aborted>>
    BY DEF Return, stores
  <1>2. \A b \in Booking : b # Current(s) /\ Accounted(b) => Accounted(b)'
    <2> SUFFICES ASSUME NEW b \in Booking, b # Current(s), Accounted(b)
                 PROVE  Accounted(b)'
      OBVIOUS
    <2>1. CASE SessionOf(b) = s
      BY <1>1, <2>1 DEF Accounted, Busy
    <2>2. CASE SessionOf(b) # s
      BY <1>1, <2>2, BookingParts DEF Accounted, Busy, Running, Current, TypeOK
    <2> QED BY <2>1, <2>2
  <1>3. CancelsBehind'
    BY <1>1 DEF StubInv, CancelsBehind, Current, TypeOK
  <1>4. CreatesAccounted'
    <2> SUFFICES ASSUME NEW a \in attempts', a.act = "create"
                 PROVE  row'[a.booking] # "none" \/ Accounted(a.booking)'
      BY DEF CreatesAccounted
    <2>1. a \in attempts /\ a.booking \in Booking
      BY <1>1 DEF TypeOK, Attempt
    <2>2. row[a.booking] # "none" \/ Accounted(a.booking)
      BY <2>1 DEF StubInv, CreatesAccounted
    <2> QED BY <1>1, <1>2, <2>1, <2>2
  <1>5. CompensatedIsReleased'
    BY <1>0, <1>1 DEF StubInv, CompensatedIsReleased, TypeOK
  <1>6. NoSilentReservation'
    BY <1>0, <1>1, <1>2 DEF StubInv, NoSilentReservation, TypeOK
  <1> QED
    BY <1>1, <1>3, <1>4, <1>5, <1>6 DEF StubInv, CompensationNoticeIsTrue

(* A run that dies leaves its booking accounted for.                       *)
LEMMA FailRunStub ==
  ASSUME TypeOK, StubInv, NEW s \in Session, NEW others \in SUBSET attempts,
         UNCHANGED stores, FailRun(s, others)
  PROVE  StubInv'
  <1>1. /\ step' = [step EXCEPT ![s] = "dead"]
        /\ aborted' = aborted \union {Current(s)}
        /\ attempts' \subseteq attempts
        /\ UNCHANGED <<row, feed, sent, asked, told>>
    BY DEF FailRun, stores
  <1>2. \A b \in Booking : Accounted(b) => Accounted(b)'
    <2> SUFFICES ASSUME NEW b \in Booking, Accounted(b) PROVE Accounted(b)'
      OBVIOUS
    <2>1. CASE SessionOf(b) = s
      BY <1>1, <2>1 DEF Accounted, Busy
    <2>2. CASE SessionOf(b) # s
      BY <1>1, <2>2, BookingParts DEF Accounted, Busy, Running, Current, TypeOK
    <2> QED BY <2>1, <2>2
  <1>3. CancelsBehind'
    BY <1>1 DEF StubInv, CancelsBehind, Current, TypeOK
  <1>4. CreatesAccounted' /\ NoSilentReservation'
    BY <1>1, <1>2 DEF StubInv, CreatesAccounted, NoSilentReservation, TypeOK, Attempt
  <1> QED
    BY <1>1, <1>3, <1>4
    DEF StubInv, CompensatedIsReleased, CompensationNoticeIsTrue

(* A further attempt, or giving the activity up, claims no rollback that   *)
(* has not happened.                                                       *)
LEMMA RetryStub ==
  ASSUME TypeOK, WorkerInv, StubInv, NEW s \in Session, NEW others \in SUBSET attempts,
         RetryOrGiveUp(s, others) \/ OnActivityError(s, others),
         Running(s), UNCHANGED stores
  PROVE  StubInv'
  <1>0. step[s] = "notify_compensated" => row[<<s, asked[s]>>] = "cancelled"
    BY DEF StubInv, CancelsBehind, Current
  <1>1. CASE try[s] < MaxAttempts(step[s]) /\ Schedule(s, step[s], try[s] + 1, others)
             /\ UNCHANGED <<asked, round, told, aborted>>
    <2>1. step[s] \in Act /\ try[s] + 1 \in Nat
      BY DEF Running, TypeOK
    <2> QED BY <1>0, <1>1, <2>1, ScheduleStub DEF TypeOK
  <1>2. CASE step[s] \in Micro /\ FailRun(s, others)
    BY <1>2, FailRunStub
  <1>3. CASE step[s] = "notify" /\ Continue(s, "cancel", others)
    BY <1>3, ScheduleStub DEF Continue, Act, Micro, TypeOK
  <1>4. CASE step[s] = "notify_compensated" /\ Return(s, "compensated", others)
    BY <1>0, <1>4, ReturnStub DEF Outcome, Current
  <1> QED BY <1>1, <1>2, <1>3, <1>4 DEF RetryOrGiveUp, OnActivityError

(* The awaited attempt answers: a completed cancel has released the row    *)
(* before the rollback is announced.                                       *)
LEMMA ResultStub ==
  ASSUME TypeOK, WorkerInv, StubInv, NEW a \in attempts, Awaited(a),
         OnResult(SessionOf(a.booking), a.phase, attempts \ {a}),
         a.phase \in {"done", "error"}, UNCHANGED stores
  PROVE  StubInv'
  <1> DEFINE s == SessionOf(a.booking)
  <1>0. /\ s \in Session
        /\ a.booking = <<s, asked[s]>> /\ a.booking = Current(s)
        /\ a.act = step[s]
        /\ a.phase = "done"
        /\ attempts \ {a} \in SUBSET attempts
    BY BookingParts DEF TypeOK, Attempt, Awaited, Current, StubInv
  <1> HIDE DEF s
  <1>1. CASE step[s] = "create" /\ Continue(s, "notify", attempts \ {a})
    <2>1. "notify" \in Act /\ 1 \in Nat
      BY DEF Act, Notify
    <2>2. UNCHANGED <<stores, asked, told, aborted>>
          /\ Schedule(s, "notify", 1, attempts \ {a})
      BY <1>1 DEF Continue
    <2> QED BY <1>0, <2>1, <2>2, ScheduleStub DEF TypeOK
  <1>2. CASE step[s] = "notify" /\ Return(s, "confirmed", attempts \ {a})
    <2>1. row[Current(s)] # "none"
      BY <1>0, <1>2 DEF WorkerInv, RowsBehind
    <2> QED BY <1>0, <1>2, <2>1, ReturnStub DEF Outcome
  <1>3. CASE step[s] = "cancel" /\ Continue(s, "notify_compensated", attempts \ {a})
    <2>1. "notify_compensated" \in Act /\ 1 \in Nat
      BY DEF Act, Notify
    <2>2. UNCHANGED <<stores, asked, told, aborted>>
          /\ Schedule(s, "notify_compensated", 1, attempts \ {a})
      BY <1>3 DEF Continue
    <2>3. row[<<s, asked[s]>>] = "cancelled"
      BY <1>0, <1>3 DEF StubInv, CancelsBehind
    <2> QED BY <1>0, <2>1, <2>2, <2>3, ScheduleStub DEF TypeOK
  <1>4. CASE step[s] = "notify_compensated" /\ Return(s, "compensated", attempts \ {a})
    <2>1. row[Current(s)] = "cancelled"
      BY <1>0, <1>4 DEF StubInv, CancelsBehind
    <2> QED BY <1>0, <1>4, <2>1, ReturnStub DEF Outcome
  <1> QED BY <1>0, <1>1, <1>2, <1>3, <1>4 DEF OnResult, s

(* The worker side, under the stub worker's promise of no loop errors.     *)
LEMMA AttemptStub ==
  ASSUME TypeOK, WorkerInv, StubInv, ~LoopFaults, NEW a \in attempts, AttemptStep(a)
  PROVE  StubInv'
  <1>0. a \in Attempt /\ a.booking \in Booking
    BY DEF TypeOK, Attempt
  <1> DEFINE done == [a EXCEPT !.phase = "done"]
  <1>1. /\ done.booking = a.booking /\ done.act = a.act /\ done.phase = "done"
        /\ \A ph : [a EXCEPT !.phase = ph].booking = a.booking
        /\ \A ph : [a EXCEPT !.phase = ph].act = a.act
        /\ \A ph : [a EXCEPT !.phase = ph].phase = ph
    BY <1>0 DEF Attempt
  <1> HIDE DEF done
  <1>2. ASSUME UNCHANGED control PROVE \A b \in Booking : Accounted(b)' <=> Accounted(b)
    BY <1>2 DEF Accounted, Busy, Running, Current, control
  <1>3. CASE UpsertConfirmed(a)
    <2>1. /\ row' = [row EXCEPT ![a.booking] = IF @ = "none" THEN "confirmed" ELSE @]
          /\ attempts' = (attempts \ {a}) \union {done}
          /\ UNCHANGED <<feed, sent, control>>
          /\ a.act = "create" /\ a.phase = "ready"
      BY <1>3 DEF UpsertConfirmed, Enter, done
    <2>2. \A b \in Booking : row[b] = "cancelled" => row'[b] = "cancelled"
      BY <2>1 DEF TypeOK
    <2>3. \A b \in Booking : row[b] # "none" => row'[b] # "none"
      BY <2>1 DEF TypeOK
    <2>4. row'[a.booking] # "none"
      BY <1>0, <2>1 DEF TypeOK
    <2>5. CancelsBehind'
      <3>1. \A t \in Session : Current(t) \in Booking /\ Current(t)' = Current(t)
        BY <2>1 DEF Current, Booking, TypeOK, control
      <3>2. \A c \in attempts : c.booking \in Booking
        BY DEF TypeOK, Attempt
      <3>3. \A t \in Session : (step[t] = "notify_compensated" => row[Current(t)] = "cancelled")
                               /\ step'[t] = step[t]
        BY <2>1 DEF StubInv, CancelsBehind, control
      <3>4. \A c \in attempts : ((c.act = "cancel" /\ c.phase = "done")
                                 \/ c.act = "notify_compensated") => row[c.booking] = "cancelled"
        BY DEF StubInv, CancelsBehind
      <3>5. done.act = "create"
        BY <1>1, <2>1
      <3> QED BY <2>1, <2>2, <3>1, <3>2, <3>3, <3>4, <3>5 DEF CancelsBehind
    <2>6. CreatesAccounted'
      <3> SUFFICES ASSUME NEW c \in attempts', c.act = "create"
                   PROVE  row'[c.booking] # "none" \/ Accounted(c.booking)'
        BY DEF CreatesAccounted
      <3>1. CASE c = done
        BY <1>1, <2>4, <3>1
      <3>2. CASE c \in attempts
        <4>1. c.booking \in Booking
          BY <3>2 DEF TypeOK, Attempt
        <4> QED BY <1>2, <2>1, <2>3, <3>2, <4>1 DEF StubInv, CreatesAccounted
      <3> QED BY <2>1, <3>1, <3>2
    <2>7. NoSilentReservation'
      <3> SUFFICES ASSUME NEW b \in Booking, row'[b] = "confirmed"
                   PROVE  told'[b] = "confirmed" \/ Accounted(b)'
        BY DEF NoSilentReservation
      <3>1. CASE row[b] = "confirmed"
        BY <1>2, <2>1, <3>1 DEF StubInv, NoSilentReservation, control
      <3>2. CASE row[b] # "confirmed"
        <4>1. b = a.booking /\ row[b] = "none"
          BY <2>1, <3>2 DEF TypeOK
        <4> QED BY <1>2, <2>1, <4>1 DEF StubInv, CreatesAccounted
      <3> QED BY <3>1, <3>2
    <2>8. CompensatedIsReleased' /\ CompensationNoticeIsTrue'
      BY <2>1, <2>2 DEF StubInv, CompensatedIsReleased, CompensationNoticeIsTrue, control
    <2> QED BY <1>1, <2>1, <2>5, <2>6, <2>7, <2>8 DEF StubInv
  <1>4. CASE CancelRow(a)
    <2>1. /\ row' = [row EXCEPT ![a.booking] = IF @ = "confirmed" THEN "cancelled" ELSE @]
          /\ attempts' = (attempts \ {a}) \union {done}
          /\ UNCHANGED <<feed, sent, control>>
          /\ a.act = "cancel" /\ a.phase = "ready"
      BY <1>4 DEF CancelRow, Enter, done
    <2>2. \A b \in Booking : /\ row[b] = "cancelled" => row'[b] = "cancelled"
                             /\ row[b] # "none" => row'[b] # "none"
                             /\ row'[b] = "confirmed" => row[b] = "confirmed"
      BY <2>1 DEF TypeOK
    <2>3. row'[a.booking] = "cancelled"
      <3>1. row[a.booking] # "none"
        BY <2>1 DEF WorkerInv, RowsBehind
      <3> QED BY <1>0, <2>1, <3>1 DEF TypeOK
    <2>4. CancelsBehind'
      <3>1. \A t \in Session : Current(t) \in Booking /\ Current(t)' = Current(t)
        BY <2>1 DEF Current, Booking, TypeOK, control
      <3>2. \A c \in attempts : c.booking \in Booking
        BY DEF TypeOK, Attempt
      <3>3. \A t \in Session : (step[t] = "notify_compensated" => row[Current(t)] = "cancelled")
                               /\ step'[t] = step[t]
        BY <2>1 DEF StubInv, CancelsBehind, control
      <3>4. \A c \in attempts : ((c.act = "cancel" /\ c.phase = "done")
                                 \/ c.act = "notify_compensated") => row[c.booking] = "cancelled"
        BY DEF StubInv, CancelsBehind
      <3> QED BY <1>1, <2>1, <2>2, <2>3, <3>1, <3>2, <3>3, <3>4 DEF CancelsBehind
    <2>5. CreatesAccounted'
      <3> SUFFICES ASSUME NEW c \in attempts', c.act = "create"
                   PROVE  row'[c.booking] # "none" \/ Accounted(c.booking)'
        BY DEF CreatesAccounted
      <3>1. c \in attempts /\ c.booking \in Booking
        BY <1>1, <2>1 DEF TypeOK, Attempt
      <3> QED BY <1>2, <2>1, <2>2, <3>1 DEF StubInv, CreatesAccounted
    <2>6. NoSilentReservation'
      BY <1>2, <2>1, <2>2 DEF StubInv, NoSilentReservation, control
    <2>7. CompensatedIsReleased' /\ CompensationNoticeIsTrue'
      BY <2>1, <2>2 DEF StubInv, CompensatedIsReleased, CompensationNoticeIsTrue, control
    <2> QED BY <1>1, <2>1, <2>4, <2>5, <2>6, <2>7 DEF StubInv
  <1>5. CASE AppendFeed(a) \/ SendEmailAndPush(a)
    <2>1. PICK ph \in Phase \ {"error"} :
            attempts' = (attempts \ {a}) \union {[a EXCEPT !.phase = ph]}
      BY <1>5 DEF AppendFeed, SendEmailAndPush, Enter, Phase
    <2>2. UNCHANGED <<row, control>> /\ a.act \in Notify
      BY <1>5 DEF AppendFeed, SendEmailAndPush, WorkerInv, EntriesBehind, TypeOK, Attempt, Act
    <2> DEFINE moved == [a EXCEPT !.phase = ph]
    <2>3. moved.booking = a.booking /\ moved.act = a.act /\ moved.phase = ph
      BY <1>1
    <2> HIDE DEF moved
    <2>4. attempts' = (attempts \ {a}) \union {moved}
      BY <2>1 DEF moved
    <2>5. CancelsBehind'
      BY <2>2, <2>3, <2>4 DEF StubInv, CancelsBehind, Current, control, Notify
    <2>6. CreatesAccounted'
      <3> SUFFICES ASSUME NEW c \in attempts', c.act = "create"
                   PROVE  row'[c.booking] # "none" \/ Accounted(c.booking)'
        BY DEF CreatesAccounted
      <3>1. c \in attempts /\ c.booking \in Booking
        BY <2>2, <2>3, <2>4 DEF TypeOK, Attempt, Notify
      <3> QED BY <1>2, <2>2, <3>1 DEF StubInv, CreatesAccounted
    <2>7. CompensationNoticeIsTrue'
      <3>1. \A p \in feed' : p \in feed \/ (a.act = "notify_compensated" /\ p = Entry(a))
                             \/ p[2] = "booking_confirmed"
        BY <1>5, <2>2 DEF AppendFeed, SendEmailAndPush, Entry, KindOf, Notify
      <3>2. a.act = "notify_compensated" => row[a.booking] = "cancelled"
        BY DEF StubInv, CancelsBehind
      <3> QED BY <2>2, <3>1, <3>2 DEF StubInv, CompensationNoticeIsTrue, Entry
    <2>8. CompensatedIsReleased' /\ NoSilentReservation'
      BY <1>2, <2>2 DEF StubInv, CompensatedIsReleased, NoSilentReservation, control
    <2> QED BY <2>1, <2>3, <2>4, <2>5, <2>6, <2>7, <2>8 DEF StubInv
  <1>6. CASE attempts' = attempts \ {a} /\ UNCHANGED <<stores, control>>
    <2>1. CreatesAccounted'
      BY <1>2, <1>6 DEF StubInv, CreatesAccounted, stores, TypeOK, Attempt
    <2>2. NoSilentReservation'
      BY <1>2, <1>6 DEF StubInv, NoSilentReservation, stores, control
    <2> QED
      BY <1>6, <2>1, <2>2
      DEF StubInv, CancelsBehind, Current, CompensatedIsReleased,
          CompensationNoticeIsTrue, stores, control
  <1>7. CASE Report(a)
    BY <1>6, <1>7, ResultStub DEF Report
  <1>8. CASE Raise(a)
    <2>1. CASE Awaited(a)
      <3>1. SessionOf(a.booking) \in Session /\ Running(SessionOf(a.booking))
        BY <1>0, <2>1, BookingParts DEF Awaited, Running, Attempt
      <3> QED BY <1>8, <2>1, <3>1, RetryStub DEF Raise
    <2> QED BY <1>6, <1>8, <2>1 DEF Raise
  <1>9. CASE CrashAttempt(a)
    BY <1>6, <1>9 DEF CrashAttempt
  <1>10. CASE ForceFail(a)
    <2>1. CASE Awaited(a)
      <3>1. SessionOf(a.booking) \in Session /\ Running(SessionOf(a.booking))
        BY <1>0, <2>1, BookingParts DEF Awaited, Running, Attempt
      <3> QED BY <1>10, <2>1, <3>1, RetryStub DEF ForceFail
    <2> QED BY <1>6, <1>10, <2>1 DEF ForceFail
  <1> QED BY <1>3, <1>4, <1>5, <1>7, <1>8, <1>9, <1>10 DEF AttemptStep, LoopError

(* Whatever the workflow does, its claims about rollbacks are true.        *)
LEMMA SessionStub ==
  ASSUME TypeOK, WorkerInv, StubInv, NEW s \in Session, SessionStep(s)
  PROVE  StubInv'
  <1>1. ASSUME NEW o \in Offer, BeginSaga(s, o) PROVE StubInv'
    <2>1. "create" \in Act /\ 1 \in Nat
      BY DEF Act, Micro
    <2>2. /\ asked' \in [Session -> Offer]
          /\ \A t \in Session \ {s} : asked'[t] = asked[t]
          /\ ~Running(s)
      BY <1>1 DEF BeginSaga, TypeOK, Running, Act, Micro, Notify
    <2>3. Schedule(s, "create", 1, attempts) /\ UNCHANGED <<stores, told, aborted>>
      BY <1>1 DEF BeginSaga
    <2> QED BY <2>1, <2>2, <2>3, ScheduleStub
  <1>2. CASE TimeOut(s)
    BY <1>2, RetryStub DEF TimeOut
  <1>3. CASE RestartRun(s)
    <2>1. \A b \in Booking : Accounted(b) => Accounted(b)'
      <3> SUFFICES ASSUME NEW b \in Booking, Accounted(b) PROVE Accounted(b)'
        OBVIOUS
      <3>1. CASE SessionOf(b) = s
        BY <1>3, <3>1 DEF Accounted, Busy, RestartRun, Running, Act, Micro, Notify
      <3>2. CASE SessionOf(b) # s
        BY <1>3, <3>2, BookingParts DEF Accounted, Busy, RestartRun, Running, Current, TypeOK
      <3> QED BY <3>1, <3>2
    <2>2. CancelsBehind'
      BY <1>3 DEF RestartRun, StubInv, CancelsBehind, Current, TypeOK, stores
    <2>3. CreatesAccounted' /\ NoSilentReservation'
      BY <1>3, <2>1 DEF RestartRun, StubInv, CreatesAccounted, NoSilentReservation,
                        TypeOK, Attempt, stores
    <2> QED BY <1>3, <2>2, <2>3 DEF RestartRun, StubInv, CompensatedIsReleased,
                                    CompensationNoticeIsTrue, stores
  <1> QED BY <1>1, <1>2, <1>3 DEF SessionStep

(* The stub invariant is inductive, with the worker invariant.             *)
LEMMA StubNext ==
  ASSUME TypeOK, WorkerInv, StubInv, ~LoopFaults, [Next]_vars
  PROVE  StubInv'
  <1>1. CASE UNCHANGED vars
    BY <1>1 DEF vars, stores, control, StubInv, CancelsBehind, CreatesAccounted,
                Accounted, Busy, Running, Current, CompensatedIsReleased,
                CompensationNoticeIsTrue, NoSilentReservation
  <1> QED BY <1>1, AttemptStub, SessionStub DEF Next, Quiescent

(* On a worker whose micro-agents never answer with an error result, what  *)
(* a rollback claims has happened to the row, at every moment and against  *)
(* every late, retried or lost attempt.                                    *)
THEOREM StubCorrect ==
  ASSUME ~LoopFaults
  PROVE  Spec => []StubInv
  <1>1. ASSUME TypeOK, WorkerInv, StubInv, [Next]_vars PROVE StubInv'
    BY <1>1, StubNext
  <1> QED BY <1>1, StubInit, TypeCorrect, WorkerCorrect, PTL DEF Spec

(* A saga that answered "compensated" has released its booking for good.   *)
THEOREM CompensationReleases ==
  ASSUME ~LoopFaults
  PROVE  Spec => []CompensatedIsReleased
  <1>1. StubInv => CompensatedIsReleased
    BY DEF StubInv
  <1> QED BY <1>1, StubCorrect, PTL

(* No confirmed row is left behind in silence.                             *)
THEOREM NothingReservedInSilence ==
  ASSUME ~LoopFaults
  PROVE  Spec => []NoSilentReservation
  <1>1. StubInv => NoSilentReservation
    BY DEF StubInv
  <1> QED BY <1>1, StubCorrect, PTL

(* The merchant reads of a rollback only when the row is cancelled.        *)
THEOREM ReleaseNoticeIsTrue ==
  ASSUME ~LoopFaults
  PROVE  Spec => []CompensationNoticeIsTrue
  <1>1. StubInv => CompensationNoticeIsTrue
    BY DEF StubInv
  <1> QED BY <1>1, StubCorrect, PTL

-----------------------------------------------------------------------------
(* The refinement.  What a step is to a caller who sees no attempts: one   *)
(* session's saga begins, goes on, answers or dies, a dead run is replaced, *)
(* or an attempt works on the stores.                                      *)

At(s, to) == step' = [step EXCEPT ![s] = to] /\ UNCHANGED stores

SagaBegins(s) ==
  /\ step[s] = "idle" /\ At(s, "create")
  /\ \E o \in Offer : asked' = [asked EXCEPT ![s] = o]
  /\ UNCHANGED <<told, aborted>>
  /\ \A a \in attempts' \ attempts : a.act = "create"

SagaGoesOn(s) ==
  /\ Running(s) /\ UNCHANGED <<asked, told, aborted>>
  /\ \E act \in Act :
       /\ At(s, act)
       /\ step[s] = "cancel" => act = "cancel" \/ row[Current(s)] = "cancelled"
       /\ \A a \in attempts' \ attempts : a.booking = Current(s) /\ a.act = act

SagaAnswers(s) ==
  /\ Running(s) /\ step[s] # "cancel" /\ At(s, "idle") /\ UNCHANGED <<asked, aborted>>
  /\ \/ /\ told' = [told EXCEPT ![Current(s)] = "confirmed"]
        /\ <<Current(s), "booking_confirmed">> \in feed
     \/ /\ told' = [told EXCEPT ![Current(s)] = "compensated"]
        /\ row[Current(s)] = "cancelled"
  /\ attempts' \subseteq attempts

SagaDies(s) ==
  /\ Running(s) /\ At(s, "dead") /\ UNCHANGED <<asked, told>>
  /\ aborted' = aborted \union {Current(s)}
  /\ attempts' \subseteq attempts

RunReplaced(s) ==
  /\ step[s] = "dead" /\ At(s, "idle") /\ UNCHANGED <<asked, told, aborted, attempts>>

AttemptWorks(a) ==
  /\ UNCHANGED control
  /\ \A c \in attempts' \ attempts : c.booking = a.booking /\ c.act = a.act
  /\ \/ UpsertConfirmed(a)
     \/ CancelRow(a)
     \/ AppendFeed(a)
     \/ UNCHANGED <<row, feed>>

Moves(s) ==
  SagaBegins(s) \/ SagaGoesOn(s) \/ SagaAnswers(s) \/ SagaDies(s) \/ RunReplaced(s)

(* Scheduling the next step or the next attempt.                           *)
LEMMA ScheduleMoves ==
  ASSUME TypeOK, NEW s \in Session, Running(s), NEW act \in Act, NEW n,
         NEW others \in SUBSET attempts, UNCHANGED <<stores, asked, told, aborted>>,
         step[s] = "cancel" => act = "cancel" \/ row[Current(s)] = "cancelled",
         Schedule(s, act, n, others)
  PROVE  SagaGoesOn(s)
  <1>1. PICK new : new = NewAttempt(<<s, asked'[s]>>, round'[s], act, n)
    OBVIOUS
  <1>2. new.booking = Current(s) /\ new.act = act
    BY <1>1 DEF NewAttempt, Current
  <1>3. At(s, act) /\ attempts' = others \union {new}
    BY <1>1 DEF Schedule, At
  <1>4. \A a \in attempts' \ attempts : a.booking = Current(s) /\ a.act = act
    BY <1>2, <1>3
  <1> QED BY <1>3, <1>4 DEF SagaGoesOn

(* A further attempt, or giving the activity up.                           *)
LEMMA RetryMoves ==
  ASSUME TypeOK, StubInv, NEW s \in Session, Running(s), UNCHANGED stores,
         NEW others \in SUBSET attempts,
         RetryOrGiveUp(s, others) \/ OnActivityError(s, others)
  PROVE  Moves(s)
  <1>1. CASE Schedule(s, step[s], try[s] + 1, others) /\ UNCHANGED <<asked, round, told, aborted>>
    BY <1>1, ScheduleMoves DEF Running, Moves
  <1>2. CASE FailRun(s, others)
    BY <1>2 DEF FailRun, SagaDies, At, Moves
  <1>3. CASE step[s] = "notify" /\ Continue(s, "cancel", others)
    BY <1>3, ScheduleMoves DEF Continue, Act, Micro, Moves
  <1>4. CASE step[s] = "notify_compensated" /\ Return(s, "compensated", others)
    <2>1. row[Current(s)] = "cancelled"
      BY <1>4 DEF StubInv, CancelsBehind
    <2> QED BY <1>4, <2>1 DEF Return, SagaAnswers, At, Moves
  <1> QED BY <1>1, <1>2, <1>3, <1>4 DEF RetryOrGiveUp, OnActivityError

(* The awaited attempt answers.                                            *)
LEMMA ResultMoves ==
  ASSUME TypeOK, WorkerInv, StubInv, NEW a \in attempts, Awaited(a),
         OnResult(SessionOf(a.booking), a.phase, attempts \ {a}),
         a.phase \in {"done", "error"}, UNCHANGED stores
  PROVE  SessionOf(a.booking) \in Session /\ Moves(SessionOf(a.booking))
  <1>a. PICK s \in Session : s = SessionOf(a.booking)
    BY BookingParts DEF TypeOK, Attempt
  <1>b. /\ a.booking = Current(s) /\ a.act = step[s] /\ a.phase = "done"
        /\ a.act \in Act
    BY <1>a DEF TypeOK, Attempt, Awaited, StubInv
  <1> SUFFICES Moves(s)
    BY <1>a
  <1>1. Running(s)
    BY <1>b DEF Running
  <1>2. CASE step[s] = "create" /\ Continue(s, "notify", attempts \ {a})
    BY <1>b, <1>1, <1>2, ScheduleMoves DEF Continue, Act, Notify, Moves
  <1>3. CASE step[s] = "notify" /\ Return(s, "confirmed", attempts \ {a})
    <2>1. <<Current(s), "booking_confirmed">> \in feed
      BY <1>b, <1>3 DEF WorkerInv, EntriesBehind, Entry, KindOf, Notify
    <2> QED BY <1>1, <1>3, <2>1 DEF Return, SagaAnswers, At, Moves
  <1>4. CASE step[s] = "cancel" /\ Continue(s, "notify_compensated", attempts \ {a})
    <2>1. row[Current(s)] = "cancelled"
      BY <1>b, <1>4 DEF StubInv, CancelsBehind
    <2> QED BY <1>b, <1>1, <1>4, <2>1, ScheduleMoves DEF Continue, Act, Notify, Moves
  <1>5. CASE step[s] = "notify_compensated" /\ Return(s, "compensated", attempts \ {a})
    <2>1. row[Current(s)] = "cancelled"
      BY <1>b, <1>5 DEF StubInv, CancelsBehind
    <2> QED BY <1>1, <1>5, <2>1 DEF Return, SagaAnswers, At, Moves
  <1> QED BY <1>a, <1>b, <1>2, <1>3, <1>4, <1>5 DEF OnResult

(* Every step is one of these.                                             *)
LEMMA StepsMove ==
  ASSUME TypeOK, WorkerInv, StubInv, ~LoopFaults, Next
  PROVE  \/ \E s \in Session : Moves(s)
         \/ \E a \in attempts : AttemptWorks(a)
         \/ UNCHANGED vars
  <1>1. ASSUME NEW s \in Session, SessionStep(s) PROVE Moves(s)
    <2>1. ASSUME NEW o \in Offer, BeginSaga(s, o) PROVE SagaBegins(s)
      <3>1. PICK new : new = NewAttempt(<<s, asked'[s]>>, round'[s], "create", 1)
        OBVIOUS
      <3>2. new.act = "create" /\ attempts' = attempts \union {new} /\ At(s, "create")
        BY <2>1, <3>1 DEF BeginSaga, Schedule, NewAttempt, At
      <3> QED BY <2>1, <3>2 DEF BeginSaga, SagaBegins
    <2>2. CASE TimeOut(s)
      BY <2>2, RetryMoves DEF TimeOut
    <2>3. CASE RestartRun(s)
      BY <2>3 DEF RestartRun, RunReplaced, At, Moves
    <2> QED BY <1>1, <2>1, <2>2, <2>3 DEF SessionStep, Moves
  <1>2. ASSUME NEW a \in attempts, AttemptStep(a)
        PROVE  (\E s \in Session : Moves(s)) \/ AttemptWorks(a)
    <2>0. a \in Attempt /\ SessionOf(a.booking) \in Session
      BY BookingParts DEF TypeOK, Attempt
    <2>1. ASSUME Awaited(a) PROVE Running(SessionOf(a.booking))
      BY <2>0, <2>1 DEF Awaited, Running, Attempt
    <2>2. CASE UpsertConfirmed(a) \/ CancelRow(a) \/ AppendFeed(a) \/ SendEmailAndPush(a)
      <3>1. PICK ph : attempts' = (attempts \ {a}) \union {[a EXCEPT !.phase = ph]}
        BY <2>2 DEF UpsertConfirmed, CancelRow, AppendFeed, SendEmailAndPush, Enter
      <3>2. PICK moved : moved = [a EXCEPT !.phase = ph]
        OBVIOUS
      <3>3. moved.booking = a.booking /\ moved.act = a.act
        BY <2>0, <3>2 DEF Attempt
      <3>4. \A c \in attempts' \ attempts : c.booking = a.booking /\ c.act = a.act
        BY <3>1, <3>2, <3>3
      <3>5. UNCHANGED control
        BY <2>2 DEF UpsertConfirmed, CancelRow, AppendFeed, SendEmailAndPush
      <3>6. SendEmailAndPush(a) => UNCHANGED <<row, feed>>
        BY DEF SendEmailAndPush
      <3> QED BY <2>2, <3>4, <3>5, <3>6 DEF AttemptWorks
    <2>3. CASE attempts' = attempts \ {a} /\ UNCHANGED control /\ UNCHANGED stores
      BY <2>3 DEF AttemptWorks, stores
    <2>4. CASE Report(a)
      BY <2>3, <2>4, ResultMoves DEF Report
    <2>5. CASE Raise(a) \/ ForceFail(a)
      BY <2>0, <2>1, <2>3, <2>5, RetryMoves DEF Raise, ForceFail
    <2>6. CASE CrashAttempt(a)
      BY <2>3, <2>6 DEF CrashAttempt
    <2> QED BY <1>2, <2>2, <2>4, <2>5, <2>6 DEF AttemptStep, LoopError
  <1> QED BY <1>1, <1>2 DEF Next, Quiescent

-----------------------------------------------------------------------------
(* Who may still release a booking.                                        *)

(* An attempt of cancel_booking works for the saga that is releasing the   *)
(* booking, or for one that died doing so, or has nothing left to do.      *)
Releasing(b) ==
  \/ row[b] = "cancelled"
  \/ b \in aborted
  \/ step[SessionOf(b)] = "cancel" /\ b = Current(SessionOf(b))

CancelsAccounted == \A a \in attempts : a.act = "cancel" => Releasing(a.booking)

(* What is being released stays so until it is released or its run dies.   *)
LEMMA ReleasingStays ==
  ASSUME TypeOK, TypeOK', WorkerInv, StubInv, ~LoopFaults, [Next]_vars,
         NEW b \in Booking, Releasing(b)
  PROVE  Releasing(b)'
  <1>1. row[b] = "cancelled" => row'[b] = "cancelled"
    BY RowSteps
  <1>2. CASE UNCHANGED control
    BY <1>1, <1>2 DEF Releasing, Current, control
  <1>3. ASSUME NEW s \in Session, Moves(s) PROVE Releasing(b)'
    <2>1. aborted \subseteq aborted'
      BY <1>3 DEF Moves, SagaBegins, SagaGoesOn, SagaAnswers, SagaDies, RunReplaced
    <2>2. CASE row[b] = "cancelled" \/ b \in aborted
      BY <1>1, <2>1, <2>2 DEF Releasing
    <2>3. CASE step[SessionOf(b)] = "cancel" /\ b = Current(SessionOf(b)) /\ SessionOf(b) = s
      <3>1. SagaGoesOn(s) \/ SagaDies(s)
        BY <1>3, <2>3 DEF Moves, SagaBegins, SagaAnswers, RunReplaced
      <3>2. CASE SagaGoesOn(s)
        <4>1. PICK act \in Act : /\ At(s, act) /\ UNCHANGED asked
                                 /\ act = "cancel" \/ row[b] = "cancelled"
          BY <2>3, <3>2 DEF SagaGoesOn
        <4> QED BY <1>1, <2>3, <4>1 DEF Releasing, At, Current, TypeOK
      <3>3. CASE SagaDies(s)
        BY <2>3, <3>3 DEF SagaDies, Releasing
      <3> QED BY <3>1, <3>2, <3>3
    <2>4. CASE step[SessionOf(b)] = "cancel" /\ b = Current(SessionOf(b)) /\ SessionOf(b) # s
      <3>1. PICK t \in Session : t = SessionOf(b) /\ t # s
        BY <2>4, BookingParts
      <3>2. step'[t] = step[t] /\ asked'[t] = asked[t]
        BY <1>3, <3>1
        DEF Moves, SagaBegins, SagaGoesOn, SagaAnswers, SagaDies, RunReplaced, At, TypeOK
      <3> QED BY <2>4, <3>1, <3>2 DEF Releasing, Current
    <2> QED BY <2>2, <2>3, <2>4 DEF Releasing
  <1>4. CASE Next
    BY <1>2, <1>3, <1>4, StepsMove DEF AttemptWorks, vars
  <1> QED BY <1>2, <1>4 DEF vars

(* A cancel starts when its saga releases the booking.                     *)
LEMMA CancelsStay ==
  ASSUME TypeOK, TypeOK', WorkerInv, StubInv, CancelsAccounted, ~LoopFaults, [Next]_vars
  PROVE  CancelsAccounted'
  <1> SUFFICES ASSUME NEW c \in attempts', c.act = "cancel" PROVE Releasing(c.booking)'
    BY DEF CancelsAccounted
  <1>1. CASE c \in attempts
    BY <1>1, ReleasingStays DEF CancelsAccounted, TypeOK, Attempt
  <1>2. CASE c \notin attempts
    <2>1. ASSUME NEW s \in Session, Moves(s) PROVE Releasing(c.booking)'
      <3>1. SagaGoesOn(s)
        BY <1>2, <2>1 DEF Moves, SagaBegins, SagaAnswers, SagaDies, RunReplaced
      <3>2. /\ At(s, "cancel") /\ UNCHANGED asked
            /\ c.booking = Current(s)
        BY <1>2, <3>1 DEF SagaGoesOn
      <3>3. SessionOf(c.booking) = s /\ step'[s] = "cancel" /\ c.booking = Current(s)'
        BY <3>2 DEF SessionOf, Current, At, TypeOK
      <3> QED BY <3>3 DEF Releasing
    <2>2. ASSUME NEW a \in attempts, AttemptWorks(a) PROVE Releasing(c.booking)'
      <3>1. c.booking = a.booking /\ a.act = "cancel"
        BY <1>2, <2>2 DEF AttemptWorks
      <3> QED BY <3>1, ReleasingStays DEF CancelsAccounted, TypeOK, Attempt
    <2> QED BY <1>2, <2>1, <2>2, StepsMove DEF vars
  <1> QED BY <1>1, <1>2

-----------------------------------------------------------------------------
(* The contract's steps.                                                   *)

BusyNow == {b \in Booking : Busy(b)}

(* What a session's move does to the bookings that are busy.               *)
LEMMA BusyMoves ==
  ASSUME TypeOK, TypeOK', NEW s \in Session, NEW to, At(s, to),
         \A t \in Session \ {s} : asked'[t] = asked[t]
  PROVE  /\ \A b \in Booking : SessionOf(b) # s => (Busy(b)' <=> Busy(b))
         /\ \A b \in Booking : SessionOf(b) = s => (Busy(b)' <=> to \in Act /\ b = <<s, asked'[s]>>)
  <1>1. \A t \in Session \ {s} : step'[t] = step[t]
    BY DEF At, TypeOK
  <1>2. step'[s] = to
    BY DEF At, TypeOK
  <1>3. ASSUME NEW b \in Booking, SessionOf(b) # s PROVE Busy(b)' <=> Busy(b)
    <2>1. SessionOf(b) \in Session \ {s}
      BY <1>3, BookingParts
    <2> QED BY <1>1, <2>1 DEF Busy, Running, Current
  <1>4. ASSUME NEW b \in Booking, SessionOf(b) = s
        PROVE  Busy(b)' <=> to \in Act /\ b = <<s, asked'[s]>>
    BY <1>2, <1>4 DEF Busy, Running, Current
  <1> QED BY <1>3, <1>4

(* A session's move is a request, an answer, a death, or nothing at all.   *)
LEMMA MovesRefine ==
  ASSUME TypeOK, TypeOK', NEW s \in Session, Moves(s)
  PROVE  Contract!Next \/ UNCHANGED <<row, feed, told, BusyNow, aborted>>
  <1>0. /\ \A o \in Offer : <<s, o>> \in Booking /\ SessionOf(<<s, o>>) = s
        /\ Current(s) = <<s, asked[s]>> /\ asked[s] \in Offer /\ asked'[s] \in Offer
    BY BookingParts DEF Current, TypeOK
  <1>1. UNCHANGED <<row, feed>>
    BY DEF Moves, SagaBegins, SagaGoesOn, SagaAnswers, SagaDies, RunReplaced, At, stores
  <1>2. CASE SagaBegins(s)
    <2>1. PICK b \in Booking : b = <<s, asked'[s]>> /\ SessionOf(b) = s
      BY <1>0
    <2>2. \A t \in Session \ {s} : asked'[t] = asked[t]
      BY <1>2 DEF SagaBegins, TypeOK
    <2>3. BusyNow' = BusyNow \union {b} /\ b \notin BusyNow
      <3>1. \A c \in Booking : SessionOf(c) = s => ~Busy(c)
        BY <1>2 DEF SagaBegins, Busy, Running, Act, Micro, Notify
      <3>2. \A c \in Booking : Busy(c)' <=> Busy(c) \/ c = b
        BY <1>2, <2>1, <2>2, <3>1, BusyMoves DEF SagaBegins, Act, Micro
      <3> QED BY <2>1, <3>1, <3>2 DEF BusyNow
    <2>4. Contract!Ask(b)
      BY <1>1, <1>2, <2>3 DEF Contract!Ask, BusyNow, SagaBegins
    <2> QED BY <2>4 DEF Contract!Next
  <1>3. CASE SagaGoesOn(s)
    <2>1. \A b \in Booking : Busy(b)' <=> Busy(b)
      <3>1. PICK act \in Act : At(s, act)
        BY <1>3 DEF SagaGoesOn
      <3>2. \A b \in Booking : SessionOf(b) = s => (Busy(b) <=> b = <<s, asked[s]>>)
        BY <1>0, <1>3 DEF SagaGoesOn, Busy
      <3>3. UNCHANGED asked
        BY <1>3 DEF SagaGoesOn
      <3> QED BY <3>1, <3>2, <3>3, BusyMoves
    <2> QED BY <1>1, <1>3, <2>1 DEF SagaGoesOn, BusyNow
  <1>4. CASE SagaAnswers(s) \/ SagaDies(s)
    <2>1. PICK b \in Booking : b = Current(s) /\ SessionOf(b) = s
      BY <1>0
    <2>2. BusyNow' = BusyNow \ {b} /\ b \in BusyNow
      <3>1. \A c \in Booking : SessionOf(c) = s => (Busy(c) <=> c = b)
        BY <1>4, <2>1 DEF SagaAnswers, SagaDies, Busy
      <3>2. PICK to : At(s, to) /\ to \in {"idle", "dead"}
        BY <1>4 DEF SagaAnswers, SagaDies
      <3>3. to \notin Act
        BY <3>2 DEF Act, Micro, Notify
      <3>4. UNCHANGED asked
        BY <1>4 DEF SagaAnswers, SagaDies
      <3>5. \A c \in Booking : Busy(c)' <=> Busy(c) /\ c # b
        BY <2>1, <3>1, <3>2, <3>3, <3>4, BusyMoves
      <3> QED BY <2>1, <3>1, <3>5 DEF BusyNow
    <2>3. CASE SagaAnswers(s)
      <3>1. PICK status \in {"confirmed", "compensated"} :
               /\ told' = [told EXCEPT ![b] = status]
               /\ \/ status = "confirmed" /\ <<b, "booking_confirmed">> \in feed
                  \/ status = "compensated" /\ row[b] = "cancelled"
        BY <2>1, <2>3 DEF SagaAnswers
      <3>2. Contract!Answer(b, status)
        BY <1>1, <2>2, <2>3, <3>1 DEF Contract!Answer, BusyNow, SagaAnswers
      <3> QED BY <3>2 DEF Contract!Next
    <2>4. CASE SagaDies(s)
      <3>1. Contract!Abort(b)
        BY <1>1, <2>1, <2>2, <2>4 DEF Contract!Abort, BusyNow, SagaDies
      <3> QED BY <3>1 DEF Contract!Next
    <2> QED BY <1>4, <2>3, <2>4
  <1>5. CASE RunReplaced(s)
    <2>1. \A b \in Booking : Busy(b)' <=> Busy(b)
      <3>1. \A b \in Booking : SessionOf(b) = s => ~Busy(b)
        BY <1>5 DEF RunReplaced, Busy, Running, Act, Micro, Notify
      <3>2. At(s, "idle") /\ UNCHANGED asked /\ "idle" \notin Act
        BY <1>5 DEF RunReplaced, Act, Micro, Notify
      <3> QED BY <3>1, <3>2, BusyMoves
    <2> QED BY <1>1, <1>5, <2>1 DEF RunReplaced, BusyNow
  <1> QED BY <1>2, <1>3, <1>4, <1>5 DEF Moves

(* What an attempt does to the stores, somebody answers for.               *)
LEMMA WorkRefines ==
  ASSUME TypeOK, TypeOK', WorkerInv, StubInv, CancelsAccounted, NEW a \in attempts, AttemptWorks(a)
  PROVE  Contract!Next \/ UNCHANGED <<row, feed, told, BusyNow, aborted>>
  <1>1. a.booking \in Booking /\ a.act \in Act
    BY DEF TypeOK, Attempt
  <1>2. UNCHANGED <<told, aborted>> /\ BusyNow' = BusyNow
    BY DEF AttemptWorks, control, BusyNow, Busy, Running, Current
  <1>3. Accounted(a.booking) => Contract!Owned(a.booking)
    BY <1>1 DEF Accounted, Contract!Owned, BusyNow
  <1>4. CASE UpsertConfirmed(a)
    <2>1. CASE row[a.booking] = "none"
      <3>1. Contract!Owned(a.booking)
        BY <1>3, <1>4, <2>1 DEF UpsertConfirmed, StubInv, CreatesAccounted
      <3>2. row' = [row EXCEPT ![a.booking] = "confirmed"] /\ UNCHANGED feed
        BY <1>1, <1>4, <2>1 DEF UpsertConfirmed
      <3>3. Contract!Reserve(a.booking)
        BY <1>2, <2>1, <3>1, <3>2 DEF Contract!Reserve, BusyNow
      <3> QED BY <1>1, <3>3 DEF Contract!Next
    <2>2. CASE row[a.booking] # "none"
      BY <1>1, <1>2, <1>4, <2>2 DEF UpsertConfirmed, TypeOK
    <2> QED BY <2>1, <2>2
  <1>5. CASE CancelRow(a)
    <2>1. CASE row[a.booking] = "confirmed"
      <3>1. Accounted(a.booking)
        <4>1. a.booking \in aborted \/ (/\ step[SessionOf(a.booking)] = "cancel"
                                        /\ a.booking = Current(SessionOf(a.booking)))
          BY <1>5, <2>1 DEF CancelRow, CancelsAccounted, Releasing
        <4> QED BY <4>1 DEF Accounted, Busy, Running, Act, Micro
      <3>2. row' = [row EXCEPT ![a.booking] = "cancelled"] /\ UNCHANGED feed
        BY <1>1, <1>5, <2>1 DEF CancelRow
      <3>3. Contract!Release(a.booking)
        BY <1>2, <1>3, <2>1, <3>1, <3>2 DEF Contract!Release, BusyNow
      <3> QED BY <1>1, <3>3 DEF Contract!Next
    <2>2. CASE row[a.booking] # "confirmed"
      BY <1>1, <1>2, <1>5, <2>2 DEF CancelRow, TypeOK
    <2> QED BY <2>1, <2>2
  <1>6. CASE AppendFeed(a)
    <2>1. UNCHANGED row /\ feed' = feed \union {Entry(a)} /\ a.act \in Notify
      BY <1>6 DEF AppendFeed
    <2>2. CASE a.act = "notify"
      <3>1. row[a.booking] # "none"
        BY <2>2 DEF WorkerInv, RowsBehind
      <3>2. Entry(a) = <<a.booking, "booking_confirmed">>
        BY <2>2 DEF Entry, KindOf
      <3>3. Contract!Announce(a.booking)
        BY <1>2, <2>1, <3>1, <3>2 DEF Contract!Announce, BusyNow
      <3> QED BY <1>1, <3>3 DEF Contract!Next
    <2>3. CASE a.act = "notify_compensated"
      <3>1. row[a.booking] = "cancelled"
        BY <2>3 DEF StubInv, CancelsBehind
      <3>2. Entry(a) = <<a.booking, "booking_compensated">>
        BY <2>3 DEF Entry, KindOf
      <3>3. Contract!AnnounceRelease(a.booking)
        BY <1>2, <2>1, <3>1, <3>2 DEF Contract!AnnounceRelease, BusyNow
      <3> QED BY <1>1, <3>3 DEF Contract!Next
    <2> QED BY <2>1, <2>2, <2>3 DEF Notify
  <1>7. CASE UNCHANGED <<row, feed>>
    BY <1>2, <1>7
  <1> QED BY <1>4, <1>5, <1>6, <1>7 DEF AttemptWorks

(* The saga of the stub worker implements its contract: attempts, retries, *)
(* timeouts, crashes and late writes are invisible to the caller and to    *)
(* the merchant.                                                           *)
THEOREM SagaKeepsContract ==
  ASSUME ~LoopFaults
  PROVE  Spec => ContractSpec
  <1>1. Init => Contract!Init /\ CancelsAccounted
    <2> SUFFICES ASSUME Init PROVE Contract!Init /\ CancelsAccounted
      OBVIOUS
    <2>1. \A b \in Booking : ~Busy(b)
      BY BookingParts DEF Init, Busy, Running, Act, Micro, Notify
    <2>2. {b \in Booking : Busy(b)} = {}
      BY <2>1
    <2> QED BY <2>2 DEF Init, Contract!Init, CancelsAccounted
  <1>2. ASSUME TypeOK, TypeOK', WorkerInv, StubInv, CancelsAccounted, [Next]_vars
        PROVE  CancelsAccounted' /\ [Contract!Next]_(Contract!vars)
    <2>1. CASE Next
      <3>1. \/ Contract!Next
            \/ UNCHANGED <<row, feed, told, BusyNow, aborted>>
            \/ UNCHANGED vars
        BY <1>2, <2>1, StepsMove, MovesRefine, WorkRefines
      <3>2. UNCHANGED vars => UNCHANGED <<row, feed, told, BusyNow, aborted>>
        BY DEF vars, stores, control, BusyNow, Busy, Running, Current
      <3> QED BY <1>2, <3>1, <3>2, CancelsStay DEF Contract!vars, BusyNow
    <2>2. CASE UNCHANGED vars
      BY <1>2, <2>2, CancelsStay
      DEF Contract!vars, vars, stores, control, Busy, Running, Current
    <2> QED BY <1>2, <2>1, <2>2
  <1> QED
    BY <1>1, <1>2, TypeCorrect, WorkerCorrect, StubCorrect, PTL
    DEF Spec, ContractSpec, Contract!Spec
=============================================================================
