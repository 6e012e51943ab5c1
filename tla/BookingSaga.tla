---------------------------- MODULE BookingSaga ----------------------------
(***************************************************************************)
(* The booking saga of a chat session (workflows/saga_booking.py) over the *)
(* two stores it writes: the tenant's booking ledger                       *)
(* (workflows/bookings_store.py) and the merchant's notification feed      *)
(* (tenancy/notifications.py, through microagents/tools/notify.py).        *)
(*                                                                         *)
(* Every step of the saga is a Temporal activity.  The server hands an     *)
(* attempt to a worker and waits; when the attempt raises, or its          *)
(* start_to_close timeout passes, the server starts the next attempt until *)
(* the retry policy is exhausted.  An attempt the server no longer waits   *)
(* for is not stopped: it may still perform its write, long after the saga *)
(* has moved on.  So the attempts are a set of independent actors, and the *)
(* saga is a small state machine that listens to the current one only.     *)
(***************************************************************************)
EXTENDS Naturals, FiniteSets

CONSTANTS
  Session,             \* chat sessions of one tenant
  Offer,               \* (business_id, slot) pairs a session may confirm
  LoopFaults,          \* TRUE: production worker, the micro-agent loop may
                       \* answer with an error result; FALSE: the stub
                       \* worker, whose create and cancel run the tool code
  MicroagentAttempts,  \* maximum_attempts of create_booking, cancel_booking
  NotifyAttempts,      \* maximum_attempts of notify_booking
  MaxRounds,           \* bound: sagas one session runs
  MaxAlive             \* bound: no timeout abandons an attempt while this
                       \* many are alive

ASSUME ConstantsAssumption ==
  /\ LoopFaults \in BOOLEAN
  /\ MicroagentAttempts \in Nat \ {0}
  /\ NotifyAttempts \in Nat \ {0}
  /\ MaxRounds \in Nat
  /\ MaxAlive \in Nat

VARIABLES
  row,       \* ledger: booking -> "none" | "confirmed" | "cancelled"
  feed,      \* feed entries, identified as in the code by (booking, kind)
  sent,      \* times email and push were fired for a (booking, kind)
  step,      \* session -> the saga step its run is awaiting
  asked,     \* session -> the offer of its current (or last) saga
  try,       \* session -> number of the attempt the server waits for
  round,     \* session -> sagas begun so far
  attempts,  \* activity attempts alive on some worker
  told,      \* booking -> status of the last SagaResult returned for it
  aborted    \* history: bookings whose saga died with an ActivityError

stores == <<row, feed, sent>>
control == <<step, asked, try, round, told, aborted>>
vars == <<stores, control, attempts>>

-----------------------------------------------------------------------------
(* The ledger's primary key is a digest of the idempotency key, and that   *)
(* key is (session, business, slot): a booking is identified by the parts. *)
Booking == Session \X Offer

SessionOf(b) == b[1]

Micro == {"create", "cancel"}
Notify == {"notify", "notify_compensated"}
Act == Micro \union Notify
Kind == {"booking_confirmed", "booking_compensated"}
Phase == {"ready", "send", "done", "error"}
Outcome == {"confirmed", "compensated", "failed"}

KindOf(act) == IF act = "notify" THEN "booking_confirmed" ELSE "booking_compensated"

MaxAttempts(act) == IF act \in Micro THEN MicroagentAttempts ELSE NotifyAttempts

Attempt == [booking : Booking, round : Nat, act : Act, try : Nat, phase : Phase]

NewAttempt(b, r, act, n) ==
  [booking |-> b, round |-> r, act |-> act, try |-> n, phase |-> "ready"]

Entry(a) == <<a.booking, KindOf(a.act)>>

Current(s) == <<s, asked[s]>>

(* The server still waits for attempt a.                                   *)
Awaited(a) ==
  LET s == SessionOf(a.booking) IN
  /\ a.booking = Current(s)
  /\ a.round = round[s]
  /\ a.act = step[s]
  /\ a.try = try[s]

Running(s) == step[s] \in Act

Init ==
  /\ row = [b \in Booking |-> "none"]
  /\ feed = {}
  /\ sent = [p \in Booking \X Kind |-> 0]
  /\ step = [s \in Session |-> "idle"]
  /\ asked \in [Session -> Offer]
  /\ try = [s \in Session |-> 0]
  /\ round = [s \in Session |-> 0]
  /\ attempts = {}
  /\ told = [b \in Booking |-> "none"]
  /\ aborted = {}

-----------------------------------------------------------------------------
(* The workflow side: what run_booking_saga does when an activity is       *)
(* scheduled, answers, or is given up.                                     *)

Schedule(s, act, n, others) ==
  /\ step' = [step EXCEPT ![s] = act]
  /\ try' = [try EXCEPT ![s] = n]
  /\ attempts' = others \union {NewAttempt(<<s, asked'[s]>>, round'[s], act, n)}

(* The session's confirm branch calls run_booking_saga for one offer.      *)
BeginSaga(s, o) ==
  /\ step[s] = "idle"
  /\ round[s] < MaxRounds
  /\ asked' = [asked EXCEPT ![s] = o]
  /\ round' = [round EXCEPT ![s] = @ + 1]
  /\ Schedule(s, "create", 1, attempts)
  /\ UNCHANGED <<stores, told, aborted>>

Return(s, status, others) ==
  /\ step' = [step EXCEPT ![s] = "idle"]
  /\ try' = [try EXCEPT ![s] = 0]
  /\ told' = [told EXCEPT ![Current(s)] = status]
  /\ attempts' = others
  /\ UNCHANGED <<asked, round, aborted>>

Continue(s, act, others) ==
  /\ UNCHANGED <<asked, round, told, aborted>>
  /\ Schedule(s, act, 1, others)

(* Mistake: the dead run is left in a state no reconnection knows.         *)
FailRunForGood(s, others) ==
  /\ step' = [step EXCEPT ![s] = "failed"]
  /\ try' = [try EXCEPT ![s] = 0]
  /\ aborted' = aborted \union {Current(s)}
  /\ attempts' = others
  /\ UNCHANGED <<asked, round, told>>

(* An ActivityError nobody catches fails the whole workflow run: `except   *)
(* ApplicationError` around the cancel does not match it.                  *)
FailRun(s, others) ==
  /\ step' = [step EXCEPT ![s] = "dead"]
  /\ try' = [try EXCEPT ![s] = 0]
  /\ aborted' = aborted \union {Current(s)}
  /\ attempts' = others
  /\ UNCHANGED <<asked, round, told>>

OnResult(s, phase, others) ==
  \/ step[s] = "create" /\ phase = "done" /\ Continue(s, "notify", others)
  \/ step[s] = "create" /\ phase = "error" /\ Return(s, "failed", others)
  \/ step[s] = "notify" /\ Return(s, "confirmed", others)
  \/ step[s] = "cancel" /\ Continue(s, "notify_compensated", others)
  \/ step[s] = "notify_compensated" /\ Return(s, "compensated", others)

(* Mistakes: after a lost notification the booking is kept as confirmed,   *)
(* is reported failed but never released, or is announced as rolled back   *)
(* without the cancel.                                                     *)
KeepOnNotifyError(s, others) ==
  \/ step[s] \in Micro /\ FailRun(s, others)
  \/ step[s] = "notify" /\ Return(s, "confirmed", others)
  \/ step[s] = "notify_compensated" /\ Return(s, "compensated", others)

FailOnNotifyError(s, others) ==
  \/ step[s] \in Micro /\ FailRun(s, others)
  \/ step[s] = "notify" /\ Return(s, "failed", others)
  \/ step[s] = "notify_compensated" /\ Return(s, "compensated", others)

SkipCancel(s, others) ==
  \/ step[s] \in Micro /\ FailRun(s, others)
  \/ step[s] = "notify" /\ Continue(s, "notify_compensated", others)
  \/ step[s] = "notify_compensated" /\ Return(s, "compensated", others)

OnActivityError(s, others) ==
  \/ step[s] \in Micro /\ FailRun(s, others)
  \/ step[s] = "notify" /\ Continue(s, "cancel", others)
  \/ step[s] = "notify_compensated" /\ Return(s, "compensated", others)

(* Mistake: an attempt is repeated without being counted.                  *)
RetryUncounted(s, others) ==
  /\ UNCHANGED <<asked, round, told, aborted>>
  /\ Schedule(s, step[s], try[s], others)

RetryOrGiveUp(s, others) ==
  \/ /\ try[s] < MaxAttempts(step[s])
     /\ UNCHANGED <<asked, round, told, aborted>>
     /\ Schedule(s, step[s], try[s] + 1, others)
  \/ /\ try[s] >= MaxAttempts(step[s])
     /\ OnActivityError(s, others)

(* start_to_close passes; the abandoned attempt lives on.                  *)
TimeOut(s) ==
  /\ Running(s)
  /\ Cardinality(attempts) < MaxAlive
  /\ RetryOrGiveUp(s, attempts)
  /\ UNCHANGED stores

(* The next connection starts a fresh run under the same workflow id.      *)
RestartRun(s) ==
  /\ step[s] = "dead"
  /\ step' = [step EXCEPT ![s] = "idle"]
  /\ UNCHANGED <<stores, asked, try, round, told, aborted, attempts>>

-----------------------------------------------------------------------------
(* The worker side: what one attempt does, awaited or not.                 *)

Enter(a, phase) == attempts' = (attempts \ {a}) \union {[a EXCEPT !.phase = phase]}

(* Mistake: an upsert that overwrites the row's status.                    *)
UpsertRevives(a) ==
  /\ a.act = "create" /\ a.phase = "ready"
  /\ row' = [row EXCEPT ![a.booking] = "confirmed"]
  /\ Enter(a, "done")
  /\ UNCHANGED <<feed, sent, control>>

(* bookings_upsert: an existing row of the key is returned as it is.       *)
UpsertConfirmed(a) ==
  /\ a.act = "create" /\ a.phase = "ready"
  /\ row' = [row EXCEPT ![a.booking] = IF @ = "none" THEN "confirmed" ELSE @]
  /\ Enter(a, "done")
  /\ UNCHANGED <<feed, sent, control>>

(* bookings_cancel: 'not_found' and 'already_cancelled' change nothing.    *)
CancelRow(a) ==
  /\ a.act = "cancel" /\ a.phase = "ready"
  /\ row' = [row EXCEPT ![a.booking] = IF @ = "confirmed" THEN "cancelled" ELSE @]
  /\ Enter(a, "done")
  /\ UNCHANGED <<feed, sent, control>>

(* Mistake: email and push are fired whether or not the append was new.    *)
AppendUngated(a) ==
  /\ a.act \in Notify /\ a.phase = "ready"
  /\ feed' = feed \union {Entry(a)}
  /\ Enter(a, "send")
  /\ UNCHANGED <<row, sent, control>>

(* notify_send, first half: the feed append and its dedup gate.            *)
AppendFeed(a) ==
  /\ a.act \in Notify /\ a.phase = "ready"
  /\ feed' = feed \union {Entry(a)}
  /\ Enter(a, IF Entry(a) \in feed THEN "done" ELSE "send")
  /\ UNCHANGED <<row, sent, control>>

(* notify_send, second half: best-effort email and push, errors swallowed. *)
SendEmailAndPush(a) ==
  /\ a.phase = "send"
  /\ sent' = [sent EXCEPT ![Entry(a)] = @ + 1]
  /\ Enter(a, "done")
  /\ UNCHANGED <<row, feed, control>>

(* run_skill returns output {} with an error (a failed model call, too     *)
(* many steps), before or after the tool ran; run_microagent passes it on. *)
LoopError(a) ==
  /\ LoopFaults
  /\ a.act \in Micro /\ a.phase \in {"ready", "done"}
  /\ Enter(a, "error")
  /\ UNCHANGED <<stores, control>>

(* The attempt completes; only the awaited one is listened to.             *)
Report(a) ==
  /\ a.phase \in {"done", "error"}
  /\ \/ Awaited(a) /\ OnResult(SessionOf(a.booking), a.phase, attempts \ {a})
     \/ ~Awaited(a) /\ attempts' = attempts \ {a} /\ UNCHANGED control
  /\ UNCHANGED stores

(* The attempt raises: a store error before its write, or, in the          *)
(* production micro-agent, remember_turn failing after it.                 *)
Raise(a) ==
  /\ a.phase = "ready" \/ (LoopFaults /\ a.act \in Micro /\ a.phase = "done")
  /\ \/ Awaited(a) /\ RetryOrGiveUp(SessionOf(a.booking), attempts \ {a})
     \/ ~Awaited(a) /\ attempts' = attempts \ {a} /\ UNCHANGED control
  /\ UNCHANGED stores

(* A run started with force_fail_step = "notify": the stub's notify raises *)
(* a non-retryable error, which is not retried.                            *)
ForceFail(a) ==
  /\ ~LoopFaults
  /\ a.act = "notify" /\ a.phase = "ready"
  /\ \/ Awaited(a) /\ OnActivityError(SessionOf(a.booking), attempts \ {a})
     \/ ~Awaited(a) /\ attempts' = attempts \ {a} /\ UNCHANGED control
  /\ UNCHANGED stores

(* The worker process dies with the attempt, at any point of it.           *)
CrashAttempt(a) ==
  /\ attempts' = attempts \ {a}
  /\ UNCHANGED <<stores, control>>

AttemptStep(a) ==
  \/ UpsertConfirmed(a)
  \/ CancelRow(a)
  \/ AppendFeed(a)
  \/ SendEmailAndPush(a)
  \/ LoopError(a)
  \/ Report(a)
  \/ Raise(a)
  \/ ForceFail(a)
  \/ CrashAttempt(a)

SessionStep(s) ==
  \/ \E o \in Offer : BeginSaga(s, o)
  \/ TimeOut(s)
  \/ RestartRun(s)

(* Nothing left to do within the bound on rounds.                          *)
Quiescent ==
  /\ attempts = {}
  /\ \A s \in Session : step[s] = "idle" /\ round[s] = MaxRounds
  /\ UNCHANGED vars

Next ==
  \/ \E s \in Session : SessionStep(s)
  \/ \E a \in attempts : AttemptStep(a)
  \/ Quiescent

Spec == Init /\ [][Next]_vars

(* The server's timers fire.  Nothing else is assumed: no worker makes     *)
(* progress, no user comes back.                                           *)
Fairness == \A s \in Session : WF_vars(TimeOut(s))

FairSpec == Spec /\ Fairness

-----------------------------------------------------------------------------
TypeOK ==
  /\ row \in [Booking -> {"none", "confirmed", "cancelled"}]
  /\ feed \subseteq Booking \X Kind
  /\ sent \in [Booking \X Kind -> Nat]
  /\ step \in [Session -> Act \union {"idle", "dead"}]
  /\ asked \in [Session -> Offer]
  /\ try \in [Session -> Nat]
  /\ round \in [Session -> Nat]
  /\ attempts \subseteq Attempt
  /\ told \in [Booking -> Outcome \union {"none"}]
  /\ aborted \subseteq Booking

(* A saga that returns "confirmed" has recorded the booking in the         *)
(* merchant's feed, whatever attempts were retried, lost or late           *)
(* (notify_booking must succeed before run_booking_saga returns l.162).    *)
ConfirmedWasNotified ==
  \A b \in Booking :
    told[b] = "confirmed" => <<b, "booking_confirmed">> \in feed

(* The merchant never reads of a booking the ledger does not hold: a feed  *)
(* entry of either kind exists only for a row that create_booking wrote.   *)
NoticesHaveRows ==
  \A p \in feed : row[p[1]] # "none"

(* The dedup gate of the feed keeps retried, concurrent and late attempts  *)
(* from firing the email and the push of one event twice.                  *)
SentAtMostOnce ==
  \A p \in Booking \X Kind : sent[p] <= 1

(* A saga that returns "compensated" has really released the booking, also *)
(* against attempts of create_booking that land afterwards.                *)
CompensatedIsReleased ==
  \A b \in Booking : told[b] = "compensated" => row[b] = "cancelled"

(* The merchant is told of a rollback only when the row is cancelled.      *)
CompensationNoticeIsTrue ==
  \A b \in Booking :
    <<b, "booking_compensated">> \in feed => row[b] = "cancelled"

(* A booking whose saga is at work, or died at work.                       *)
Busy(b) == Running(SessionOf(b)) /\ b = Current(SessionOf(b))
Accounted(b) == b \in aborted \/ Busy(b)

(* A confirmed row nobody was told about exists only while its saga runs,  *)
(* or after the run died with an uncaught ActivityError.                   *)
NoSilentReservation ==
  \A b \in Booking :
    row[b] = "confirmed" => told[b] = "confirmed" \/ Accounted(b)

(* A cancelled booking never comes back, whatever late or repeated         *)
(* create_booking attempt reaches the ledger.                              *)
CancelledIsFinal ==
  [][\A b \in Booking : row[b] = "cancelled" => row'[b] = "cancelled"]_vars

(* Every saga ends, with a result or with its run, however many attempts   *)
(* hang or die: the retry policies bound them.                             *)
SagaEnds ==
  \A s \in Session : Running(s) ~> ~Running(s)

-----------------------------------------------------------------------------
(* The inductive strengthening of the invariants above.                    *)

(* A step past create_booking, or an attempt of one, implies the row.      *)
RowsBehind ==
  /\ \A s \in Session : step[s] \in Act \ {"create"} => row[Current(s)] # "none"
  /\ \A a \in attempts :
       a.act # "create" \/ a.phase = "done" => row[a.booking] # "none"

(* A notify attempt past its append implies the entry.                     *)
EntriesBehind ==
  /\ \A a \in attempts : a.act \in Notify /\ a.phase # "ready" => Entry(a) \in feed
  /\ \A a \in attempts : a.act \in Notify => a.phase # "error"
  /\ \A a \in attempts : a.act \in Micro => a.phase # "send"

(* Email and push of an entry belong to the one attempt that created it.   *)
OneSender ==
  /\ \A p \in Booking \X Kind : p \notin feed => sent[p] = 0
  /\ \A a \in attempts : a.phase = "send" => sent[Entry(a)] = 0
  /\ \A a, c \in attempts :
       a.phase = "send" /\ c.phase = "send" /\ Entry(a) = Entry(c) => a = c

(* Inductive on any worker: the feed, the ledger, the attempts in flight   *)
(* and the answers given agree (the saga's order create, notify, answer).  *)
WorkerInv ==
  /\ RowsBehind
  /\ EntriesBehind
  /\ OneSender
  /\ ConfirmedWasNotified
  /\ NoticesHaveRows
  /\ SentAtMostOnce

(* On the stub worker a completed cancel has cancelled.                    *)
CancelsBehind ==
  /\ \A s \in Session : step[s] = "notify_compensated" => row[Current(s)] = "cancelled"
  /\ \A a \in attempts :
       \/ a.act = "cancel" /\ a.phase = "done"
       \/ a.act = "notify_compensated"
       => row[a.booking] = "cancelled"

(* A late create_booking can only write a row its own saga accounts for.   *)
CreatesAccounted ==
  \A a \in attempts :
    a.act = "create" => row[a.booking] # "none" \/ Accounted(a.booking)

(* Inductive on the stub worker, with WorkerInv: what a rollback claims    *)
(* has happened to the row.                                                *)
StubInv ==
  /\ \A a \in attempts : a.phase # "error"
  /\ CancelsBehind
  /\ CreatesAccounted
  /\ CompensatedIsReleased
  /\ CompensationNoticeIsTrue
  /\ NoSilentReservation

-----------------------------------------------------------------------------
(* The saga of the stub worker implements the contract: attempts, retries  *)
(* and timeouts are invisible to the caller and to the merchant.           *)
Contract == INSTANCE BookingContract WITH
  busy <- {b \in Booking : Busy(b)}

ContractSpec == Contract!Spec

-----------------------------------------------------------------------------
(* What the repository's words say and the code does not do.               *)

(* A booking reported as confirmed is confirmed in the ledger              *)
(* (microagents/tools/bookings.py:98, workflows/session.py:441).           *)
ConfirmedIsHeld ==
  [][\A b \in Booking :
       told[b] # "confirmed" /\ told'[b] = "confirmed" => row'[b] = "confirmed"]_vars

(* A failing cancel is surfaced as the saga's result "failed"              *)
(* (workflows/saga_booking.py:151), not by the death of the run.           *)
CancelFailureIsReported ==
  [][\A s \in Session : step[s] = "cancel" => step'[s] # "dead"]_vars

=============================================================================
