-------------------------- MODULE CallbackDelivery --------------------------
(***************************************************************************)
(* Callback delivery: CallbackDispatcher (parser_serve/control/callbacks.py)*)
(* over CallbackRepository (parser_serve/persistence/callbacks.py).        *)
(*                                                                         *)
(* The handlers publish events in the transactions that change a task.  A  *)
(* dispatcher makes its passes over them: it materializes a delivery for   *)
(* each event that the task's callback subscribes to, claims one due       *)
(* delivery after the other, sends the request and records the result.     *)
(* Several control planes each run a dispatcher; the endpoint that lists   *)
(* deliveries materializes as well.  A process may crash between any two   *)
(* of these steps; a claim that has timed out is taken over.               *)
(*                                                                         *)
(* Time is relative, so that it need not be bounded: a pass knows how long *)
(* ago it began (`current` is read once, at its beginning, and stands for  *)
(* the time in all that it writes), a claim how long ago its updated_at    *)
(* was, a retry how long it still has to wait.                             *)
(***************************************************************************)
EXTENDS Integers, FiniteSets

CONSTANTS
  Events,             \* task events
  Tasks,
  TaskOf,             \* the task an event is about
  Failures,           \* the events that report a task's failure
  Subscribed,         \* the events that their task's callback subscribes to
  Dispatchers,        \* the dispatchers of the control planes
  Listers,            \* sessions of the endpoint that lists deliveries
  NoEvent,
  MaximumAttempts,    \* callback_maximum_attempts
  ClaimTimeout,       \* claim_timeout_seconds
  InitialRetry, MaximumRetry,   \* of the backoff
  BatchSize,          \* claims of one pass
  MaterializeLimit,   \* events materialized by one transaction
  MaxPass,            \* bound: duration of a pass
  MaxResends,         \* bound: manual resends of a delivery
  MaxCrashes          \* bound: crashes of a session

Sessions == Dispatchers \cup Listers

ASSUME EventsAssumption ==
  /\ TaskOf \in [Events -> Tasks]
  /\ Failures \subseteq Events /\ Subscribed \subseteq Events
  /\ NoEvent \notin Events
ASSUME LimitsAssumption ==
  /\ MaximumAttempts \in Nat \ {0} /\ ClaimTimeout \in Nat \ {0}
  /\ InitialRetry \in Nat /\ MaximumRetry \in Nat
  /\ BatchSize \in Nat \ {0} /\ MaterializeLimit \in Nat \ {0}
  /\ MaxPass \in Nat /\ MaxResends \in Nat /\ MaxCrashes \in Nat
ASSUME BackoffAssumption == \A a \in 0..MaximumAttempts : 2^a \in Nat

VARIABLES
  log,        \* the event rows: unpublished, new or callback_processed
  failed,     \* the task rows: error_payload has a value
  delivery,   \* the delivery row of each event
  audits,     \* the attempt rows of each delivery
  received,   \* the receiver has accepted the event
  pass,       \* what each session is doing
  resends,    \* manual resends so far
  crashes     \* crashes so far

vars == <<log, failed, delivery, audits, received, pass, resends, crashes>>

Outcomes == {"delivered", "retryable", "permanent"}

DeliveryStatuses ==
  {"none", "pending", "delivering", "retry_wait", "succeeded", "failed"}

(* age counts from updated_at while a claim is open, wait up to            *)
(* next_attempt_at while a retry is, born from created_at; backdated says  *)
(* that updated_at precedes created_at; "none" is the lack of a row.       *)
Deliveries ==
  [status : DeliveryStatuses, attempt : Nat, sequence : Nat, age : Nat,
   wait : Int, born : Nat, backdated : BOOLEAN]

NoDelivery ==
  [status |-> "none", attempt |-> 0, sequence |-> 0, age |-> 0, wait |-> 0,
   born |-> 0, backdated |-> FALSE]

Audits == [sequence : Nat, outcome : Outcomes]

Phases == {"idle", "reading", "claiming", "sending", "answered"}

Passes ==
  [phase : Phases, age : Nat,
   batch : SUBSET Events, mapped : SUBSET Events, left : Nat,
   event : Events \cup {NoEvent}, sequence : Nat, outcome : Outcomes \cup {"none"}]

IdlePass ==
  [phase |-> "idle", age |-> 0, batch |-> {}, mapped |-> {}, left |-> 0,
   event |-> NoEvent, sequence |-> 0, outcome |-> "none"]

Claims(c) == pass[c].phase \in {"sending", "answered"}

-----------------------------------------------------------------------------
(* A handler of the task publishes an event. *)
Publish(e) ==
  /\ log[e] = "unpublished"
  /\ e \in Failures => ~failed[TaskOf[e]]
  /\ log' = [log EXCEPT ![e] = "new"]
  /\ failed' = [failed EXCEPT ![TaskOf[e]] = @ \/ e \in Failures]
  /\ UNCHANGED <<delivery, audits, received, pass, resends, crashes>>

(* TaskRepository.retry clears error_payload. *)
RetryTask(t) ==
  /\ failed[t]
  /\ failed' = [failed EXCEPT ![t] = FALSE]
  /\ UNCHANGED <<log, delivery, audits, received, pass, resends, crashes>>

-----------------------------------------------------------------------------
Ready == {e \in Events : log[e] = "new" /\ delivery[e].status = "none"}

(* _callback_event: the events of a batch for which there is a callback. A *)
(* failure without an error any more has none.                             *)
Mapped(batch) ==
  {e \in batch \cap Subscribed : e \in Failures => failed[TaskOf[e]]}

(* A pass begins: materialize reads its batch and the tasks. *)
BeginPass(c) ==
  /\ pass[c].phase = "idle"
  /\ \E batch \in SUBSET Ready :
       /\ Cardinality(batch) <= MaterializeLimit
       /\ batch = Ready \/ Cardinality(batch) = MaterializeLimit
       /\ pass' = [pass EXCEPT ![c].phase = "reading", ![c].age = 0,
                               ![c].batch = batch, ![c].mapped = Mapped(batch)]
  /\ UNCHANGED <<log, failed, delivery, audits, received, resends, crashes>>

AfterMaterialize(c) ==
  IF c \in Dispatchers
    THEN [IdlePass EXCEPT !.phase = "claiming", !.age = pass[c].age,
                          !.left = BatchSize]
    ELSE IdlePass

(* Definitions named X_... are faulty variants of X: the mutants that show *)
(* each property can fail.                                                 *)

(* The unique key over event_id: a delivery of the batch exists by now. *)
KeyTaken(c) == \E e \in pass[c].mapped : delivery[e].status # "none"

(* What the transaction of materialize leaves behind; an IntegrityError    *)
(* rolls all of it back.                                                   *)
Processed_before_rollback(c) == pass[c].batch

Processed_unless_created(c) ==
  IF KeyTaken(c) THEN {} ELSE pass[c].batch \ pass[c].mapped

Processed(c) == IF KeyTaken(c) THEN {} ELSE pass[c].batch

Created(c) == IF KeyTaken(c) THEN {} ELSE pass[c].mapped

Materialize(c) ==
  /\ pass[c].phase = "reading"
  /\ log' = [e \in Events |-> IF e \in Processed(c) THEN "processed" ELSE log[e]]
  /\ delivery' = [e \in Events |->
                    IF e \in Created(c)
                      THEN [NoDelivery EXCEPT !.status = "pending",
                                              !.born = pass[c].age]
                      ELSE delivery[e]]
  /\ pass' = [pass EXCEPT ![c] = AfterMaterialize(c)]
  /\ UNCHANGED <<failed, audits, received, resends, crashes>>

-----------------------------------------------------------------------------
Stale(e, c) ==
  delivery[e].status = "delivering" /\ delivery[e].age - pass[c].age >= ClaimTimeout

Spent(r) == r.attempt >= MaximumAttempts

Exhausted_never(c) == {}

Exhausted(c) == {e \in Events : Stale(e, c) /\ Spent(delivery[e])}

Due(c) ==
  {e \in Events :
     \/ delivery[e].status = "pending"
     \/ delivery[e].status = "retry_wait" /\ delivery[e].wait + pass[c].age <= 0
     \/ Stale(e, c) /\ ~Spent(delivery[e])}

(* What a pass makes of a row; the pass began age ago.  *)
GivenUp(r, age) ==
  [r EXCEPT !.status = "failed", !.age = 0, !.backdated = age > r.born]

ClaimedDelivery_same_sequence(r, age) ==
  [r EXCEPT !.status = "delivering", !.attempt = r.attempt + 1,
            !.sequence = IF r.status = "delivering" THEN r.sequence
                                                    ELSE r.sequence + 1,
            !.age = age, !.wait = 0, !.backdated = age > r.born]

ClaimedDelivery(r, age) ==
  [r EXCEPT !.status = "delivering", !.attempt = r.attempt + 1,
            !.sequence = r.sequence + 1, !.age = age, !.wait = 0,
            !.backdated = age > r.born]

(* claim_due gives up one exhausted claim and claims one due delivery; a   *)
(* pass that finds none due ends.                                          *)
Claim(c) ==
  /\ pass[c].phase = "claiming"
  /\ \E lost \in SUBSET Exhausted(c) :
       /\ lost = {} <=> Exhausted(c) = {}
       /\ Cardinality(lost) <= 1
       /\ \/ /\ Due(c) = {}
             /\ delivery' = [e \in Events |-> IF e \in lost
                                                THEN GivenUp(delivery[e], pass[c].age)
                                                ELSE delivery[e]]
             /\ pass' = [pass EXCEPT ![c] = IdlePass]
          \/ \E due \in Due(c) :
             /\ delivery' = [e \in Events |->
                               IF e = due
                                 THEN ClaimedDelivery(delivery[e], pass[c].age)
                                 ELSE IF e \in lost THEN GivenUp(delivery[e], pass[c].age)
                                                    ELSE delivery[e]]
             /\ pass' = [pass EXCEPT ![c].phase = "sending", ![c].event = due,
                                     ![c].sequence = delivery'[due].sequence]
  /\ UNCHANGED <<log, failed, audits, received, resends, crashes>>

(* The request: a 2xx answer; another answer, a timeout or an error of the *)
(* connection, after which nobody knows whether it has been received; or   *)
(* no request at all, for an unsafe URL or a task that has gone.           *)
Deliver(c) ==
  /\ pass[c].phase = "sending"
  /\ \E outcome \in Outcomes :
       /\ pass' = [pass EXCEPT ![c].phase = "answered", ![c].outcome = outcome]
       /\ \/ outcome # "permanent"
             /\ received' = received \cup {pass[c].event}
          \/ outcome # "delivered" /\ received' = received
  /\ UNCHANGED <<log, failed, delivery, audits, resends, crashes>>

RetryDelay(attempt) ==
  LET delay == InitialRetry * 2^(IF attempt > 0 THEN attempt - 1 ELSE 0)
  IN IF delay < MaximumRetry THEN delay ELSE MaximumRetry

(* What record_result makes of the row, for a pass that began age ago. *)
RecordedDelivery(r, outcome, age) ==
  LET updated == [r EXCEPT !.age = 0, !.backdated = age > r.born]
  IN CASE outcome = "delivered" ->
            [updated EXCEPT !.status = "succeeded", !.wait = 0]
       [] outcome = "retryable" /\ ~Spent(r) ->
            [updated EXCEPT !.status = "retry_wait",
                            !.wait = RetryDelay(r.attempt) - age]
       [] outcome = "permanent" \/ (outcome = "retryable" /\ Spent(r)) ->
            [updated EXCEPT !.status = "failed", !.wait = 0]

(* The claim of a pass is the last one of its delivery. *)
ClaimIsCurrent_unchecked(c) == TRUE

ClaimIsCurrent(c) == delivery[pass[c].event].sequence = pass[c].sequence

(* record_result: the attempt is audited in any case; the delivery follows *)
(* it when the claim is still the last one.                                *)
Record(c) ==
  LET e == pass[c].event
  IN /\ pass[c].phase = "answered"
     /\ audits' = [audits EXCEPT
          ![e] = @ \cup {[sequence |-> pass[c].sequence,
                          outcome |-> pass[c].outcome]}]
     /\ delivery' = IF ClaimIsCurrent(c)
                      THEN [delivery EXCEPT
                              ![e] = RecordedDelivery(delivery[e], pass[c].outcome,
                                                      pass[c].age)]
                      ELSE delivery
     /\ pass' = [pass EXCEPT
                   ![c] = IF pass[c].left > 1
                            THEN [IdlePass EXCEPT !.phase = "claiming",
                                                  !.age = pass[c].age,
                                                  !.left = pass[c].left - 1]
                            ELSE IdlePass]
     /\ UNCHANGED <<log, failed, received, resends, crashes>>

(* The process dies; a request that was under way may have been received. *)
Crash(c) ==
  /\ pass[c].phase # "idle" /\ crashes[c] < MaxCrashes
  /\ crashes' = [crashes EXCEPT ![c] = @ + 1]
  /\ pass' = [pass EXCEPT ![c] = IdlePass]
  /\ \/ received' = received
     \/ pass[c].phase = "sending" /\ received' = received \cup {pass[c].event}
  /\ UNCHANGED <<log, failed, delivery, audits, resends>>

(* The manual resend of a delivery (CallbackRepository.retry). *)
ResentDelivery_keeps_attempt(r) ==
  [r EXCEPT !.status = "pending", !.backdated = FALSE]

ResentDelivery(r) ==
  [r EXCEPT !.status = "pending", !.attempt = 0, !.backdated = FALSE]

retry(e) ==
  /\ delivery[e].status \in {"failed", "succeeded"}
  /\ resends[e] < MaxResends
  /\ resends' = [resends EXCEPT ![e] = @ + 1]
  /\ delivery' = [delivery EXCEPT ![e] = ResentDelivery(delivery[e])]
  /\ UNCHANGED <<log, failed, audits, received, pass, crashes>>

(* Time passes.  Ages and waits beyond the last that is told apart stay.   *)
Tick ==
  /\ \A c \in Sessions : pass[c].age < MaxPass
  /\ pass' = [c \in Sessions |->
                IF pass[c].phase = "idle" THEN pass[c]
                ELSE [pass[c] EXCEPT !.age = @ + 1]]
  /\ delivery' = [e \in Events |->
       LET r == delivery[e]
       IN [r EXCEPT
             !.age = IF r.status = "delivering" /\ r.age < MaxPass + ClaimTimeout
                       THEN r.age + 1 ELSE r.age,
             !.wait = IF r.status = "retry_wait" /\ r.wait > -MaxPass
                        THEN r.wait - 1 ELSE r.wait,
             !.born = IF r.status # "none" /\ r.born < MaxPass
                        THEN r.born + 1 ELSE r.born]]
  /\ UNCHANGED <<log, failed, audits, received, resends, crashes>>

-----------------------------------------------------------------------------
Init ==
  /\ log = [e \in Events |-> "unpublished"]
  /\ failed = [t \in Tasks |-> FALSE]
  /\ delivery = [e \in Events |-> NoDelivery]
  /\ audits = [e \in Events |-> {}]
  /\ received = {}
  /\ pass = [c \in Sessions |-> IdlePass]
  /\ resends = [e \in Events |-> 0]
  /\ crashes = [c \in Sessions |-> 0]

(* The next step of run_once. *)
Step(c) == BeginPass(c) \/ Materialize(c) \/ Claim(c) \/ Deliver(c) \/ Record(c)

Next ==
  \/ \E e \in Events : Publish(e) \/ retry(e)
  \/ \E t \in Tasks : RetryTask(t)
  \/ \E c \in Sessions : Step(c) \/ Crash(c)
  \/ Tick

Spec == Init /\ [][Next]_vars

(* A dispatcher polls for ever and time passes: requests are under a       *)
(* timeout, so that a pass always goes on, and the transaction of a lister *)
(* does not stay open for ever.                                            *)
FairSpec ==
  /\ Spec
  /\ \A c \in Dispatchers : WF_vars(Step(c))
  /\ \A c \in Listers : WF_vars(Materialize(c))
  /\ WF_vars(Tick)

-----------------------------------------------------------------------------
(* The type invariant: rows and passes hold what their columns and         *)
(* variables can.                                                          *)
TypeOK ==
  /\ log \in [Events -> {"unpublished", "new", "processed"}]
  /\ failed \in [Tasks -> BOOLEAN]
  /\ delivery \in [Events -> Deliveries]
  /\ audits \in [Events -> SUBSET Audits]
  /\ received \subseteq Events
  /\ pass \in [Sessions -> Passes]
  /\ resends \in [Events -> Nat] /\ crashes \in [Sessions -> Nat]

(* No two claims of a delivery carry the same sequence, whoever takes over *)
(* from whom and whatever is resent, so that the unique key over           *)
(* (delivery_id, sequence) never refuses the audit of an attempt.          *)
AuditNeverCollides ==
  \A c \in Sessions : Claims(c) =>
    /\ \A a \in audits[pass[c].event] : a.sequence # pass[c].sequence
    /\ \A d \in Sessions \ {c} :
         Claims(d) /\ pass[d].event = pass[c].event =>
           pass[d].sequence # pass[c].sequence

(* The status of a delivery is explained by its history: it has succeeded  *)
(* only if the receiver accepted the event, waits only after a failure     *)
(* that may pass, and has failed only if all attempts of the round are     *)
(* spent or the last claim met an error that stays.                        *)
Audited(e, outcome) ==
  [sequence |-> delivery[e].sequence, outcome |-> outcome] \in audits[e]

StatusExplained ==
  \A e \in Events :
    /\ delivery[e].status = "succeeded" => Audited(e, "delivered") /\ e \in received
    /\ delivery[e].status = "retry_wait" => Audited(e, "retryable")
    /\ delivery[e].status = "failed" => Spent(delivery[e]) \/ Audited(e, "permanent")

(* A round spends at most maximum_attempts claims, also when claims are    *)
(* taken over, and what waits to be claimed has one left.                  *)
RoundsBounded ==
  \A e \in Events :
    /\ delivery[e].attempt <= MaximumAttempts
    /\ delivery[e].status \in {"pending", "retry_wait"} => ~Spent(delivery[e])

(* Materializing loses no event but a failure: once an event is marked     *)
(* processed its delivery exists, though two sessions materialize the same *)
(* batch and one is rolled back.                                           *)
NoCallbackLost ==
  \A e \in Subscribed \ Failures :
    log[e] = "processed" => delivery[e].status # "none"

(* Every published event is processed, the ones without callback too. *)
EventsAreProcessed == \A e \in Events : log[e] = "new" ~> log[e] = "processed"

(* Every delivery comes to an end, though claimers crash. *)
Settled(e) == delivery[e].status \in {"none", "succeeded", "failed"}

DeliveriesSettle == \A e \in Events : ~Settled(e) ~> Settled(e)

-----------------------------------------------------------------------------
(* Every delivery can be shown: CallbackDeliveryDetail refuses a row whose *)
(* updated_at is earlier than its created_at.  The code does not keep to   *)
(* it: a delivery may be younger than the pass that claims it.             *)
DeliveriesReadable == \A e \in Events : ~delivery[e].backdated
=============================================================================
