----------------------- MODULE CallbackDeliveryProofs -----------------------
(***************************************************************************)
(* Proofs about CallbackDelivery, for any number of events, dispatchers    *)
(* and listers, any limits and any number of crashes and resends.          *)
(*                                                                         *)
(* The inductive invariant adds to the properties what ties a claim in a   *)
(* dispatcher's memory to the row it was made on: its sequence is one the  *)
(* row has reached, and an answer "delivered" has been received.           *)
(***************************************************************************)
EXTENDS CallbackDelivery, TLAPS

(* What is true of one delivery row and its audits. *)
RowInv(e) ==
  /\ delivery[e].status = "none" => delivery[e].sequence = 0
  /\ delivery[e].attempt <= MaximumAttempts
  /\ delivery[e].status \in {"pending", "retry_wait"} => ~Spent(delivery[e])
  /\ \A a \in audits[e] : 1 <= a.sequence /\ a.sequence <= delivery[e].sequence
  /\ delivery[e].status = "succeeded" => Audited(e, "delivered") /\ e \in received
  /\ delivery[e].status = "retry_wait" => Audited(e, "retryable")
  /\ delivery[e].status = "failed" => Spent(delivery[e]) \/ Audited(e, "permanent")

Rows == \A e \in Events : RowInv(e)

ClaimInv(c) ==
  /\ pass[c].event \in Events
  /\ 1 <= pass[c].sequence /\ pass[c].sequence <= delivery[pass[c].event].sequence
  /\ pass[c].phase = "answered" => pass[c].outcome \in Outcomes
  /\ pass[c].phase = "answered" /\ pass[c].outcome = "delivered"
       => pass[c].event \in received

ClaimsValid == \A c \in Sessions : Claims(c) => ClaimInv(c)

(* What a session has read and is going to mark as processed is mapped,    *)
(* unless it is a failure or not subscribed to.                            *)
BatchesMapped ==
  \A c \in Sessions : (pass[c].batch \cap Subscribed) \ Failures \subseteq pass[c].mapped

Inv ==
  /\ TypeOK
  /\ Rows
  /\ ClaimsValid
  /\ AuditNeverCollides
  /\ NoCallbackLost
  /\ BatchesMapped

-----------------------------------------------------------------------------
LEMMA IdlePassType ==
  /\ IdlePass \in Passes /\ IdlePass.phase = "idle"
  /\ IdlePass.batch = {} /\ IdlePass.mapped = {}
  BY DEF IdlePass, Passes, Phases

LEMMA RowFields ==
  ASSUME NEW r \in Deliveries
  PROVE  /\ r.status \in DeliveryStatuses /\ r.attempt \in Nat
         /\ r.sequence \in Nat /\ r.age \in Nat /\ r.wait \in Int
         /\ r.born \in Nat /\ r.backdated \in BOOLEAN
  BY DEF Deliveries

LEMMA PassFields ==
  ASSUME NEW p \in Passes
  PROVE  /\ p.phase \in Phases /\ p.age \in Nat
         /\ p.batch \subseteq Events /\ p.mapped \subseteq Events /\ p.left \in Nat
         /\ p.event \in Events \cup {NoEvent} /\ p.sequence \in Nat
         /\ p.outcome \in Outcomes \cup {"none"}
  BY DEF Passes

(* A claim moves the row to the next attempt under a new sequence. *)
LEMMA ClaimedRow ==
  ASSUME NEW r \in Deliveries, NEW age \in Nat
  PROVE  /\ ClaimedDelivery(r, age) \in Deliveries
         /\ ClaimedDelivery(r, age).status = "delivering"
         /\ ClaimedDelivery(r, age).attempt = r.attempt + 1
         /\ ClaimedDelivery(r, age).sequence = r.sequence + 1
<1> DEFINE q == ClaimedDelivery(r, age)
<1>1. q \in Deliveries
  <2> DEFINE a == r.attempt + 1
             k == r.sequence + 1
             z == 0
             b == age > r.born
  <2>1. /\ "delivering" \in DeliveryStatuses /\ a \in Nat /\ k \in Nat
        /\ z \in Int /\ b \in BOOLEAN
    BY RowFields DEF DeliveryStatuses
  <2>2. q = [r EXCEPT !.status = "delivering", !.attempt = a, !.sequence = k,
                      !.age = age, !.wait = z, !.backdated = b]
    BY DEF ClaimedDelivery
  <2> HIDE DEF a, k, q, z, b
  <2> QED BY <2>1, <2>2 DEF Deliveries
<1>2. /\ q.status = "delivering" /\ q.attempt = r.attempt + 1
      /\ q.sequence = r.sequence + 1
  BY DEF ClaimedDelivery, Deliveries
<1> QED BY <1>1, <1>2

LEMMA GivenUpRow ==
  ASSUME NEW r \in Deliveries, NEW age \in Nat
  PROVE  /\ GivenUp(r, age) \in Deliveries /\ GivenUp(r, age).status = "failed"
         /\ GivenUp(r, age).attempt = r.attempt
         /\ GivenUp(r, age).sequence = r.sequence
<1> DEFINE q == GivenUp(r, age)
           z == 0
           b == age > r.born
<1>1. "failed" \in DeliveryStatuses /\ z \in Nat /\ b \in BOOLEAN
  BY DEF DeliveryStatuses
<1>2. q = [r EXCEPT !.status = "failed", !.age = z, !.backdated = b]
  BY DEF GivenUp
<1> HIDE DEF q, z, b
<1>3. q \in Deliveries
  BY <1>1, <1>2 DEF Deliveries
<1>4. q.status = "failed" /\ q.attempt = r.attempt /\ q.sequence = r.sequence
  BY <1>2 DEF Deliveries
<1> QED BY <1>3, <1>4 DEF q

LEMMA RetryDelayType ==
  ASSUME NEW a \in Nat, a <= MaximumAttempts
  PROVE  RetryDelay(a) \in Int
<1> DEFINE n == IF a > 0 THEN a - 1 ELSE 0
<1>1. n \in 0..MaximumAttempts
  BY LimitsAssumption
<1>2. 2^n \in Nat
  BY <1>1, BackoffAssumption
<1> HIDE DEF n
<1>3. InitialRetry * 2^n \in Int
  BY <1>2, LimitsAssumption
<1> QED BY <1>3, LimitsAssumption DEF RetryDelay, n

(* A result leaves the counters of the row alone; the status it gives fits *)
(* the outcome.                                                            *)
LEMMA RecordedRow ==
  ASSUME NEW r \in Deliveries, NEW outcome \in Outcomes, NEW age \in Nat,
         r.attempt <= MaximumAttempts
  PROVE  LET n == RecordedDelivery(r, outcome, age)
         IN /\ n \in Deliveries
            /\ n.attempt = r.attempt /\ n.sequence = r.sequence
            /\ n.status \in {"succeeded", "retry_wait", "failed"}
            /\ n.status = "succeeded" => outcome = "delivered"
            /\ n.status = "retry_wait" => outcome = "retryable" /\ ~Spent(n)
            /\ n.status = "failed" => Spent(n) \/ outcome = "permanent"
<1> DEFINE n == RecordedDelivery(r, outcome, age)
<1> DEFINE d == RetryDelay(r.attempt) - age
<1>1. d \in Int
  BY RetryDelayType, RowFields
<1>2. {"succeeded", "retry_wait", "failed"} \subseteq DeliveryStatuses
  BY DEF DeliveryStatuses
<1> HIDE DEF d
<1> DEFINE z == 0
           b == age > r.born
           updated == [r EXCEPT !.age = z, !.backdated = b]
           ended(x) == [updated EXCEPT !.status = x, !.wait = z]
<1>0. z \in Nat /\ z \in Int /\ b \in BOOLEAN
  OBVIOUS
<1>n. n = CASE outcome = "delivered" -> ended("succeeded")
            [] outcome = "retryable" /\ ~Spent(r) ->
                 [updated EXCEPT !.status = "retry_wait", !.wait = d]
            [] outcome = "permanent" \/ (outcome = "retryable" /\ Spent(r)) ->
                 ended("failed")
  BY DEF RecordedDelivery, d
<1> HIDE DEF z, b, n
<1>u. updated \in Deliveries
  BY <1>0 DEF Deliveries
<1>v. updated.attempt = r.attempt /\ updated.sequence = r.sequence
  BY DEF Deliveries
<1> HIDE DEF updated
<1>3. ASSUME NEW x \in {"succeeded", "failed"}
      PROVE  /\ ended(x) \in Deliveries /\ ended(x).status = x
             /\ ended(x).attempt = r.attempt /\ ended(x).sequence = r.sequence
  <2>1. x \in DeliveryStatuses
    BY <1>2
  <2>2. ended(x) \in Deliveries
    BY <1>0, <1>u, <2>1 DEF Deliveries
  <2>3. /\ ended(x).status = x
        /\ ended(x).attempt = r.attempt /\ ended(x).sequence = r.sequence
    BY <1>u, <1>v DEF Deliveries
  <2> QED BY <2>2, <2>3
<1>4. CASE outcome = "delivered"
  <2>1. n = ended("succeeded")
    BY <1>4, <1>n
  <2> HIDE DEF n, ended
  <2>2. /\ n \in Deliveries /\ n.status = "succeeded"
        /\ n.attempt = r.attempt /\ n.sequence = r.sequence
    BY <1>3, <2>1
  <2> QED BY <1>4, <2>2 DEF n
<1>5. CASE outcome = "retryable" /\ ~Spent(r)
  <2> DEFINE q == [updated EXCEPT !.status = "retry_wait", !.wait = d]
  <2>1. n = q
    BY <1>5, <1>n
  <2>2. q \in Deliveries
    BY <1>1, <1>2, <1>u DEF Deliveries
  <2>3. /\ q.status = "retry_wait" /\ q.attempt = r.attempt
        /\ q.sequence = r.sequence
    BY <1>u, <1>v DEF Deliveries
  <2> HIDE DEF n, q
  <2>4. ~Spent(n)
    BY <1>5, <2>1, <2>3 DEF Spent
  <2> QED BY <1>5, <2>1, <2>2, <2>3, <2>4 DEF n
<1>6. CASE outcome = "permanent" \/ (outcome = "retryable" /\ Spent(r))
  <2>1. n = ended("failed")
    BY <1>6, <1>n
  <2> HIDE DEF n, ended
  <2>2. /\ n \in Deliveries /\ n.status = "failed"
        /\ n.attempt = r.attempt /\ n.sequence = r.sequence
    BY <1>3, <2>1
  <2>3. Spent(n) \/ outcome = "permanent"
    BY <1>6, <2>2 DEF Spent
  <2> QED BY <2>2, <2>3 DEF n
<1> QED BY <1>4, <1>5, <1>6 DEF Outcomes

LEMMA ResentRow ==
  ASSUME NEW r \in Deliveries
  PROVE  /\ ResentDelivery(r) \in Deliveries /\ ResentDelivery(r).status = "pending"
         /\ ResentDelivery(r).attempt = 0 /\ ResentDelivery(r).sequence = r.sequence
<1> DEFINE q == ResentDelivery(r)
           z == 0
           b == FALSE
<1>1. "pending" \in DeliveryStatuses /\ z \in Nat /\ b \in BOOLEAN
  BY DEF DeliveryStatuses
<1>2. q = [r EXCEPT !.status = "pending", !.attempt = z, !.backdated = b]
  BY DEF ResentDelivery
<1> HIDE DEF q, z, b
<1>3. q \in Deliveries
  BY <1>1, <1>2 DEF Deliveries
<1>4. q.status = "pending" /\ q.attempt = z /\ q.sequence = r.sequence
  BY <1>2 DEF Deliveries
<1> QED BY <1>3, <1>4 DEF q, z

-----------------------------------------------------------------------------
LEMMA InitInv == Init => Inv
<1> SUFFICES ASSUME Init PROVE Inv
  OBVIOUS
<1> USE EventsAssumption
<1>1. NoDelivery \in Deliveries /\ NoDelivery.status = "none"
      /\ NoDelivery.sequence = 0 /\ NoDelivery.attempt = 0
  BY DEF NoDelivery, Deliveries, DeliveryStatuses
<1>2. TypeOK
  BY <1>1, IdlePassType DEF Init, TypeOK
<1>3. Rows
  BY <1>1, LimitsAssumption DEF Init, Rows, RowInv
<1>4. ClaimsValid /\ AuditNeverCollides
  BY IdlePassType DEF Init, ClaimsValid, AuditNeverCollides, Claims
<1>5. NoCallbackLost /\ BatchesMapped
  BY IdlePassType DEF Init, NoCallbackLost, BatchesMapped
<1> QED BY <1>2, <1>3, <1>4, <1>5 DEF Inv

(* Steps that leave the deliveries, the audits and the claims alone. *)
LEMMA OutsideInv ==
  ASSUME Inv, TypeOK', UNCHANGED <<delivery, audits, received, pass>>,
         \A e \in Events : log'[e] = "processed" => log[e] = "processed"
  PROVE  Inv'
<1>1. Rows' /\ ClaimsValid' /\ AuditNeverCollides' /\ BatchesMapped'
  BY DEF Inv, Rows, RowInv, Audited, ClaimsValid, ClaimInv, Claims,
         AuditNeverCollides, BatchesMapped
<1>2. NoCallbackLost'
  BY EventsAssumption DEF Inv, NoCallbackLost
<1> QED BY <1>1, <1>2 DEF Inv

LEMMA PublishInv ==
  ASSUME Inv, NEW e \in Events, Publish(e)
  PROVE  Inv'
<1>1. TypeOK'
  BY EventsAssumption DEF Inv, TypeOK, Publish
<1>2. \A x \in Events : log'[x] = "processed" => log[x] = "processed"
  BY DEF Inv, TypeOK, Publish
<1> QED BY <1>1, <1>2, OutsideInv DEF Publish

LEMMA RetryTaskInv ==
  ASSUME Inv, NEW t \in Tasks, RetryTask(t)
  PROVE  Inv'
<1>1. TypeOK'
  BY DEF Inv, TypeOK, RetryTask
<1> QED BY <1>1, OutsideInv DEF RetryTask

LEMMA BeginPassInv ==
  ASSUME Inv, NEW c \in Sessions, BeginPass(c)
  PROVE  Inv'
<1> USE DEF Inv
<1>1. PICK batch \in SUBSET Ready :
        pass' = [pass EXCEPT ![c].phase = "reading", ![c].age = 0,
                             ![c].batch = batch, ![c].mapped = Mapped(batch)]
  BY DEF BeginPass
<1>2. batch \subseteq Events /\ Mapped(batch) \subseteq Events
  BY DEF Ready, Mapped
<1> DEFINE q == [pass[c] EXCEPT !.phase = "reading", !.age = 0,
                                !.batch = batch, !.mapped = Mapped(batch)]
<1>2a. /\ q \in Passes /\ q.phase = "reading"
      /\ q.batch = batch /\ q.mapped = Mapped(batch)
  <2>1. pass[c] \in Passes /\ "reading" \in Phases
    BY DEF TypeOK, Phases
  <2>2. q \in Passes
    BY <2>1, <1>2 DEF Passes
  <2>3. q.phase = "reading" /\ q.batch = batch /\ q.mapped = Mapped(batch)
    BY <2>1 DEF Passes
  <2> QED BY <2>2, <2>3
<1>2b. pass' = [pass EXCEPT ![c] = q]
  BY <1>1
<1> HIDE DEF q
<1>3. /\ pass' \in [Sessions -> Passes] /\ pass'[c].phase = "reading"
      /\ pass'[c].batch = batch /\ pass'[c].mapped = Mapped(batch)
      /\ \A d \in Sessions \ {c} : pass'[d] = pass[d]
  BY <1>2a, <1>2b DEF TypeOK
<1>4. TypeOK'
  BY <1>3 DEF TypeOK, BeginPass
<1>5. Rows' /\ NoCallbackLost'
  BY DEF Rows, RowInv, Audited, NoCallbackLost, BeginPass
<1>6. ClaimsValid'
  BY <1>3 DEF ClaimsValid, ClaimInv, Claims, BeginPass
<1>7. AuditNeverCollides'
  BY <1>3 DEF AuditNeverCollides, Claims, BeginPass
<1>8. BatchesMapped'
  <2>1. (batch \cap Subscribed) \ Failures \subseteq Mapped(batch)
    BY DEF Mapped
  <2> QED BY <1>3, <2>1 DEF BatchesMapped
<1> QED BY <1>4, <1>5, <1>6, <1>7, <1>8

LEMMA MaterializeInv ==
  ASSUME Inv, NEW c \in Sessions, Materialize(c)
  PROVE  Inv'
<1> USE DEF Inv
<1> DEFINE n == AfterMaterialize(c)
<1>1. /\ n \in Passes /\ n.phase \in {"idle", "claiming"}
      /\ n.batch = {} /\ n.mapped = {}
  BY LimitsAssumption DEF AfterMaterialize, IdlePass, Passes, Phases, TypeOK
<1> HIDE DEF n
<1>2. /\ pass' \in [Sessions -> Passes] /\ pass'[c] = n
      /\ \A d \in Sessions \ {c} : pass'[d] = pass[d]
  BY <1>1 DEF Materialize, TypeOK, n
<1>3. \A e \in Created(c) : e \in Events /\ delivery[e].status = "none"
  BY DEF Created, KeyTaken, TypeOK, Passes
<1> DEFINE g == pass[c].age
           r == [NoDelivery EXCEPT !.status = "pending", !.born = g]
<1>g. g \in Nat
  BY PassFields DEF TypeOK
<1>4. r \in Deliveries /\ r.status = "pending" /\ r.attempt = 0 /\ r.sequence = 0
  <2>1. NoDelivery \in Deliveries /\ "pending" \in DeliveryStatuses
    BY DEF NoDelivery, Deliveries, DeliveryStatuses
  <2>2. NoDelivery.attempt = 0 /\ NoDelivery.sequence = 0
    BY DEF NoDelivery
  <2> HIDE DEF g
  <2> QED BY <1>g, <2>1, <2>2 DEF Deliveries
<1>5. \A e \in Events : delivery'[e] = IF e \in Created(c) THEN r ELSE delivery[e]
  BY DEF Materialize
<1>6. TypeOK'
  BY <1>2, <1>4 DEF Materialize, TypeOK
<1> HIDE DEF r
<1>7. Rows'
  <2> SUFFICES ASSUME NEW e \in Events PROVE RowInv(e)'
    BY DEF Rows
  <2>1. RowInv(e) /\ audits' = audits /\ received' = received
    BY DEF Rows, Materialize
  <2>2. CASE e \in Created(c)
    BY <1>3, <1>4, <1>5, <2>1, <2>2, LimitsAssumption DEF RowInv, Spent
  <2>3. CASE e \notin Created(c)
    BY <1>5, <2>1, <2>3 DEF RowInv, Spent, Audited
  <2> QED BY <2>2, <2>3
<1>8. ClaimsValid'
  <2> SUFFICES ASSUME NEW d \in Sessions, Claims(d)' PROVE ClaimInv(d)'
    BY DEF ClaimsValid
  <2>1. d # c /\ pass'[d] = pass[d] /\ ClaimInv(d)
    BY <1>1, <1>2 DEF Claims, ClaimsValid
  <2>2. pass[d].event \notin Created(c)
    BY <1>3, <2>1 DEF ClaimInv, Rows, RowInv, TypeOK, Passes
  <2>3. delivery'[pass[d].event] = delivery[pass[d].event]
    BY <1>5, <2>1, <2>2 DEF ClaimInv
  <2>4. received' = received
    BY DEF Materialize
  <2> QED BY <2>1, <2>3, <2>4 DEF ClaimInv
<1>9. AuditNeverCollides'
  BY <1>1, <1>2 DEF AuditNeverCollides, Claims, Materialize
<1>10. NoCallbackLost'
  <2> SUFFICES ASSUME NEW e \in Subscribed \ Failures, log'[e] = "processed"
               PROVE  delivery'[e].status # "none"
    BY DEF NoCallbackLost
  <2>1. e \in Events
    BY EventsAssumption
  <2>2. CASE e \in Created(c)
    BY <1>4, <1>5, <2>1, <2>2
  <2>3. CASE e \notin Created(c)
    <3>1. e \notin Processed(c)
      BY <2>3 DEF Created, Processed, BatchesMapped
    <3>2. log[e] = "processed"
      BY <2>1, <3>1 DEF Materialize
    <3> QED BY <1>5, <2>1, <2>3, <3>2 DEF NoCallbackLost
  <2> QED BY <2>2, <2>3
<1>11. BatchesMapped'
  BY <1>1, <1>2 DEF BatchesMapped
<1> QED BY <1>6, <1>7, <1>8, <1>9, <1>10, <1>11

-----------------------------------------------------------------------------
(* A step of session c that only lets sequences and receipts grow leaves   *)
(* the claims of the other sessions valid and loses no callback.           *)
LEMMA OthersKept ==
  ASSUME Inv, TypeOK', NEW c \in Sessions,
         \A d \in Sessions \ {c} : pass'[d] = pass[d],
         received \subseteq received', log' = log,
         \A e \in Events :
           /\ delivery[e].sequence <= delivery'[e].sequence
           /\ delivery'[e].status = "none" => delivery[e].status = "none"
  PROVE  /\ NoCallbackLost'
         /\ \A d \in Sessions \ {c} : Claims(d)' => ClaimInv(d)'
<1> USE DEF Inv
<1>1. NoCallbackLost'
  BY EventsAssumption DEF NoCallbackLost
<1>2. ASSUME NEW d \in Sessions \ {c}, Claims(d)'
      PROVE  ClaimInv(d)'
  <2>1. pass'[d] = pass[d] /\ ClaimInv(d)
    BY <1>2 DEF Claims, ClaimsValid
  <2>2. /\ pass[d].event \in Events /\ pass[d].sequence \in Nat
        /\ delivery[pass[d].event].sequence \in Nat
        /\ delivery'[pass[d].event].sequence \in Nat
    BY <2>1, PassFields, RowFields DEF ClaimInv, TypeOK
  <2>3. pass[d].sequence <= delivery'[pass[d].event].sequence
    BY <2>1, <2>2 DEF ClaimInv
  <2> QED BY <2>1, <2>3 DEF ClaimInv
<1> QED BY <1>1, <1>2

(* A session that ends its pass, or goes back to claiming, with the        *)
(* deliveries changed by at most what OthersKept admits.                   *)
LEMMA PassEnds ==
  ASSUME Inv, TypeOK', Rows', NEW c \in Sessions,
         pass'[c].phase \in {"idle", "claiming"},
         pass'[c].batch = {},
         \A d \in Sessions \ {c} : pass'[d] = pass[d],
         received \subseteq received', log' = log,
         \A e \in Events :
           /\ delivery[e].sequence <= delivery'[e].sequence
           /\ delivery'[e].status = "none" => delivery[e].status = "none",
         \A d \in Sessions \ {c} : Claims(d) =>
           \A a \in audits'[pass[d].event] : a.sequence # pass[d].sequence
  PROVE  Inv'
<1> USE DEF Inv
<1>1. /\ NoCallbackLost'
      /\ \A d \in Sessions \ {c} : Claims(d)' => ClaimInv(d)'
  BY OthersKept
<1>2. ClaimsValid'
  BY <1>1 DEF ClaimsValid, Claims
<1>3. AuditNeverCollides'
  BY DEF AuditNeverCollides, Claims
<1>4. BatchesMapped'
  BY DEF BatchesMapped
<1> QED BY <1>1, <1>2, <1>3, <1>4

LEMMA ClaimInvariant ==
  ASSUME Inv, NEW c \in Sessions, Claim(c)
  PROVE  Inv'
<1> USE DEF Inv
<1>1. PICK lost \in SUBSET Exhausted(c) :
        \/ /\ delivery' = [e \in Events |-> IF e \in lost
                                              THEN GivenUp(delivery[e], pass[c].age)
                                              ELSE delivery[e]]
           /\ pass' = [pass EXCEPT ![c] = IdlePass]
        \/ \E due \in Due(c) :
           /\ delivery' = [e \in Events |->
                             IF e = due
                               THEN ClaimedDelivery(delivery[e], pass[c].age)
                               ELSE IF e \in lost THEN GivenUp(delivery[e], pass[c].age)
                                                  ELSE delivery[e]]
           /\ pass' = [pass EXCEPT ![c].phase = "sending", ![c].event = due,
                                   ![c].sequence = delivery'[due].sequence]
  BY DEF Claim
<1>2. /\ log' = log /\ failed' = failed /\ audits' = audits
      /\ received' = received /\ resends' = resends /\ crashes' = crashes
  BY DEF Claim
<1>3. /\ pass[c] \in Passes /\ pass[c].age \in Nat
      /\ \A e \in Events : /\ delivery[e] \in Deliveries /\ RowInv(e)
                           /\ delivery[e].status \in DeliveryStatuses
                           /\ delivery[e].attempt \in Nat
                           /\ delivery[e].sequence \in Nat
  BY RowFields, PassFields DEF TypeOK, Rows
<1>4. ASSUME NEW e \in lost
      PROVE  e \in Events /\ Spent(delivery[e]) /\ delivery[e].status = "delivering"
  BY DEF Exhausted, Stale
(* A claim that is given up. *)
<1>5. ASSUME NEW e \in Events, delivery' \in [Events -> Deliveries],
             delivery'[e] = IF e \in lost THEN GivenUp(delivery[e], pass[c].age) ELSE delivery[e]
      PROVE  /\ RowInv(e)' /\ delivery'[e].sequence = delivery[e].sequence
             /\ delivery'[e].status = "none" => delivery[e].status = "none"
  <2>1. CASE e \in lost
    <3>0. delivery'[e] = GivenUp(delivery[e], pass[c].age)
      BY <1>5, <2>1
    <3>1. /\ delivery'[e].status = "failed"
          /\ delivery'[e].attempt = delivery[e].attempt
          /\ delivery'[e].sequence = delivery[e].sequence
      BY <1>3, <3>0, GivenUpRow, SMTT(40)
    <3>2. Spent(delivery'[e])
      BY <1>4, <2>1, <3>1 DEF Spent
    <3> QED BY <1>2, <1>3, <3>1, <3>2 DEF RowInv, Spent
  <2>2. CASE e \notin lost
    <3>1. delivery'[e] = delivery[e]
      BY <1>5, <2>2
    <3> QED BY <1>2, <1>3, <3>1 DEF RowInv, Spent, Audited
  <2> QED BY <2>1, <2>2
<1>6. CASE /\ delivery' = [e \in Events |-> IF e \in lost
                                              THEN GivenUp(delivery[e], pass[c].age)
                                              ELSE delivery[e]]
           /\ pass' = [pass EXCEPT ![c] = IdlePass]
  <2>1. delivery' \in [Events -> Deliveries]
    BY <1>3, <1>6, GivenUpRow
  <2>2. \A e \in Events : /\ RowInv(e)'
                          /\ delivery'[e].sequence = delivery[e].sequence
                          /\ delivery'[e].status = "none"
                               => delivery[e].status = "none"
    BY <1>5, <1>6, <2>1
  <2>3. /\ pass' \in [Sessions -> Passes] /\ pass'[c] = IdlePass
        /\ \A d \in Sessions \ {c} : pass'[d] = pass[d]
    BY <1>6, IdlePassType DEF TypeOK
  <2>4. TypeOK'
    BY <1>2, <2>1, <2>3 DEF TypeOK
  <2>5. Rows'
    BY <2>2 DEF Rows
  <2>6. \A d \in Sessions \ {c} : Claims(d) =>
          \A a \in audits'[pass[d].event] : a.sequence # pass[d].sequence
    BY <1>2 DEF AuditNeverCollides
  <2>7. \A e \in Events : delivery[e].sequence <= delivery'[e].sequence
    BY <1>3, <2>2
  <2> QED BY <1>2, <2>2, <2>3, <2>4, <2>5, <2>6, <2>7, PassEnds, IdlePassType
<1>7. ASSUME NEW due \in Due(c),
             delivery' = [e \in Events |->
                            IF e = due
                              THEN ClaimedDelivery(delivery[e], pass[c].age)
                              ELSE IF e \in lost THEN GivenUp(delivery[e], pass[c].age)
                                                 ELSE delivery[e]],
             pass' = [pass EXCEPT ![c].phase = "sending", ![c].event = due,
                                  ![c].sequence = delivery'[due].sequence]
      PROVE  Inv'
  <2> DEFINE k == delivery'[due].sequence
  <2>1. due \in Events /\ ~Spent(delivery[due]) /\ delivery[due].status # "none"
    BY <1>3 DEF Due, Stale, RowInv
  <2>2. delivery' \in [Events -> Deliveries]
    BY <1>3, <1>7, GivenUpRow, ClaimedRow
  <2>3. /\ delivery'[due].status = "delivering"
        /\ delivery'[due].attempt = delivery[due].attempt + 1
        /\ k = delivery[due].sequence + 1
    BY <1>3, <1>7, <2>1, ClaimedRow
  <2>4. k \in Nat /\ 1 <= k
    BY <1>3, <2>1, <2>3
  <2>5. RowInv(due)'
    <3>1. delivery'[due].attempt <= MaximumAttempts
      BY <1>3, <2>1, <2>3, LimitsAssumption DEF Spent
    <3>2. \A a \in audits[due] : 1 <= a.sequence /\ a.sequence <= k
      <4> SUFFICES ASSUME NEW a \in audits[due]
                   PROVE  1 <= a.sequence /\ a.sequence <= k
        OBVIOUS
      <4>1. a.sequence \in Nat
        BY <2>1 DEF TypeOK, Audits
      <4> QED BY <1>3, <2>1, <2>3, <4>1 DEF RowInv
    <3> QED BY <1>2, <2>3, <3>1, <3>2 DEF RowInv
  <2>6. ASSUME NEW e \in Events \ {due}
        PROVE  /\ RowInv(e)' /\ delivery'[e].sequence = delivery[e].sequence
               /\ delivery'[e].status = "none" => delivery[e].status = "none"
    <3>1. delivery'[e] = IF e \in lost THEN GivenUp(delivery[e], pass[c].age) ELSE delivery[e]
      BY <1>7, <2>6
    <3> QED BY <1>5, <2>2, <3>1
  <2>7. Rows'
    BY <2>5, <2>6 DEF Rows
  <2> DEFINE q == [pass[c] EXCEPT !.phase = "sending", !.event = due, !.sequence = k]
  <2>8. pass' = [pass EXCEPT ![c] = q]
    <3>1. pass' = [pass EXCEPT ![c].phase = "sending", ![c].event = due,
                               ![c].sequence = k]
      BY <1>7
    <3> HIDE DEF k
    <3> QED BY <3>1 DEF TypeOK
  <2> HIDE DEF k
  <2>9. /\ q \in Passes /\ q.phase = "sending" /\ q.event = due /\ q.sequence = k
        /\ q.batch = pass[c].batch /\ q.mapped = pass[c].mapped
    <3>1. "sending" \in Phases
      BY DEF Phases
    <3>2. q \in Passes
      BY <1>3, <2>1, <2>4, <3>1 DEF Passes
    <3>3. /\ q.phase = "sending" /\ q.event = due /\ q.sequence = k
          /\ q.batch = pass[c].batch /\ q.mapped = pass[c].mapped
      BY <1>3 DEF Passes
    <3> QED BY <3>2, <3>3
  <2> HIDE DEF q
  <2>10. /\ pass' \in [Sessions -> Passes] /\ pass'[c] = q
         /\ \A d \in Sessions \ {c} : pass'[d] = pass[d]
    BY <2>8, <2>9 DEF TypeOK
  <2>11. TypeOK'
    BY <1>2, <2>2, <2>10 DEF TypeOK
  <2>12. \A e \in Events :
           /\ delivery[e].sequence <= delivery'[e].sequence
           /\ delivery'[e].status = "none" => delivery[e].status = "none"
    BY <1>3, <2>3, <2>6 DEF k
  <2>13. /\ NoCallbackLost'
         /\ \A d \in Sessions \ {c} : Claims(d)' => ClaimInv(d)'
    BY <1>2, <2>10, <2>11, <2>12, OthersKept
  <2>14. ClaimInv(c)'
    BY <2>1, <2>4, <2>9, <2>10 DEF ClaimInv, k
  <2>15. ClaimsValid'
    BY <2>13, <2>14 DEF ClaimsValid
  <2>16. /\ \A a \in audits[due] : a.sequence # k
         /\ \A d \in Sessions \ {c} :
              Claims(d) /\ pass[d].event = due => pass[d].sequence # k
    <3>1. ASSUME NEW a \in audits[due] PROVE a.sequence # k
      <4>1. a.sequence \in Nat
        BY <2>1 DEF TypeOK, Audits
      <4>2. a.sequence <= delivery[due].sequence
        BY <1>3, <2>1 DEF RowInv
      <4> QED BY <1>3, <2>1, <2>3, <4>1, <4>2
    <3>2. ASSUME NEW d \in Sessions \ {c}, Claims(d), pass[d].event = due
          PROVE  pass[d].sequence # k
      <4>1. pass[d].sequence \in Nat
        BY PassFields DEF TypeOK
      <4>2. pass[d].sequence <= delivery[due].sequence
        BY <3>2 DEF ClaimsValid, ClaimInv
      <4> QED BY <1>3, <2>1, <2>3, <4>1, <4>2
    <3> QED BY <3>1, <3>2
  <2>17. AuditNeverCollides'
    <3> SUFFICES ASSUME NEW d \in Sessions, Claims(d)'
                 PROVE  /\ \A a \in audits'[pass'[d].event] :
                             a.sequence # pass'[d].sequence
                        /\ \A x \in Sessions \ {d} :
                             Claims(x)' /\ pass'[x].event = pass'[d].event =>
                               pass'[x].sequence # pass'[d].sequence
      BY DEF AuditNeverCollides
    <3>1. \A x \in Sessions \ {c} : Claims(x)' <=> Claims(x)
      BY <2>10 DEF Claims
    <3>2. CASE d = c
      BY <1>2, <2>9, <2>10, <2>16, <3>1, <3>2
    <3>3. CASE d # c
      BY <1>2, <2>9, <2>10, <2>16, <3>1, <3>3 DEF AuditNeverCollides
    <3> QED BY <3>2, <3>3
  <2>18. BatchesMapped'
    BY <2>9, <2>10 DEF BatchesMapped
  <2> QED BY <2>7, <2>11, <2>13, <2>15, <2>17, <2>18
<1> QED BY <1>1, <1>6, <1>7

LEMMA DeliverInv ==
  ASSUME Inv, NEW c \in Sessions, Deliver(c)
  PROVE  Inv'
<1> USE DEF Inv
<1>1. PICK outcome \in Outcomes :
        /\ pass' = [pass EXCEPT ![c].phase = "answered", ![c].outcome = outcome]
        /\ \/ received' = received \cup {pass[c].event}
           \/ outcome # "delivered" /\ received' = received
  BY DEF Deliver
<1>2. /\ log' = log /\ failed' = failed /\ delivery' = delivery
      /\ audits' = audits /\ resends' = resends /\ crashes' = crashes
  BY DEF Deliver
<1>3. pass[c] \in Passes /\ Claims(c) /\ ClaimInv(c)
  BY DEF TypeOK, Claims, ClaimsValid, Deliver
<1>4. /\ received \subseteq received' /\ received' \subseteq Events
      /\ outcome = "delivered" => pass[c].event \in received'
  BY <1>1, <1>3 DEF ClaimInv, TypeOK
<1> DEFINE q == [pass[c] EXCEPT !.phase = "answered", !.outcome = outcome]
<1>5. pass' = [pass EXCEPT ![c] = q]
  BY <1>1
<1>6. /\ q \in Passes /\ q.phase = "answered" /\ q.outcome = outcome
      /\ q.event = pass[c].event /\ q.sequence = pass[c].sequence
      /\ q.batch = pass[c].batch /\ q.mapped = pass[c].mapped
  <2>1. "answered" \in Phases
    BY DEF Phases
  <2>2. q \in Passes
    BY <1>3, <2>1 DEF Passes
  <2>3. /\ q.phase = "answered" /\ q.outcome = outcome
        /\ q.event = pass[c].event /\ q.sequence = pass[c].sequence
        /\ q.batch = pass[c].batch /\ q.mapped = pass[c].mapped
    BY <1>3 DEF Passes
  <2> QED BY <2>2, <2>3
<1> HIDE DEF q
<1>7. /\ pass' \in [Sessions -> Passes] /\ pass'[c] = q
      /\ \A d \in Sessions \ {c} : pass'[d] = pass[d]
  BY <1>5, <1>6 DEF TypeOK
<1>8. TypeOK'
  BY <1>2, <1>4, <1>7 DEF TypeOK
<1>9. Rows'
  BY <1>2, <1>4 DEF Rows, RowInv, Audited
<1>10. \A e \in Events : delivery[e].sequence <= delivery[e].sequence
  BY RowFields DEF TypeOK
<1>11. /\ NoCallbackLost'
       /\ \A d \in Sessions \ {c} : Claims(d)' => ClaimInv(d)'
  BY <1>2, <1>4, <1>7, <1>8, <1>10, OthersKept
<1>12. ClaimInv(c)'
  BY <1>2, <1>3, <1>4, <1>6, <1>7 DEF ClaimInv
<1>13. ClaimsValid'
  BY <1>11, <1>12 DEF ClaimsValid
<1>14. AuditNeverCollides'
  <2>1. \A d \in Sessions : /\ Claims(d)' <=> Claims(d)
                            /\ pass'[d].event = pass[d].event
                            /\ pass'[d].sequence = pass[d].sequence
    BY <1>3, <1>6, <1>7 DEF Claims
  <2> QED BY <1>2, <2>1 DEF AuditNeverCollides
<1>15. BatchesMapped'
  BY <1>6, <1>7 DEF BatchesMapped
<1> QED BY <1>8, <1>9, <1>11, <1>13, <1>14, <1>15

LEMMA RecordInv ==
  ASSUME Inv, NEW c \in Sessions, Record(c)
  PROVE  Inv'
<1> USE DEF Inv
<1>0. PICK e \in Events : e = pass[c].event
  BY DEF Claims, ClaimsValid, ClaimInv, Record
<1> DEFINE k == pass[c].sequence
           o == pass[c].outcome
           a0 == [sequence |-> k, outcome |-> o]
           n == RecordedDelivery(delivery[e], o, pass[c].age)
           p == IF pass[c].left > 1
                  THEN [IdlePass EXCEPT !.phase = "claiming", !.age = pass[c].age,
                                        !.left = pass[c].left - 1]
                  ELSE IdlePass
<1>1. /\ pass[c] \in Passes /\ Claims(c) /\ ClaimInv(c)
      /\ e \in Events /\ k \in Nat /\ 1 <= k /\ o \in Outcomes
      /\ pass[c].age \in Nat /\ pass[c].left \in Nat
      /\ o = "delivered" => e \in received
  BY <1>0, PassFields DEF TypeOK, Claims, ClaimsValid, ClaimInv, Record
<1>2. /\ p \in Passes /\ p.phase \in {"idle", "claiming"} /\ p.batch = {}
  <2>1. CASE pass[c].left > 1
    <3> DEFINE l == pass[c].left - 1
               g == pass[c].age
    <3>1. l \in Nat /\ g \in Nat
      BY <1>1, <2>1
    <3>2. p = [IdlePass EXCEPT !.phase = "claiming", !.age = g, !.left = l]
      BY <2>1
    <3> HIDE DEF l, g, p
    <3> QED BY <3>1, <3>2 DEF IdlePass, Passes, Phases
  <2>2. CASE ~(pass[c].left > 1)
    BY <2>2, IdlePassType
  <2> QED BY <2>1, <2>2
<1>3. /\ pass' = [pass EXCEPT ![c] = p]
      /\ audits' = [audits EXCEPT ![e] = audits[e] \cup {a0}]
      /\ delivery' = IF ClaimIsCurrent(c) THEN [delivery EXCEPT ![e] = n]
                                          ELSE delivery
      /\ log' = log /\ failed' = failed /\ received' = received
      /\ resends' = resends /\ crashes' = crashes
  BY <1>0 DEF Record
<1> HIDE DEF p
<1>4. /\ pass' \in [Sessions -> Passes] /\ pass'[c] = p
      /\ \A d \in Sessions \ {c} : pass'[d] = pass[d]
  BY <1>2, <1>3 DEF TypeOK
<1>5. a0 \in Audits /\ a0.sequence = k /\ a0.outcome = o
  BY <1>1 DEF Audits
<1>6. /\ audits' \in [Events -> SUBSET Audits]
      /\ audits'[e] = audits[e] \cup {a0}
      /\ \A x \in Events \ {e} : audits'[x] = audits[x]
  BY <1>1, <1>3, <1>5 DEF TypeOK
<1>7. /\ delivery[e] \in Deliveries /\ RowInv(e)
      /\ delivery[e].sequence \in Nat /\ delivery[e].attempt \in Nat
      /\ delivery[e].attempt <= MaximumAttempts /\ k <= delivery[e].sequence
  BY <1>0, <1>1, RowFields DEF TypeOK, Rows, RowInv, ClaimInv
<1>8. /\ n \in Deliveries
      /\ n.attempt = delivery[e].attempt /\ n.sequence = delivery[e].sequence
      /\ n.status \in {"succeeded", "retry_wait", "failed"}
      /\ n.status = "succeeded" => o = "delivered"
      /\ n.status = "retry_wait" => o = "retryable" /\ ~Spent(n)
      /\ n.status = "failed" => Spent(n) \/ o = "permanent"
  BY <1>1, <1>7, RecordedRow
<1> HIDE DEF n, a0
<1>9. /\ delivery' \in [Events -> Deliveries]
      /\ \A x \in Events \ {e} : delivery'[x] = delivery[x]
      /\ delivery'[e] = IF ClaimIsCurrent(c) THEN n ELSE delivery[e]
  BY <1>1, <1>3, <1>8 DEF TypeOK
<1>10. TypeOK'
  BY <1>3, <1>4, <1>6, <1>9 DEF TypeOK
<1>11. /\ delivery'[e].sequence = delivery[e].sequence
       /\ delivery'[e].status = "none" => delivery[e].status = "none"
  BY <1>8, <1>9
<1>12. RowInv(e)'
  <2>1. \A a \in audits'[e] :
          1 <= a.sequence /\ a.sequence <= delivery'[e].sequence
    BY <1>1, <1>5, <1>6, <1>7, <1>11 DEF RowInv
  <2>2. CASE ClaimIsCurrent(c)
    <3>1. delivery'[e] = n /\ k = n.sequence
      BY <1>0, <1>8, <1>9, <2>2 DEF ClaimIsCurrent
    <3>2. [sequence |-> n.sequence, outcome |-> o] \in audits'[e]
      BY <1>6, <3>1 DEF a0
    <3>3. /\ n.status = "succeeded" => Audited(e, "delivered")' /\ e \in received'
          /\ n.status = "retry_wait" => Audited(e, "retryable")' /\ ~Spent(n)
          /\ n.status = "failed" => Spent(n) \/ Audited(e, "permanent")'
      BY <1>1, <1>3, <1>8, <3>1, <3>2 DEF Audited
    <3> QED BY <1>7, <1>8, <2>1, <3>1, <3>3 DEF RowInv
  <2>3. CASE ~ClaimIsCurrent(c)
    <3>1. delivery'[e] = delivery[e] /\ audits[e] \subseteq audits'[e]
      BY <1>6, <1>9, <2>3
    <3> QED BY <1>3, <1>7, <2>1, <3>1 DEF RowInv, Audited
  <2> QED BY <2>2, <2>3
<1>13. Rows'
  <2> SUFFICES ASSUME NEW x \in Events, x # e PROVE RowInv(x)'
    BY <1>12 DEF Rows
  <2>1. delivery'[x] = delivery[x] /\ audits'[x] = audits[x] /\ RowInv(x)
    BY <1>6, <1>9 DEF Rows
  <2> QED BY <1>3, <2>1 DEF RowInv, Audited
<1>14. \A d \in Sessions \ {c} : Claims(d) =>
         \A a \in audits'[pass[d].event] : a.sequence # pass[d].sequence
  <2> SUFFICES ASSUME NEW d \in Sessions \ {c}, Claims(d),
                      NEW a \in audits'[pass[d].event]
               PROVE  a.sequence # pass[d].sequence
    OBVIOUS
  <2>1. pass[d].event \in Events
    BY DEF ClaimsValid, ClaimInv
  <2>2. CASE a \in audits[pass[d].event]
    BY <2>2 DEF AuditNeverCollides
  <2>3. CASE a \notin audits[pass[d].event]
    <3>1. pass[d].event = e /\ a = a0
      BY <1>6, <2>1, <2>3
    <3> QED BY <1>0, <1>1, <1>5, <3>1 DEF AuditNeverCollides
  <2> QED BY <2>2, <2>3
<1>15. \A x \in Events :
         /\ delivery[x].sequence <= delivery'[x].sequence
         /\ delivery'[x].status = "none" => delivery[x].status = "none"
  <2>1. \A x \in Events : delivery'[x].sequence = delivery[x].sequence
                          /\ delivery[x].sequence \in Nat
    BY <1>9, <1>11, RowFields DEF TypeOK
  <2> QED BY <1>9, <1>11, <2>1
<1> HIDE DEF k, o
<1> QED BY <1>2, <1>3, <1>4, <1>10, <1>13, <1>14, <1>15, PassEnds

LEMMA CrashInv ==
  ASSUME Inv, NEW c \in Sessions, Crash(c)
  PROVE  Inv'
<1> USE DEF Inv
<1>1. /\ log' = log /\ failed' = failed /\ delivery' = delivery
      /\ audits' = audits /\ resends' = resends
      /\ crashes' \in [Sessions -> Nat]
  BY DEF Crash, TypeOK
<1>2. received \subseteq received' /\ received' \subseteq Events
  BY DEF Crash, TypeOK, ClaimsValid, ClaimInv, Claims
<1>3. /\ pass' \in [Sessions -> Passes] /\ pass'[c] = IdlePass
      /\ \A d \in Sessions \ {c} : pass'[d] = pass[d]
  BY IdlePassType DEF Crash, TypeOK
<1>4. TypeOK'
  BY <1>1, <1>2, <1>3 DEF TypeOK
<1>5. Rows'
  BY <1>1, <1>2 DEF Rows, RowInv, Audited
<1>6. \A e \in Events : delivery[e].sequence <= delivery[e].sequence
  BY RowFields DEF TypeOK
<1>7. \A d \in Sessions \ {c} : Claims(d) =>
        \A a \in audits'[pass[d].event] : a.sequence # pass[d].sequence
  BY <1>1 DEF AuditNeverCollides
<1> QED BY <1>1, <1>2, <1>3, <1>4, <1>5, <1>6, <1>7, PassEnds, IdlePassType

(* Steps outside the sessions that rewrite delivery rows, keeping their    *)
(* sequences, and leave the claims as they are.                            *)
LEMMA RowsRewritten ==
  ASSUME Inv, TypeOK', Rows',
         UNCHANGED <<log, audits, received>>,
         \A c \in Sessions :
           /\ pass'[c].phase = pass[c].phase /\ pass'[c].event = pass[c].event
           /\ pass'[c].sequence = pass[c].sequence
           /\ pass'[c].outcome = pass[c].outcome
           /\ pass'[c].batch = pass[c].batch /\ pass'[c].mapped = pass[c].mapped,
         \A e \in Events :
           /\ delivery'[e].sequence = delivery[e].sequence
           /\ delivery'[e].status = "none" => delivery[e].status = "none"
  PROVE  Inv'
<1> USE DEF Inv
<1>1. NoCallbackLost'
  BY EventsAssumption DEF NoCallbackLost
<1>2. \A c \in Sessions : Claims(c)' <=> Claims(c)
  BY DEF Claims
<1>3. ClaimsValid'
  BY <1>2 DEF ClaimsValid, ClaimInv
<1>4. AuditNeverCollides'
  BY <1>2 DEF AuditNeverCollides
<1>5. BatchesMapped'
  BY DEF BatchesMapped
<1> QED BY <1>1, <1>3, <1>4, <1>5

LEMMA ResendInv ==
  ASSUME Inv, NEW e \in Events, retry(e)
  PROVE  Inv'
<1> USE DEF Inv
<1> DEFINE n == ResentDelivery(delivery[e])
<1>1. /\ n \in Deliveries /\ n.status = "pending" /\ n.attempt = 0
      /\ n.sequence = delivery[e].sequence
  BY ResentRow DEF TypeOK
<1>2. /\ delivery' = [delivery EXCEPT ![e] = n]
      /\ UNCHANGED <<log, failed, audits, received, pass, crashes>>
      /\ resends' \in [Events -> Nat]
  BY DEF retry, TypeOK
<1> HIDE DEF n
<1>3. /\ delivery' \in [Events -> Deliveries] /\ delivery'[e] = n
      /\ \A x \in Events \ {e} : delivery'[x] = delivery[x]
  BY <1>1, <1>2 DEF TypeOK
<1>4. TypeOK'
  BY <1>2, <1>3 DEF TypeOK
<1>5. Rows'
  <2> SUFFICES ASSUME NEW x \in Events PROVE RowInv(x)'
    BY DEF Rows
  <2>1. RowInv(x)
    BY DEF Rows
  <2>2. CASE x = e
    BY <1>1, <1>2, <1>3, <2>1, <2>2, LimitsAssumption DEF RowInv, Spent
  <2>3. CASE x # e
    BY <1>2, <1>3, <2>1, <2>3 DEF RowInv, Audited
  <2> QED BY <2>2, <2>3
<1>6. \A x \in Events :
        /\ delivery'[x].sequence = delivery[x].sequence
        /\ delivery'[x].status = "none" => delivery[x].status = "none"
  BY <1>1, <1>3
<1> QED BY <1>2, <1>4, <1>5, <1>6, RowsRewritten

LEMMA TickInv ==
  ASSUME Inv, Tick
  PROVE  Inv'
<1> USE DEF Inv
<1>1. ASSUME NEW e \in Events
      PROVE  /\ delivery'[e] \in Deliveries
             /\ delivery'[e].status = delivery[e].status
             /\ delivery'[e].attempt = delivery[e].attempt
             /\ delivery'[e].sequence = delivery[e].sequence
  <2> DEFINE r == delivery[e]
             g == IF r.status = "delivering" /\ r.age < MaxPass + ClaimTimeout
                    THEN r.age + 1 ELSE r.age
             v == IF r.status = "retry_wait" /\ r.wait > -MaxPass
                    THEN r.wait - 1 ELSE r.wait
             n == IF r.status # "none" /\ r.born < MaxPass
                    THEN r.born + 1 ELSE r.born
  <2>1. r \in Deliveries
    BY DEF TypeOK
  <2>2. g \in Nat /\ v \in Int /\ n \in Nat
    BY <2>1, RowFields
  <2>3. delivery'[e] = [r EXCEPT !.age = g, !.wait = v, !.born = n]
    BY DEF Tick
  <2> HIDE DEF r, g, v, n
  <2> QED BY <2>1, <2>2, <2>3 DEF Deliveries, r
<1>2. ASSUME NEW c \in Sessions
      PROVE  /\ pass'[c] \in Passes
             /\ pass'[c].phase = pass[c].phase /\ pass'[c].event = pass[c].event
             /\ pass'[c].sequence = pass[c].sequence
             /\ pass'[c].outcome = pass[c].outcome
             /\ pass'[c].batch = pass[c].batch /\ pass'[c].mapped = pass[c].mapped
  <2> DEFINE p == pass[c]
             g == p.age + 1
  <2>1. p \in Passes
    BY DEF TypeOK
  <2>2. g \in Nat
    BY <2>1, PassFields
  <2>3. pass'[c] = p \/ pass'[c] = [p EXCEPT !.age = g]
    BY DEF Tick
  <2> HIDE DEF p, g
  <2> QED BY <2>1, <2>2, <2>3 DEF Passes, p
<1>3. TypeOK'
  <2>1. delivery' \in [Events -> Deliveries]
    <3>1. delivery' = [e \in Events |-> delivery'[e]]
      BY DEF Tick
    <3> QED BY <1>1, <3>1
  <2>2. pass' \in [Sessions -> Passes]
    <3>1. pass' = [c \in Sessions |-> pass'[c]]
      BY DEF Tick
    <3> QED BY <1>2, <3>1
  <2> QED BY <2>1, <2>2 DEF TypeOK, Tick
<1>4. Rows'
  BY <1>1 DEF Rows, RowInv, Audited, Spent, Tick
<1>5. UNCHANGED <<log, audits, received>>
  BY DEF Tick
<1> QED BY <1>1, <1>2, <1>3, <1>4, <1>5, RowsRewritten

LEMMA StutterInv ==
  ASSUME Inv, UNCHANGED vars
  PROVE  Inv'
  BY DEF vars, Inv, TypeOK, Rows, RowInv, Audited, ClaimsValid, ClaimInv, Claims,
         AuditNeverCollides, NoCallbackLost, BatchesMapped

LEMMA NextInv == Inv /\ [Next]_vars => Inv'
<1> SUFFICES ASSUME Inv, [Next]_vars PROVE Inv'
  OBVIOUS
<1>1. ASSUME NEW e \in Events, Publish(e) PROVE Inv'
  BY <1>1, PublishInv
<1>2. ASSUME NEW e \in Events, retry(e) PROVE Inv'
  BY <1>2, ResendInv
<1>3. ASSUME NEW t \in Tasks, RetryTask(t) PROVE Inv'
  BY <1>3, RetryTaskInv
<1>4. ASSUME NEW c \in Sessions, Step(c) PROVE Inv'
  BY <1>4, BeginPassInv, MaterializeInv, ClaimInvariant, DeliverInv, RecordInv
     DEF Step
<1>5. ASSUME NEW c \in Sessions, Crash(c) PROVE Inv'
  BY <1>5, CrashInv
<1>6. CASE Tick
  BY <1>6, TickInv
<1>7. CASE UNCHANGED vars
  BY <1>7, StutterInv
<1> QED BY <1>1, <1>2, <1>3, <1>4, <1>5, <1>6, <1>7 DEF Next

-----------------------------------------------------------------------------
(* The inductive invariant holds in every reachable state. *)
THEOREM Invariance == Spec => []Inv
<1>1. Init => Inv
  BY InitInv
<1>2. Inv /\ [Next]_vars => Inv'
  BY NextInv
<1> QED BY <1>1, <1>2, PTL DEF Spec

(* The rows and the passes always hold values of their types. *)
THEOREM TypeCorrect == Spec => []TypeOK
<1>1. Inv => TypeOK
  BY DEF Inv
<1> QED BY <1>1, Invariance, PTL

(* However many dispatchers take over from one another and however often a *)
(* delivery is resent, no two claims share a sequence: the unique key of   *)
(* callback_attempts never makes record_result fail.                       *)
THEOREM AuditUnique == Spec => []AuditNeverCollides
<1>1. Inv => AuditNeverCollides
  BY DEF Inv
<1> QED BY <1>1, Invariance, PTL

(* A delivery that claim_due and record_result have left as succeeded was  *)
(* accepted by the receiver, one left as failed has spent its round or met *)
(* a permanent error.                                                      *)
THEOREM Explained == Spec => []StatusExplained
<1>1. Inv => StatusExplained
  BY DEF Inv, Rows, RowInv, StatusExplained
<1> QED BY <1>1, Invariance, PTL

(* A round never spends more than callback_maximum_attempts claims. *)
THEOREM Bounded == Spec => []RoundsBounded
<1>1. Inv => RoundsBounded
  BY DEF Inv, Rows, RowInv, RoundsBounded
<1> QED BY <1>1, Invariance, PTL

(* Concurrent transactions of materialize lose no callback other than that *)
(* of a failure.                                                           *)
THEOREM NothingLost == Spec => []NoCallbackLost
<1>1. Inv => NoCallbackLost
  BY DEF Inv
<1> QED BY <1>1, Invariance, PTL
=============================================================================
