------------------------------ MODULE ApiKeys ------------------------------
(* API keys: the requests that create, change, rotate and delete them, and *)
(* the requests of the HTTP API and of the MCP transport that present one. *)
(* A secret is the key it was issued for and its generation; its digest    *)
(* stands for it. A request is a transaction of its own: it reads the      *)
(* clock, reads rows that others may have locked or change, and commits.   *)
EXTENDS Integers, FiniteSets

CONSTANTS
  KeyIds,           \* api_key_id
  KeyWorkers,       \* worker_id a worker key may be bound to
  NoWorkerId,       \* no worker_id
  Admins,           \* management requests in flight
  Callers,          \* requests that present a secret
  ConfiguredKey,    \* an ordinary key of the deployment's settings
  ConfiguredWorkerKey,  \* a worker key of the deployment's settings
  MaxKeyTime,       \* bound: the clock
  MaxGeneration     \* bound: rotations of a key

ASSUME BoundsAssumption == MaxKeyTime \in Nat \ {0} /\ MaxGeneration \in Nat

VARIABLES
  apiKeys,     \* the rows
  keyClock,    \* the clock of the control planes
  admin,       \* what each management request is doing
  caller,      \* what each authenticated request is doing
  fit          \* history: the secret of the request has been usable since
               \* the request began

keyVars == <<apiKeys, keyClock, admin, caller, fit>>

Kinds == {"ordinary", "worker"}

NoApiKey == [state |-> "none"]

(* 0 is an expires_at without a value. *)
Expiries == 0..MaxKeyTime

ApiKeyRows ==
  [state : {"row"}, kind : Kinds, worker : KeyWorkers \cup {NoWorkerId},
   enabled : BOOLEAN, expires : Expiries, generation : 0..MaxGeneration]

Secrets ==
  [id : KeyIds, generation : 0..MaxGeneration]
    \cup {ConfiguredKey, ConfiguredWorkerKey}

IdleAdmin == [phase |-> "idle"]

IdleCaller == [phase |-> "idle"]

KeyRows(state) == {k \in KeyIds : apiKeys[k].state = state}

-----------------------------------------------------------------------------
(* Definitions named X_... are faulty variants of X: the mutants that show *)
(* each property can fail.                                                 *)

_is_active_ever(row, now) == row.enabled

_is_active(row, now) == row.enabled /\ (row.expires = 0 \/ row.expires > now)

(* The keys that are counted besides k: what has been committed. *)
Others_any_kind(k, now) ==
  {j \in KeyRows("row") \ {k} : _is_active(apiKeys[j], now)}

Others(k, now) ==
  {j \in KeyRows("row") \ {k} :
     apiKeys[j].kind = "ordinary" /\ _is_active(apiKeys[j], now)}

_require_another_active_key(k, now) == Others(k, now) # {}

_validate_expiration(expires, now) == expires = 0 \/ expires > now

(* A worker key names the worker it is for, an ordinary key none. *)
validate_worker_binding(kind, worker) ==
  (kind = "worker") <=> (worker # NoWorkerId)

create(k, kind, worker, expires) ==
  /\ apiKeys[k] = NoApiKey
  /\ validate_worker_binding(kind, worker)
  /\ _validate_expiration(expires, keyClock)
  /\ apiKeys' = [apiKeys EXCEPT ![k] =
       [state |-> "row", kind |-> kind, worker |-> worker, enabled |-> TRUE,
        expires |-> expires, generation |-> 0]]
  /\ UNCHANGED <<keyClock, admin, caller>>

-----------------------------------------------------------------------------
(* update, rotate and delete. A change leaves enabled or expires_at alone  *)
(* when it says "same" or 0.                                               *)
Changes ==
  [op : {"update"}, enabled : {"same", "on", "off"}, expires : Expiries]
    \cup {[op |-> "rotate"], [op |-> "delete"]}

require_change(c) == c.op = "update" => c.enabled # "same" \/ c.expires # 0

AdminBegin(a, k, c) ==
  /\ admin[a] = IdleAdmin
  /\ require_change(c)
  /\ c.op = "update" => _validate_expiration(c.expires, keyClock)
  /\ admin' = [admin EXCEPT ![a] =
       [phase |-> "begun", id |-> k, change |-> c, now |-> keyClock]]
  /\ UNCHANGED <<apiKeys, keyClock, caller>>

(* _get_for_update holds the row until the transaction ends. *)
KeyLocked(k) ==
  \E a \in Admins : admin[a].phase = "writing" /\ admin[a].id = k

update(row, c) ==
  [row EXCEPT !.enabled = IF c.enabled = "same" THEN @ ELSE c.enabled = "on",
              !.expires = IF c.expires = 0 THEN @ ELSE c.expires]

rotate(row) == [row EXCEPT !.generation = @ + 1]

Written(row, c) ==
  CASE c.op = "update" -> update(row, c)
    [] c.op = "rotate" -> rotate(row)
    [] c.op = "delete" -> NoApiKey

(* The change would take an active ordinary key out of use. *)
Deactivates(row, c, now) ==
  /\ row.kind = "ordinary" /\ _is_active(row, now)
  /\ c.op = "delete" \/ (c.op = "update" /\ ~_is_active(update(row, c), now))

(* The row is locked and read, the other keys are counted, the change is   *)
(* flushed; 404 and 409 end the request.                                   *)
AdminWrite(a) ==
  /\ admin[a].phase = "begun" /\ ~KeyLocked(admin[a].id)
  /\ LET row == apiKeys[admin[a].id]
         c == admin[a].change
     IN IF \/ row = NoApiKey
           \/ /\ Deactivates(row, c, admin[a].now)
              /\ ~_require_another_active_key(admin[a].id, admin[a].now)
          THEN admin' = [admin EXCEPT ![a] = IdleAdmin]
          ELSE /\ c.op = "rotate" => row.generation < MaxGeneration
               /\ admin' = [admin EXCEPT ![a] =
                    [phase |-> "writing", id |-> @.id, now |-> @.now,
                     row |-> Written(row, c)]]
  /\ UNCHANGED <<apiKeys, keyClock, caller>>

AdminCommit(a) ==
  /\ admin[a].phase = "writing"
  /\ apiKeys' = [apiKeys EXCEPT ![admin[a].id] = admin[a].row]
  /\ admin' = [admin EXCEPT ![a] = IdleAdmin]
  /\ UNCHANGED <<keyClock, caller>>

(* 503: the database fails and the transaction is rolled back. *)
AdminAbort(a) ==
  /\ admin[a].phase = "writing"
  /\ admin' = [admin EXCEPT ![a] = IdleAdmin]
  /\ UNCHANGED <<apiKeys, keyClock, caller>>

-----------------------------------------------------------------------------
(* The endpoints a request may be for: the API (require_api_key), the MCP  *)
(* transport (McpApiKeyMiddleware) and the worker endpoints                *)
(* (require_worker_api_key), the latter in the name of a worker.           *)
Gates ==
  {[gate |-> "api", worker |-> NoWorkerId],
   [gate |-> "mcp", worker |-> NoWorkerId]}
    \cup [gate : {"worker"}, worker : KeyWorkers]

KindOf(g) == IF g.gate = "worker" THEN "worker" ELSE "ordinary"

Configured(g) ==
  IF g.gate = "worker" THEN ConfiguredWorkerKey ELSE ConfiguredKey

(* What the headers Authorization and X-API-Key of a request may hold: at  *)
(* most one secret each, the former under a scheme (what another scheme    *)
(* than Bearer carries is not looked at).                                  *)
Authorizations ==
  {{}, {[scheme |-> "other", secret |-> ConfiguredKey]}}
    \cup {{a} : a \in [scheme : {"bearer"}, secret : Secrets]}

HeaderKeys == {{}} \cup {{s} : s \in Secrets}

(* The secret that both headers agree on; none if a scheme is not Bearer.  *)
_extract_api_key(authorization, header) ==
  LET named == {a.secret : a \in authorization} \cup header
  IN IF (\A a \in authorization : a.scheme = "bearer") /\ Cardinality(named) = 1
       THEN named ELSE {}

_candidate(authorization, header) == _extract_api_key(authorization, header)

(* A configured key is enough; for another the clock is read. *)
CallBegin(r, g, authorization, header) ==
  /\ caller[r] = IdleCaller
  /\ \E s \in IF g.gate = "mcp" THEN _candidate(authorization, header)
              ELSE _extract_api_key(authorization, header) :
       caller' = [caller EXCEPT ![r] =
         [phase |-> IF s = Configured(g) THEN "accepted" ELSE "begun",
          for |-> g, secret |-> s, now |-> keyClock]]
  /\ UNCHANGED <<apiKeys, keyClock, admin>>

(* The row with the digest of the secret and the kind of the endpoint. *)
Matches(s, g) ==
  {k \in KeyRows("row") :
     /\ s \notin {ConfiguredKey, ConfiguredWorkerKey}
     /\ k = s.id /\ apiKeys[k].generation = s.generation
     /\ apiKeys[k].kind = KindOf(g)}

authenticate(r) ==
  /\ caller[r].phase = "begun"
  /\ LET found == {k \in Matches(caller[r].secret, caller[r].for) :
                     _is_active(apiKeys[k], caller[r].now)}
     IN caller' = [caller EXCEPT ![r] =
          IF found = {} THEN [@ EXCEPT !.phase = "refused"]
          ELSE [phase |-> "read", for |-> @.for, secret |-> @.secret,
                now |-> @.now, bound |-> apiKeys[caller[r].secret.id].worker]]
  /\ UNCHANGED <<apiKeys, keyClock, admin>>

(* A key bound to a worker serves that worker. *)
_require_worker_identity(bound, worker) == bound = NoWorkerId \/ bound = worker

(* A failing database is answered with 503, by MCP with 401. *)
Unavailable(g) == IF g.gate = "mcp" THEN "refused" ELSE "unavailable"

(* last_used_at is written and committed: a row that has gone meanwhile    *)
(* fails the flush.                                                        *)
CallEnd(r) ==
  /\ caller[r].phase = "read" /\ ~KeyLocked(caller[r].secret.id)
  /\ caller' = [caller EXCEPT ![r] =
       [phase |->
          IF apiKeys[@.secret.id] = NoApiKey THEN Unavailable(@.for)
          ELSE IF _require_worker_identity(@.bound, @.for.worker)
                 THEN "accepted" ELSE "refused",
        for |-> @.for, secret |-> @.secret, now |-> @.now]]
  /\ UNCHANGED <<apiKeys, keyClock, admin>>

KeyTick ==
  /\ keyClock < MaxKeyTime
  /\ keyClock' = keyClock + 1
  /\ UNCHANGED <<apiKeys, admin, caller>>

-----------------------------------------------------------------------------
(* The secret of r is that of an enabled key of the right kind and worker  *)
(* that had not expired when the request began.                            *)
Usable(r) ==
  /\ caller[r] # IdleCaller
  /\ \E k \in Matches(caller[r].secret, caller[r].for) :
       /\ apiKeys[k].enabled
       /\ apiKeys[k].expires = 0 \/ apiKeys[k].expires > caller[r].now
       /\ apiKeys[k].worker \in {NoWorkerId, caller[r].for.worker}

Witnessed ==
  fit' = [r \in Callers |-> caller'[r] # IdleCaller /\ (fit[r] \/ Usable(r)')]

KeysInit ==
  /\ apiKeys = [k \in KeyIds |-> NoApiKey]
  /\ keyClock = 1
  /\ admin = [a \in Admins |-> IdleAdmin]
  /\ caller = [r \in Callers |-> IdleCaller]
  /\ fit = [r \in Callers |-> FALSE]

KeyStep ==
  \/ \E k \in KeyIds, kind \in Kinds, worker \in KeyWorkers \cup {NoWorkerId},
        expires \in Expiries : create(k, kind, worker, expires)
  \/ \E a \in Admins, k \in KeyIds, c \in Changes : AdminBegin(a, k, c)
  \/ \E a \in Admins : AdminWrite(a) \/ AdminCommit(a) \/ AdminAbort(a)
  \/ \E r \in Callers, g \in Gates, authorization \in Authorizations,
        header \in HeaderKeys : CallBegin(r, g, authorization, header)
  \/ \E r \in Callers : authenticate(r) \/ CallEnd(r)
  \/ KeyTick

KeysNext == KeyStep /\ Witnessed

KeysSpec == KeysInit /\ [][KeysNext]_keyVars

-----------------------------------------------------------------------------
KeysTypeOK ==
  /\ apiKeys \in [KeyIds -> ApiKeyRows \cup {NoApiKey}]
  /\ keyClock \in 1..MaxKeyTime
  /\ fit \in [Callers -> BOOLEAN]

(* A request is let in only with a configured key of its kind or with the  *)
(* present secret of a key that was enabled at some moment of the request, *)
(* had not expired when it began and serves the worker that is named:      *)
(* rotating, disabling or deleting a key shuts out every request that      *)
(* begins afterwards, whatever else is in flight.                          *)
OnlyLiveKeysAreAccepted ==
  \A r \in Callers :
    caller[r].phase = "accepted" =>
      caller[r].secret = Configured(caller[r].for) \/ fit[r]

Active(now) ==
  {k \in KeyRows("row") : apiKeys[k].kind = "ordinary" /\ _is_active(apiKeys[k], now)}

(* A change that is committed at the time of its check does not take away  *)
(* the last active ordinary key, neither by disabling nor by deleting it.  *)
(* This holds while management requests do not overlap; two that do may    *)
(* each count the key of the other.                                        *)
LastKeyIsProtected ==
  [][\A a \in Admins :
       AdminCommit(a) /\ admin[a].now = keyClock /\ Active(keyClock) # {}
       => Active(keyClock)' # {}]_keyVars
=============================================================================
