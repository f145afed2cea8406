----------------------------- MODULE EventStream -----------------------------
(***************************************************************************)
(* The event log and its server-sent event streams: DatabaseEventBus       *)
(* (parser_serve/persistence/events.py), the stream endpoint               *)
(* (parser_serve/api/routes/events.py), the retention of events            *)
(* (parser_serve/control/retention.py) and a client that resumes with      *)
(* Last-Event-ID as the web interface does                                 *)
(* (web/src/composables/useTaskEvents.ts).                                 *)
(*                                                                         *)
(* A handler stamps an event with the time it has read and commits it some *)
(* time later.  A stream polls for what comes after its cursor in the      *)
(* order of (occurred_at, event_id), sends one event after the other, and  *)
(* may break at any point; the client then goes on behind the last event   *)
(* it has received.  Events are the ones that the stream's filters admit.  *)
(***************************************************************************)
EXTENDS Naturals, FiniteSets

CONSTANTS
  Events,       \* event ids: their order is the one of event_id
  NoEvent,      \* no cursor
  Limit,        \* events of one poll
  Retention,    \* event_retention_seconds
  MaxTime,      \* bound: the clock
  MaxBreaks     \* bound: connections that break

ASSUME EventsAssumption == Events \subseteq Nat /\ NoEvent \notin Events
ASSUME LimitsAssumption ==
  /\ Limit \in Nat \ {0} /\ Retention \in Nat \ {0}
  /\ MaxTime \in Nat /\ MaxBreaks \in Nat

VARIABLES
  now,
  row,       \* the event row: not there, in an open transaction, stored, deleted
  at,        \* occurred_at
  order,     \* the events in the order of their commits: position, or 0
  commits,   \* commits so far
  stream,    \* the server's side of the connection
  last,      \* the client's last event id
  seen,      \* what the client has received since it began at the beginning
  breaks     \* connections broken so far

vars == <<now, row, at, order, commits, stream, last, seen, breaks>>

Rows == {"none", "open", "stored", "deleted"}

Closed == [open |-> FALSE, current |-> NoEvent, batch |-> {}]

Streams ==
  [open : BOOLEAN, current : Events \cup {NoEvent}, batch : SUBSET Events]

(* The order of the log: by occurred_at, then by event_id. *)
Before(d, e) == at[d] < at[e] \/ (at[d] = at[e] /\ d < e)

Stored == {e \in Events : row[e] = "stored"}

-----------------------------------------------------------------------------
(* A handler publishes an event with the time at which it began ... *)
Publish(e) ==
  /\ row[e] = "none"
  /\ row' = [row EXCEPT ![e] = "open"]
  /\ at' = [at EXCEPT ![e] = now]
  /\ UNCHANGED <<now, order, commits, stream, last, seen, breaks>>

(* ... and commits or is rolled back. *)
Commit(e) ==
  /\ row[e] = "open"
  /\ row' = [row EXCEPT ![e] = "stored"]
  /\ commits' = commits + 1
  /\ order' = [order EXCEPT ![e] = commits + 1]
  /\ UNCHANGED <<now, at, stream, last, seen, breaks>>

Rollback(e) ==
  /\ row[e] = "open"
  /\ row' = [row EXCEPT ![e] = "none"]
  /\ UNCHANGED <<now, at, order, commits, stream, last, seen, breaks>>

(* The retention service deletes an event that is old enough.  (A source   *)
(* of callbacks is spared until it is processed; that may be any time.)    *)
Outdated(e) == row[e] = "stored" /\ at[e] + Retention <= now

Delete(e) ==
  /\ Outdated(e)
  /\ row' = [row EXCEPT ![e] = "deleted"]
  /\ UNCHANGED <<now, at, order, commits, stream, last, seen, breaks>>

Tick ==
  /\ now < MaxTime
  /\ now' = now + 1
  /\ UNCHANGED <<row, at, order, commits, stream, last, seen, breaks>>

-----------------------------------------------------------------------------
(* Definitions named X_... are faulty variants of X: the mutants that show *)
(* each property can fail.                                                 *)

(* The client connects with its last event id; the endpoint refuses one    *)
(* that does not exist any more, and the client begins anew without it.    *)
Connect ==
  /\ ~stream.open
  /\ last = NoEvent \/ last \in Stored
  /\ stream' = [open |-> TRUE, current |-> last, batch |-> {}]
  /\ UNCHANGED <<now, row, at, order, commits, last, seen, breaks>>

Refuse_keeps_cursor ==
  /\ ~stream.open
  /\ last # NoEvent /\ last \notin Stored
  /\ UNCHANGED vars

Refuse ==
  /\ ~stream.open
  /\ last # NoEvent /\ last \notin Stored
  /\ last' = NoEvent
  /\ seen' = {}
  /\ UNCHANGED <<now, row, at, order, commits, stream, breaks>>

(* What follows a cursor; nothing follows one that has been deleted. *)
Following_by_time(cursor) ==
  {e \in Stored : cursor = NoEvent \/ (cursor \in Stored /\ at[cursor] < at[e])}

Following(cursor) ==
  {e \in Stored : cursor = NoEvent \/ (cursor \in Stored /\ Before(cursor, e))}

(* The page that a query with an order and a limit returns. *)
Page(batch, found) ==
  /\ batch \subseteq found /\ Cardinality(batch) <= Limit
  /\ batch = found \/ Cardinality(batch) = Limit
  /\ \A e \in batch, d \in found \ batch : Before(e, d)

Poll ==
  /\ stream.open /\ stream.batch = {}
  /\ Following(stream.current) # {}
  /\ \E batch \in SUBSET Following(stream.current) :
       /\ Page(batch, Following(stream.current))
       /\ stream' = [stream EXCEPT !.batch = batch]
  /\ UNCHANGED <<now, row, at, order, commits, last, seen, breaks>>

(* The next event of the page is sent and received. *)
Send_keeps_cursor ==
  /\ stream.open
  /\ \E e \in stream.batch :
       /\ \A d \in stream.batch \ {e} : Before(e, d)
       /\ stream' = [stream EXCEPT !.batch = @ \ {e}]
       /\ last' = e
       /\ seen' = seen \cup {e}
  /\ UNCHANGED <<now, row, at, order, commits, breaks>>

Send ==
  /\ stream.open
  /\ \E e \in stream.batch :
       /\ \A d \in stream.batch \ {e} : Before(e, d)
       /\ stream' = [stream EXCEPT !.current = e, !.batch = @ \ {e}]
       /\ last' = e
       /\ seen' = seen \cup {e}
  /\ UNCHANGED <<now, row, at, order, commits, breaks>>

(* The connection ends: the client leaves, is too slow, or the database    *)
(* fails; what the server has polled or sent by then is lost.              *)
Break ==
  /\ stream.open /\ breaks < MaxBreaks
  /\ stream' = Closed
  /\ breaks' = breaks + 1
  /\ UNCHANGED <<now, row, at, order, commits, last, seen>>

-----------------------------------------------------------------------------
Init ==
  /\ now = 0
  /\ row = [e \in Events |-> "none"]
  /\ at = [e \in Events |-> 0]
  /\ order = [e \in Events |-> 0]
  /\ commits = 0
  /\ stream = Closed
  /\ last = NoEvent /\ seen = {}
  /\ breaks = 0

Next ==
  \/ \E e \in Events : Publish(e) \/ Commit(e) \/ Rollback(e) \/ Delete(e)
  \/ Tick
  \/ Connect \/ Refuse \/ Poll \/ Send \/ Break

Spec == Init /\ [][Next]_vars

(* The client reconnects and the server keeps polling and sending. *)
FairSpec ==
  Spec /\ WF_vars(Connect) /\ WF_vars(Refuse) /\ WF_vars(Poll) /\ WF_vars(Send)

-----------------------------------------------------------------------------
(* The type invariant. *)
TypeOK ==
  /\ now \in Nat /\ commits \in Nat /\ breaks \in Nat
  /\ row \in [Events -> Rows]
  /\ at \in [Events -> Nat] /\ order \in [Events -> Nat]
  /\ stream \in Streams
  /\ last \in Events \cup {NoEvent} /\ seen \subseteq Events

(* A client receives the events in the order of the log and none of them   *)
(* twice, over all connections it resumes, until a refusal makes it begin  *)
(* anew: what the server is about to send follows all that the client has. *)
InOrderOnce == \A e \in stream.batch, d \in seen : Before(d, e)

(* An event was committed behind the back of the stream: another that      *)
(* comes later in the log was committed before it.                         *)
Overtaken(e) ==
  \E d \in seen : Before(e, d) /\ order[d] < order[e]

(* The only gaps are such events.  Neither the limit of a poll nor a       *)
(* connection that breaks within a page leaves out any other.              *)
GapsOvertaken ==
  last # NoEvent =>
    \A e \in Stored \ seen : Before(e, last) => Overtaken(e)

(* Every stored event reaches the client, unless it was overtaken, or the  *)
(* event under the cursor has been deleted while the stream was open.      *)
CursorGone == stream.open /\ last # NoEvent /\ last \notin Stored

EventsArrive ==
  \A e \in Events :
    row[e] = "stored" ~> e \in seen \/ row[e] = "deleted" \/ Overtaken(e) \/ CursorGone
=============================================================================
