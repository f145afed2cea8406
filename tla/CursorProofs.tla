---------------------------- MODULE CursorProofs ----------------------------
(***************************************************************************)
(* Proofs about what clients read by a cursor while others write: the      *)
(* event stream (EventStream) and the pages of the lists                   *)
(* (ManagementLists), for every set of events and rows, every limit,       *)
(* retention and bound.                                                    *)
(*                                                                         *)
(* InOrderOnce and GapsOvertaken are proved by one inductive invariant:    *)
(* besides them it says where the cursor of the stream stands              *)
(* (CursorValid), that what is seen or about to be sent has been committed *)
(* (Committed), and, of a page under way, that whatever it leaves out      *)
(* before one of its events was committed after that event (PageGaps).     *)
(*                                                                         *)
(* PagesCoverRows follows from ListInv: of the rows that have not changed  *)
(* since the listing began, the client has received those up to its cursor *)
(* and no others, in the order that the cursor is bound to (GotOK).        *)
(***************************************************************************)
EXTENDS EventStream, ManagementLists, FiniteSetTheorems, TLAPS

-----------------------------------------------------------------------------
(* The event stream. *)

OrderValid ==
  \A e \in Events :
    /\ order[e] <= commits
    /\ row[e] \in {"stored", "deleted"} => order[e] > 0

CursorValid ==
  /\ stream.open => stream.current = last
  /\ ~stream.open => stream.batch = {}
  /\ last = NoEvent => seen = {}
  /\ last # NoEvent => last \in seen /\ \A d \in seen : d = last \/ Before(d, last)

Committed ==
  \A d \in seen \cup stream.batch : row[d] \in {"stored", "deleted"}

PageGaps ==
  \A e \in Stored \ (seen \cup stream.batch), b \in stream.batch :
    Before(e, b) => Overtaken(e) \/ order[b] < order[e]

Inv ==
  /\ TypeOK /\ OrderValid /\ CursorValid /\ Committed
  /\ InOrderOnce /\ GapsOvertaken /\ PageGaps

-----------------------------------------------------------------------------
(* The order of the log is a strict total order. *)
LEMMA BeforeOrder ==
  ASSUME TypeOK, NEW d \in Events, NEW e \in Events
  PROVE  /\ ~(Before(d, e) /\ Before(e, d)) /\ ~Before(e, e)
         /\ d = e \/ Before(d, e) \/ Before(e, d)
<1>1. /\ d \in Nat /\ e \in Nat /\ at[d] \in Nat /\ at[e] \in Nat
  BY EventsAssumption DEF TypeOK
<1> QED BY <1>1 DEF Before

LEMMA BeforeTransitive ==
  ASSUME TypeOK, NEW c \in Events, NEW d \in Events, NEW e \in Events,
         Before(c, d), Before(d, e)
  PROVE  Before(c, e)
<1>1. /\ c \in Nat /\ d \in Nat /\ e \in Nat
      /\ at[c] \in Nat /\ at[d] \in Nat /\ at[e] \in Nat
  BY EventsAssumption DEF TypeOK
<1> QED BY <1>1 DEF Before

LEMMA StreamFields ==
  ASSUME NEW s \in Streams
  PROVE  s.open \in BOOLEAN /\ s.current \in Events \cup {NoEvent}
         /\ s.batch \subseteq Events
  BY DEF Streams

LEMMA ClosedStream ==
  Closed \in Streams /\ Closed.open = FALSE /\ Closed.batch = {}
  BY DEF Closed, Streams

LEMMA InitInv == Init => Inv
<1> SUFFICES ASSUME Init PROVE Inv
  OBVIOUS
<1>1. TypeOK
  BY ClosedStream DEF Init, TypeOK, Rows
<1>2. stream.open = FALSE /\ stream.batch = {} /\ seen = {} /\ last = NoEvent
  BY ClosedStream DEF Init
<1>3. OrderValid
  BY DEF Init, OrderValid
<1> QED BY <1>1, <1>2, <1>3
     DEF Inv, CursorValid, Committed, InOrderOnce, GapsOvertaken, PageGaps

-----------------------------------------------------------------------------
(* Steps that leave the client, the stream and the order of what has been  *)
(* committed alone, and only take events out of what is stored.            *)
LEMMA LogKept ==
  ASSUME Inv, TypeOK', OrderValid',
         stream' = stream, last' = last, seen' = seen,
         Stored' \subseteq Stored,
         \A e \in Events : row[e] \in {"stored", "deleted"} =>
           /\ row'[e] \in {"stored", "deleted"}
           /\ at'[e] = at[e] /\ order'[e] = order[e]
  PROVE  Inv'
<1> USE DEF Inv
<1>1. seen \subseteq Events /\ stream.batch \subseteq Events
  BY StreamFields DEF TypeOK
<1>2. \A d \in seen \cup stream.batch \cup Stored :
        /\ d \in Events /\ row'[d] \in {"stored", "deleted"}
        /\ at'[d] = at[d] /\ order'[d] = order[d]
  BY <1>1 DEF Committed, Stored
<1>3. \A d, e \in seen \cup stream.batch \cup Stored :
        Before(d, e)' <=> Before(d, e)
  BY <1>2 DEF Before
<1>4. last # NoEvent => last \in seen
  BY DEF CursorValid
<1>5. \A e \in Stored : Overtaken(e) => Overtaken(e)'
  BY <1>2, <1>3 DEF Overtaken
<1>6. CursorValid'
  BY <1>3, <1>4 DEF CursorValid
<1>7. Committed'
  BY <1>2 DEF Committed
<1>8. InOrderOnce'
  BY <1>3 DEF InOrderOnce
<1>9. GapsOvertaken'
  BY <1>3, <1>4, <1>5 DEF GapsOvertaken
<1>10. PageGaps'
  BY <1>2, <1>3, <1>5 DEF PageGaps
<1> QED BY <1>6, <1>7, <1>8, <1>9, <1>10

LEMMA PublishInv ==
  ASSUME Inv, NEW e \in Events, Publish(e)
  PROVE  Inv'
<1> USE DEF Inv
<1>1. TypeOK'
  BY DEF Publish, TypeOK, Rows
<1>2. \A d \in Events : row'[d] \in {"stored", "deleted"} =>
        d # e /\ row[d] = row'[d]
  BY DEF Publish, TypeOK
<1>3. OrderValid'
  BY <1>2 DEF OrderValid, Publish
<1>4. Stored' \subseteq Stored
  BY <1>2 DEF Stored
<1>5. \A d \in Events : row[d] \in {"stored", "deleted"} =>
        row'[d] = row[d] /\ at'[d] = at[d] /\ order'[d] = order[d]
  BY DEF Publish, TypeOK
<1> QED BY <1>1, <1>3, <1>4, <1>5, LogKept DEF Publish

LEMMA RollbackInv ==
  ASSUME Inv, NEW e \in Events, Rollback(e)
  PROVE  Inv'
<1> USE DEF Inv
<1>1. TypeOK'
  BY DEF Rollback, TypeOK, Rows
<1>2. \A d \in Events : row'[d] \in {"stored", "deleted"} =>
        d # e /\ row[d] = row'[d]
  BY DEF Rollback, TypeOK
<1>3. OrderValid'
  BY <1>2 DEF OrderValid, Rollback
<1>4. Stored' \subseteq Stored
  BY <1>2 DEF Stored
<1>5. \A d \in Events : row[d] \in {"stored", "deleted"} =>
        row'[d] = row[d] /\ at'[d] = at[d] /\ order'[d] = order[d]
  BY DEF Rollback, TypeOK
<1> QED BY <1>1, <1>3, <1>4, <1>5, LogKept DEF Rollback

LEMMA DeleteInv ==
  ASSUME Inv, NEW e \in Events, Delete(e)
  PROVE  Inv'
<1> USE DEF Inv
<1>1. TypeOK'
  BY DEF Delete, TypeOK, Rows
<1>2. row[e] = "stored" /\ row' = [row EXCEPT ![e] = "deleted"]
  BY DEF Delete, Outdated
<1>3. OrderValid'
  BY <1>2 DEF OrderValid, Delete, TypeOK
<1>4. Stored' \subseteq Stored
  BY <1>2 DEF Stored, TypeOK
<1>5. \A d \in Events : row[d] \in {"stored", "deleted"} =>
        row'[d] \in {"stored", "deleted"} /\ at'[d] = at[d] /\ order'[d] = order[d]
  BY <1>2 DEF Delete, TypeOK
<1> QED BY <1>1, <1>3, <1>4, <1>5, LogKept DEF Delete

(* A commit comes after all others, and so after the event under the       *)
(* cursor and after those of the page.                                     *)
LEMMA CommitInv ==
  ASSUME Inv, NEW e \in Events, Commit(e)
  PROVE  Inv'
<1> USE DEF Inv
<1>1. /\ row[e] = "open" /\ row' = [row EXCEPT ![e] = "stored"]
      /\ commits' = commits + 1 /\ order' = [order EXCEPT ![e] = commits + 1]
      /\ at' = at /\ stream' = stream /\ last' = last /\ seen' = seen
  BY DEF Commit
<1>2. TypeOK'
  BY DEF Commit, TypeOK, Rows
<1>3. commits \in Nat /\ \A d \in Events : order[d] \in Nat /\ order[d] <= commits
  BY DEF TypeOK, OrderValid
<1>4. \A d \in Events : order'[d] = IF d = e THEN commits + 1 ELSE order[d]
  BY <1>1 DEF TypeOK
<1>5. OrderValid'
  <2> SUFFICES ASSUME NEW d \in Events
               PROVE  /\ order'[d] <= commits'
                      /\ row'[d] \in {"stored", "deleted"} => order'[d] > 0
    BY DEF OrderValid
  <2>1. CASE d = e
    BY <1>1, <1>3, <1>4, <2>1
  <2>2. CASE d # e
    BY <1>1, <1>3, <1>4, <2>2 DEF OrderValid, TypeOK
  <2> QED BY <2>1, <2>2
<1>6. /\ seen \subseteq Events /\ stream.batch \subseteq Events
      /\ \A d \in seen \cup stream.batch :
           d # e /\ row'[d] = row[d] /\ order'[d] = order[d]
  BY <1>1, <1>4, StreamFields DEF TypeOK, Committed
<1>7. \A d \in seen \cup stream.batch : order'[d] < order'[e]
  BY <1>3, <1>4, <1>6
<1>8. \A c, d : Before(c, d)' <=> Before(c, d)
  BY <1>1 DEF Before
<1>9. \A d \in Stored' : d = e \/ (d \in Stored /\ order'[d] = order[d])
  BY <1>1, <1>4 DEF Stored, TypeOK
<1>10. \A d \in Stored : Overtaken(d) /\ d # e => Overtaken(d)'
  BY <1>1, <1>4, <1>6, <1>8 DEF Overtaken, Stored
<1>11. CursorValid'
  BY <1>1, <1>8 DEF CursorValid
<1>12. Committed'
  BY <1>1, <1>6 DEF Committed
<1>13. InOrderOnce'
  BY <1>1, <1>8 DEF InOrderOnce
<1>14. GapsOvertaken'
  <2> SUFFICES ASSUME last # NoEvent, NEW d \in Stored' \ seen, Before(d, last)
               PROVE  Overtaken(d)'
    BY <1>1, <1>8 DEF GapsOvertaken
  <2>1. last \in seen
    BY DEF CursorValid
  <2>2. CASE d = e
    BY <1>1, <1>7, <1>8, <2>1, <2>2 DEF Overtaken
  <2>3. CASE d # e
    BY <1>9, <1>10, <2>3 DEF GapsOvertaken
  <2> QED BY <2>2, <2>3
<1>15. PageGaps'
  <2> SUFFICES ASSUME NEW d \in Stored' \ (seen \cup stream.batch),
                      NEW b \in stream.batch, Before(d, b)
               PROVE  Overtaken(d)' \/ order'[b] < order'[d]
    BY <1>1, <1>8 DEF PageGaps
  <2>1. CASE d = e
    BY <1>7, <2>1
  <2>2. CASE d # e
    BY <1>6, <1>9, <1>10, <2>2 DEF PageGaps
  <2> QED BY <2>1, <2>2
<1> QED BY <1>2, <1>5, <1>11, <1>12, <1>13, <1>14, <1>15

-----------------------------------------------------------------------------
LEMMA ConnectInv ==
  ASSUME Inv, Connect
  PROVE  Inv'
<1> USE DEF Inv
<1> DEFINE s == [open |-> TRUE, current |-> last, batch |-> {}]
<1>1. s \in Streams /\ s.open = TRUE /\ s.current = last /\ s.batch = {}
  BY DEF TypeOK, Streams
<1>2. /\ stream' = s /\ stream.batch = {}
      /\ row' = row /\ at' = at /\ order' = order /\ commits' = commits
      /\ last' = last /\ seen' = seen /\ now' = now /\ breaks' = breaks
  BY DEF Connect, CursorValid
<1> HIDE DEF s
<1>3. TypeOK'
  BY <1>1, <1>2 DEF TypeOK
<1>4. OrderValid' /\ Committed' /\ InOrderOnce' /\ PageGaps'
  BY <1>1, <1>2 DEF OrderValid, Committed, InOrderOnce, PageGaps
<1>5. CursorValid'
  BY <1>1, <1>2 DEF CursorValid, Before
<1>6. GapsOvertaken'
  BY <1>2 DEF GapsOvertaken, Stored, Overtaken, Before
<1> QED BY <1>3, <1>4, <1>5, <1>6

LEMMA RefuseInv ==
  ASSUME Inv, Refuse
  PROVE  Inv'
<1> USE DEF Inv
<1>1. /\ stream' = stream /\ ~stream.open /\ stream.batch = {}
      /\ row' = row /\ at' = at /\ order' = order /\ commits' = commits
      /\ last' = NoEvent /\ seen' = {} /\ now' = now /\ breaks' = breaks
  BY DEF Refuse, CursorValid
<1>2. TypeOK'
  BY <1>1 DEF TypeOK
<1> QED BY <1>1, <1>2 DEF OrderValid, CursorValid, Committed, InOrderOnce,
                          GapsOvertaken, PageGaps

LEMMA BreakInv ==
  ASSUME Inv, Break
  PROVE  Inv'
<1> USE DEF Inv
<1>1. /\ stream' = Closed
      /\ row' = row /\ at' = at /\ order' = order /\ commits' = commits
      /\ last' = last /\ seen' = seen /\ now' = now /\ breaks' = breaks + 1
  BY DEF Break
<1>2. TypeOK'
  BY <1>1, ClosedStream DEF TypeOK
<1>3. OrderValid' /\ Committed' /\ InOrderOnce' /\ PageGaps'
  BY <1>1, ClosedStream DEF OrderValid, Committed, InOrderOnce, PageGaps
<1>4. CursorValid'
  BY <1>1, ClosedStream DEF CursorValid, Before
<1>5. GapsOvertaken'
  BY <1>1 DEF GapsOvertaken, Stored, Overtaken, Before
<1> QED BY <1>2, <1>3, <1>4, <1>5

(* A page takes the first of what follows the cursor: what it leaves out   *)
(* before one of its events lies before the cursor.                        *)
LEMMA PollInv ==
  ASSUME Inv, Poll
  PROVE  Inv'
<1> USE DEF Inv
<1>1. PICK batch \in SUBSET Following(stream.current) :
        /\ Page(batch, Following(stream.current))
        /\ stream' = [stream EXCEPT !.batch = batch]
  BY DEF Poll
<1>2. /\ row' = row /\ at' = at /\ order' = order /\ commits' = commits
      /\ last' = last /\ seen' = seen /\ now' = now /\ breaks' = breaks
      /\ stream.open = TRUE /\ stream.current = last
  BY StreamFields DEF Poll, CursorValid, TypeOK
<1>3. batch \subseteq Following(last) /\ batch \subseteq Stored /\ batch \subseteq Events
  BY <1>1, <1>2 DEF Following, Stored
<1>4. /\ stream' \in Streams /\ stream'.open = TRUE
      /\ stream'.current = last /\ stream'.batch = batch
  BY <1>1, <1>2, <1>3 DEF TypeOK, Streams
<1>5. TypeOK'
  BY <1>2, <1>4 DEF TypeOK
<1>6. \A c, d : Before(c, d)' <=> Before(c, d)
  BY <1>2 DEF Before
<1>7. \A e : Overtaken(e)' <=> Overtaken(e)
  BY <1>2, <1>6 DEF Overtaken
<1>8. last # NoEvent => /\ last \in Events /\ last \in seen
                        /\ \A e \in batch : Before(last, e)
  BY <1>3 DEF Following, CursorValid, TypeOK
<1>9. OrderValid' /\ CursorValid' /\ Committed' /\ GapsOvertaken'
  <2>1. OrderValid'
    BY <1>2 DEF OrderValid
  <2>2. CursorValid'
    BY <1>2, <1>4, <1>6 DEF CursorValid
  <2>3. Committed'
    BY <1>2, <1>3, <1>4 DEF Committed, Stored
  <2>4. GapsOvertaken'
    BY <1>2, <1>6, <1>7 DEF GapsOvertaken, Stored
  <2> QED BY <2>1, <2>2, <2>3, <2>4
<1>10. InOrderOnce'
  <2> SUFFICES ASSUME NEW e \in batch, NEW d \in seen PROVE Before(d, e)
    BY <1>2, <1>4, <1>6 DEF InOrderOnce
  <2>1. last # NoEvent /\ d \in Events /\ e \in Events /\ (d = last \/ Before(d, last))
    BY <1>3 DEF CursorValid, TypeOK
  <2>2. Before(last, e) /\ last \in Events
    BY <1>8, <2>1
  <2> QED BY <2>1, <2>2, BeforeTransitive
<1>11. PageGaps'
  <2> SUFFICES ASSUME NEW e \in Stored \ (seen \cup batch), NEW b \in batch,
                      Before(e, b)
               PROVE  Overtaken(e)
    BY <1>2, <1>4, <1>6, <1>7 DEF PageGaps, Stored
  <2>1. e \in Events /\ b \in Events /\ ~Before(b, e)
    BY <1>3, BeforeOrder DEF Stored
  <2>2. e \notin Following(last)
    BY <1>1, <1>2, <2>1 DEF Page
  <2>3. last # NoEvent
    BY <2>2 DEF Following
  <2>4. last \in Stored
    BY <1>3, <2>3 DEF Following
  <2>5. last # e /\ ~Before(last, e)
    BY <1>8, <2>2, <2>3, <2>4 DEF Following
  <2>6. Before(e, last)
    BY <1>8, <2>1, <2>3, <2>5, BeforeOrder
  <2> QED BY <2>3, <2>6 DEF GapsOvertaken
<1> QED BY <1>5, <1>9, <1>10, <1>11

LEMMA SendInv ==
  ASSUME Inv, Send
  PROVE  Inv'
<1> USE DEF Inv
<1>1. PICK m \in stream.batch :
        /\ \A d \in stream.batch \ {m} : Before(m, d)
        /\ stream' = [stream EXCEPT !.current = m, !.batch = @ \ {m}]
        /\ last' = m /\ seen' = seen \cup {m}
  BY DEF Send
<1>2. /\ row' = row /\ at' = at /\ order' = order /\ commits' = commits
      /\ now' = now /\ breaks' = breaks /\ stream.open = TRUE
  BY StreamFields DEF Send, TypeOK
<1>3. stream.batch \subseteq Events /\ m \in Events /\ m # NoEvent /\ seen \subseteq Events
  BY StreamFields, EventsAssumption DEF TypeOK
<1>4. /\ stream' \in Streams /\ stream'.open = TRUE
      /\ stream'.current = m /\ stream'.batch = stream.batch \ {m}
  BY <1>1, <1>2, <1>3 DEF TypeOK, Streams
<1>5. TypeOK'
  BY <1>1, <1>2, <1>3, <1>4 DEF TypeOK
<1>6. \A c, d : Before(c, d)' <=> Before(c, d)
  BY <1>2 DEF Before
<1>7. \A e : Overtaken(e) => Overtaken(e)'
  BY <1>1, <1>2, <1>6 DEF Overtaken
<1>8. OrderValid' /\ Committed'
  BY <1>1, <1>2, <1>4 DEF OrderValid, Committed
<1>9. CursorValid'
  BY <1>1, <1>3, <1>4, <1>6 DEF CursorValid, InOrderOnce
<1>10. InOrderOnce'
  BY <1>1, <1>4, <1>6 DEF InOrderOnce
<1>11. GapsOvertaken'
  <2> SUFFICES ASSUME NEW e \in Stored \ (seen \cup {m}), Before(e, m)
               PROVE  Overtaken(e)'
    BY <1>1, <1>2, <1>6 DEF GapsOvertaken, Stored
  <2>1. e \in Events /\ e \notin stream.batch
    BY <1>1, <1>3, BeforeOrder DEF Stored
  <2>2. Overtaken(e) \/ order[m] < order[e]
    BY <2>1 DEF PageGaps
  <2>3. order[m] < order[e] => Overtaken(e)'
    BY <1>1, <1>2, <1>6 DEF Overtaken
  <2> QED BY <1>7, <2>2, <2>3
<1>12. PageGaps'
  <2> SUFFICES ASSUME NEW e \in Stored \ (seen \cup stream.batch),
                      NEW b \in stream.batch \ {m}, Before(e, b)
               PROVE  Overtaken(e)' \/ order[b] < order[e]
    BY <1>1, <1>2, <1>4, <1>6 DEF PageGaps, Stored
  <2> QED BY <1>7 DEF PageGaps
<1> QED BY <1>5, <1>8, <1>9, <1>10, <1>11, <1>12

LEMMA TickInv ==
  ASSUME Inv, Tick
  PROVE  Inv'
<1> USE DEF Inv
<1>1. TypeOK' /\ OrderValid' /\ Stored' \subseteq Stored
  BY DEF Tick, TypeOK, OrderValid, Stored
<1> QED BY <1>1, LogKept DEF Tick

LEMMA StutterInv ==
  ASSUME Inv, UNCHANGED vars
  PROVE  Inv'
<1> USE DEF Inv
<1>1. TypeOK' /\ OrderValid' /\ Stored' \subseteq Stored
  BY DEF vars, TypeOK, OrderValid, Stored
<1> QED BY <1>1, LogKept DEF vars

-----------------------------------------------------------------------------
(* The inductive invariant holds in every state that the publishers, the   *)
(* retention service, the stream endpoint and its client can reach.        *)
THEOREM Invariance == Spec => []Inv
<1>1. Inv /\ [Next]_vars => Inv'
  <2> SUFFICES ASSUME Inv, [Next]_vars PROVE Inv'
    OBVIOUS
  <2>1. ASSUME NEW e \in Events, Publish(e) \/ Commit(e) \/ Rollback(e) \/ Delete(e)
        PROVE  Inv'
    BY <2>1, PublishInv, CommitInv, RollbackInv, DeleteInv
  <2>2. CASE Tick BY <2>2, TickInv
  <2>3. CASE Connect BY <2>3, ConnectInv
  <2>4. CASE Refuse BY <2>4, RefuseInv
  <2>5. CASE Poll BY <2>5, PollInv
  <2>6. CASE Send BY <2>6, SendInv
  <2>7. CASE Break BY <2>7, BreakInv
  <2>8. CASE UNCHANGED vars BY <2>8, StutterInv
  <2> QED BY <2>1, <2>2, <2>3, <2>4, <2>5, <2>6, <2>7, <2>8 DEF Next
<1> QED BY <1>1, InitInv, PTL DEF Spec

(* Over all connections that it resumes, a client of the event stream      *)
(* receives the events in the order of the log and none of them twice.     *)
THEOREM InOrder == Spec => []InOrderOnce
<1>1. Inv => InOrderOnce
  BY DEF Inv
<1> QED BY <1>1, Invariance, PTL

(* The only events that a client of the event stream misses are those that *)
(* were committed after an event with a later place in the log.            *)
THEOREM Gaps == Spec => []GapsOvertaken
<1>1. Inv => GapsOvertaken
  BY DEF Inv
<1> QED BY <1>1, Invariance, PTL

-----------------------------------------------------------------------------
(* The pages of the lists. *)

(* The members of a finite set can be ranked: as many places as members,   *)
(* all of them taken, in the order.                                        *)
LEMMA Ranks ==
  ASSUME NEW S, IsFiniteSet(S), NEW before,
         \A x \in S : <<x, x>> \notin before,
         \A x, y, z \in S : <<x, y>> \in before /\ <<y, z>> \in before => <<x, z>> \in before,
         \A x, y \in S : x = y \/ <<x, y>> \in before \/ <<y, x>> \in before
  PROVE  /\ Cardinality(S) \in Nat /\ Ranked(S, before) \in [1..Cardinality(S) -> S]
         /\ \A x \in S : \E i \in 1..Cardinality(S) : Ranked(S, before)[i] = x
         /\ \A i, j \in 1..Cardinality(S) :
              i < j => <<Ranked(S, before)[i], Ranked(S, before)[j]>> \in before
<1> DEFINE n == Cardinality(S)
           Lower(x) == {y \in S : <<y, x>> \in before}
           place == [x \in S |-> Cardinality(Lower(x)) + 1]
<1>1. n \in Nat
  BY FS_CardinalityType
<1>2. ASSUME NEW x \in S
      PROVE  Cardinality(Lower(x)) \in Nat /\ Cardinality(Lower(x)) < n
  <2> DEFINE low == Lower(x)
  <2>1. low \in SUBSET S /\ low # S
    OBVIOUS
  <2> HIDE DEF low
  <2>2. IsFiniteSet(low) /\ Cardinality(low) <= n /\ n # Cardinality(low)
    BY <2>1, FS_Subset
  <2>3. Cardinality(low) \in Nat
    BY <2>2, FS_CardinalityType
  <2> QED BY <1>1, <2>2, <2>3 DEF low
<1>3. ASSUME NEW x \in S, NEW y \in S, <<x, y>> \in before
      PROVE  Cardinality(Lower(x)) < Cardinality(Lower(y))
  <2> DEFINE low == Lower(x)
             high == Lower(y)
  <2>1. low \in SUBSET high /\ low # high /\ high \in SUBSET S
    <3>1. x \in high /\ x \notin low
      BY <1>3
    <3> QED BY <1>3, <3>1
  <2>2. Cardinality(low) \in Nat /\ Cardinality(high) \in Nat
    BY <1>2
  <2> HIDE DEF low, high
  <2>3. IsFiniteSet(high)
    BY <2>1, FS_Subset
  <2>4. Cardinality(low) <= Cardinality(high) /\ Cardinality(high) # Cardinality(low)
    BY <2>1, <2>3, FS_Subset
  <2> QED BY <2>2, <2>4 DEF low, high
<1> HIDE DEF Lower
<1>4. place \in [S -> 1..n]
  BY <1>1, <1>2
<1>5. \A x, y \in S : <<x, y>> \in before => place[x] < place[y]
  BY <1>2, <1>3
<1> HIDE DEF place
<1>a. \A x \in S : place[x] \in Int
  BY <1>1, <1>4
<1>6. \A x, y \in S : place[x] = place[y] => x = y
  <2> SUFFICES ASSUME NEW x \in S, NEW y \in S, place[x] = place[y], x # y PROVE FALSE
    OBVIOUS
  <2>1. place[x] \in Int /\ place[y] \in Int
    BY <1>a
  <2>2. <<x, y>> \in before \/ <<y, x>> \in before
    OBVIOUS
  <2>3. place[x] < place[y] \/ place[y] < place[x]
    BY <1>5, <2>2
  <2> QED BY <2>1, <2>3
<1>7. place \in Injection(S, 1..n)
  BY <1>4, <1>6 DEF Injection, IsInjective
<1>8. IsFiniteSet(1..n) /\ Cardinality(1..n) = n
  BY <1>1, FS_Interval
<1>9. place \in Surjection(S, 1..n)
  BY <1>7, <1>8, FS_Injection
<1>10. \A i \in 1..n : \E x \in S : place[x] = i
  BY <1>9 DEF Surjection
<1> DEFINE s == Ranked(S, before)
<1>11. /\ s = [i \in 1..n |-> CHOOSE x \in S : Cardinality(Lower(x)) = i - 1]
  BY DEF Ranked, Lower
<1> HIDE DEF s
<1>12. ASSUME NEW i \in 1..n
       PROVE  s[i] \in S /\ place[s[i]] = i
  <2>1. PICK x \in S : place[x] = i
    BY <1>10
  <2>2. Cardinality(Lower(x)) = i - 1
    BY <1>2, <2>1 DEF place
  <2>3. s[i] = CHOOSE z \in S : Cardinality(Lower(z)) = i - 1
    BY <1>11
  <2>4. s[i] \in S /\ Cardinality(Lower(s[i])) = i - 1
    BY <2>2, <2>3
  <2> QED BY <1>1, <2>4 DEF place
<1>13. s \in [1..n -> S]
  BY <1>11, <1>12
<1>14. \A x \in S : \E i \in 1..n : s[i] = x
  BY <1>4, <1>6, <1>12
<1>15. ASSUME NEW i \in 1..n, NEW j \in 1..n, i < j
       PROVE  <<s[i], s[j]>> \in before
  <2>1. s[i] \in S /\ s[j] \in S /\ place[s[i]] < place[s[j]]
    BY <1>12, <1>15
  <2>2. s[i] # s[j] /\ <<s[j], s[i]>> \notin before
    BY <1>5, <1>a, <2>1
  <2> QED BY <2>1, <2>2
<1> QED BY <1>1, <1>13, <1>14, <1>15 DEF s

-----------------------------------------------------------------------------
RowsOK ==
  /\ list \in Lists
  /\ rows \in [RowIds -> [state : {"absent", "there", "gone"},
                          column : [SortFields[list] -> Int], selected : BOOLEAN]]

Asks(q) == q \in Orderings(SortFields[list])

(* What the statement orders by is a strict total order of the rows. *)
LEMMA PrecedesOrder ==
  ASSUME RowsOK, NEW q, Asks(q), NEW x \in RowIds, NEW y \in RowIds, NEW z \in RowIds
  PROVE  /\ ~Precedes(x, x, q) /\ ~(Precedes(x, y, q) /\ Precedes(y, x, q))
         /\ Precedes(x, y, q) /\ Precedes(y, z, q) => Precedes(x, z, q)
         /\ x = y \/ Precedes(x, y, q) \/ Precedes(y, x, q)
<1> DEFINE a(r) == rows[r].column[q.sort_by]
<1>1. q.sort_by \in SortFields[list] /\ q.direction \in {"asc", "desc"}
  BY DEF Asks, Orderings
<1>2. \A r \in RowIds : a(r) \in Int /\ r \in Int
  BY <1>1, ListsAssumption DEF RowsOK
<1>3. \A r, s \in RowIds : Precedes(r, s, q) <=>
        IF q.direction = "asc" THEN a(r) < a(s) \/ (a(r) = a(s) /\ r < s)
                               ELSE a(r) > a(s) \/ (a(r) = a(s) /\ r > s)
  BY DEF Precedes
<1> HIDE DEF a
<1> QED BY <1>2, <1>3

(* A sequence of the members of V in the order of the query. *)
Listing(s, V, q) ==
  /\ s \in Seq(V)
  /\ \A r \in V : \E i \in 1..Len(s) : s[i] = r
  /\ \A i, j \in 1..Len(s) : i < j => Precedes(s[i], s[j], q)

LEMMA OrderedLists ==
  ASSUME RowsOK, NEW q, Asks(q), NEW V, V \subseteq RowIds
  PROVE  Listing(Ordered(V, q), V, q)
<1> DEFINE before == {p \in V \X V : Precedes(p[1], p[2], q)}
<1>1. \A x, y \in V : <<x, y>> \in before <=> Precedes(x, y, q)
  OBVIOUS
<1>2. IsFiniteSet(V)
  BY FS_Subset, ListsAssumption
<1>3. /\ \A x \in V : <<x, x>> \notin before
      /\ \A x, y, z \in V : <<x, y>> \in before /\ <<y, z>> \in before => <<x, z>> \in before
      /\ \A x, y \in V : x = y \/ <<x, y>> \in before \/ <<y, x>> \in before
  <2> HIDE DEF before
  <2> QED BY <1>1, PrecedesOrder
<1> DEFINE s == Ranked(V, before)
<1> HIDE DEF before
<1>4. /\ Cardinality(V) \in Nat /\ s \in [1..Cardinality(V) -> V]
      /\ \A x \in V : \E i \in 1..Cardinality(V) : s[i] = x
      /\ \A i, j \in 1..Cardinality(V) : i < j => <<s[i], s[j]>> \in before
  BY <1>2, <1>3, Ranks
<1>5. Ordered(V, q) = s
  BY DEF Ordered, before
<1> HIDE DEF s
<1>6. s \in Seq(V) /\ Len(s) = Cardinality(V)
  BY <1>4
<1> QED BY <1>1, <1>4, <1>5, <1>6 DEF Listing

(* A filter keeps what it selects, in order. *)
LEMMA KeptLists ==
  ASSUME RowsOK, NEW q, NEW V, NEW s, Listing(s, V, q), NEW T
  PROVE  Listing(Kept(s, T), V \cap T, q)
<1> DEFINE kept == {i \in DOMAIN s : s[i] \in T}
           before == {p \in kept \X kept : p[1] < p[2]}
           place == Ranked(kept, before)
           n == Cardinality(kept)
<1>0. s \in Seq(V) /\ Len(s) \in Nat /\ DOMAIN s = 1..Len(s)
  BY DEF Listing
<1>1. IsFiniteSet(kept) /\ kept \subseteq 1..Len(s)
  <2>1. IsFiniteSet(1..Len(s))
    BY <1>0, FS_Interval
  <2> HIDE DEF kept
  <2>2. kept \subseteq 1..Len(s)
    BY <1>0 DEF kept
  <2> QED BY <2>1, <2>2, FS_Subset
<1>a. \A i \in kept : s[i] \in T
  OBVIOUS
<1>b. \A i \in 1..Len(s) : s[i] \in T => i \in kept
  BY <1>0
<1>c. Kept(s, T) = [i \in DOMAIN place |-> s[place[i]]]
  BY DEF Kept
<1> HIDE DEF kept
<1>2. \A i, j \in kept : <<i, j>> \in before <=> i < j
  OBVIOUS
<1> HIDE DEF before
<1>3. /\ n \in Nat /\ place \in [1..n -> kept]
      /\ \A k \in kept : \E i \in 1..n : place[i] = k
      /\ \A i, j \in 1..n : i < j => <<place[i], place[j]>> \in before
  <2>1. /\ \A x \in kept : <<x, x>> \notin before
        /\ \A x, y, z \in kept :
             <<x, y>> \in before /\ <<y, z>> \in before => <<x, z>> \in before
        /\ \A x, y \in kept : x = y \/ <<x, y>> \in before \/ <<y, x>> \in before
    BY <1>0, <1>1, <1>2
  <2> QED BY <1>1, <2>1, Ranks
<1> HIDE DEF place, n
<1> DEFINE t == Kept(s, T)
<1>4. t = [i \in 1..n |-> s[place[i]]]
  BY <1>3, <1>c
<1>5. \A i \in 1..n : t[i] = s[place[i]] /\ place[i] \in kept /\ t[i] \in V \cap T
  <2> SUFFICES ASSUME NEW i \in 1..n
               PROVE  t[i] = s[place[i]] /\ place[i] \in kept /\ t[i] \in V \cap T
    OBVIOUS
  <2>1. t[i] = s[place[i]] /\ place[i] \in kept
    BY <1>3, <1>4
  <2>2. place[i] \in 1..Len(s)
    BY <1>1, <2>1
  <2>3. s[place[i]] \in V
    BY <1>0, <2>2
  <2> QED BY <1>a, <2>1, <2>3
<1> HIDE DEF t
<1>6. t \in Seq(V \cap T) /\ Len(t) = n
  BY <1>3, <1>4, <1>5
<1>7. ASSUME NEW r \in V \cap T PROVE \E i \in 1..n : t[i] = r
  <2>1. PICK k \in 1..Len(s) : s[k] = r
    BY DEF Listing
  <2>2. k \in kept
    BY <1>b, <2>1
  <2> QED BY <1>3, <1>5, <2>1, <2>2
<1>8. ASSUME NEW i \in 1..n, NEW j \in 1..n, i < j PROVE Precedes(t[i], t[j], q)
  <2>1. place[i] \in 1..Len(s) /\ place[j] \in 1..Len(s) /\ place[i] < place[j]
    BY <1>1, <1>2, <1>3, <1>5, <1>8
  <2> QED BY <1>5, <2>1 DEF Listing
<1> QED BY <1>6, <1>7, <1>8 DEF t, Listing

(* The first n members of a sequence. *)
LEMMA FirstOfIs ==
  ASSUME NEW V, NEW s \in Seq(V), NEW n \in Nat
  PROVE  LET m == IF Len(s) < n THEN Len(s) ELSE n
         IN /\ FirstOf(n, s) = [i \in 1..m |-> s[i]]
            /\ FirstOf(n, s) \in Seq(V) /\ Len(FirstOf(n, s)) = m /\ m \in Nat
<1> DEFINE m == IF Len(s) < n THEN Len(s) ELSE n
<1>1. m \in Nat /\ m <= Len(s) /\ Len(s) \in Nat
  OBVIOUS
<1>2. FirstOf(n, s) = SubSeq(s, 1, m)
  BY DEF FirstOf
<1> HIDE DEF m
<1>3. SubSeq(s, 1, m) = [i \in 1..m |-> s[i]]
  BY <1>1
<1>4. [i \in 1..m |-> s[i]] \in Seq(V) /\ Len([i \in 1..m |-> s[i]]) = m
  <2>1. \A i \in 1..m : s[i] \in V
    BY <1>1
  <2> QED BY <1>1, <2>1
<1> QED BY <1>1, <1>2, <1>3, <1>4 DEF m

(* A page is cut from a listing of V: by the statement, or by the process. *)
Pages(records, V, q) ==
  \E s : /\ Listing(s, V, q)
         /\ FirstOf(PageLimit, records) = FirstOf(PageLimit, s)
         /\ Len(records) > PageLimit <=> Len(s) > PageLimit

LEMMA CutIsPage ==
  ASSUME NEW V, NEW q, NEW s, Listing(s, V, q)
  PROVE  Pages(s, V, q) /\ Pages(FirstOf(PageLimit + 1, s), V, q)
<1>0. PageLimit \in Nat /\ PageLimit + 1 \in Nat /\ s \in Seq(V) /\ Len(s) \in Nat
  BY ListsAssumption DEF Listing
<1> DEFINE t == FirstOf(PageLimit + 1, s)
           m == IF Len(s) < PageLimit + 1 THEN Len(s) ELSE PageLimit + 1
           k == IF Len(s) < PageLimit THEN Len(s) ELSE PageLimit
<1>1. t = [i \in 1..m |-> s[i]] /\ t \in Seq(V) /\ Len(t) = m /\ m \in Nat
  BY <1>0, FirstOfIs
<1>2. FirstOf(PageLimit, s) = [i \in 1..k |-> s[i]]
  BY <1>0, FirstOfIs
<1> HIDE DEF t
<1>3. FirstOf(PageLimit, t) = [i \in 1..k |-> t[i]]
  <2>1. k = IF Len(t) < PageLimit THEN Len(t) ELSE PageLimit
    BY <1>0, <1>1
  <2> DEFINE l == IF Len(t) < PageLimit THEN Len(t) ELSE PageLimit
  <2>2. FirstOf(PageLimit, t) = [i \in 1..l |-> t[i]]
    <3>1. t \in Seq(V) /\ PageLimit \in Nat
      BY <1>0, <1>1
    <3> QED BY <3>1, FirstOfIs
  <2>3. k = l
    BY <2>1
  <2> HIDE DEF k, l
  <2> QED BY <2>2, <2>3
<1>4. k \in Nat /\ k <= m
  BY <1>0
<1>5. Len(t) > PageLimit <=> Len(s) > PageLimit
  BY <1>0, <1>1
<1> HIDE DEF k, m
<1>6. [i \in 1..k |-> t[i]] = [i \in 1..k |-> s[i]]
  <2>1. \A i \in 1..k : i \in 1..m
    BY <1>1, <1>4
  <2>2. \A i \in 1..k : t[i] = s[i]
    BY <1>1, <2>1
  <2> QED BY <2>2
<1> QED BY <1>2, <1>3, <1>5, <1>6 DEF Pages, t

LEMMA PageFacts ==
  ASSUME RowsOK, NEW q, Asks(q), NEW V, V \subseteq RowIds,
         NEW records, Pages(records, V, q)
  PROVE  LET page == FirstOf(PageLimit, records)
             end == page[Len(page)]
         IN /\ page \in Seq(V)
            /\ \A i, j \in 1..Len(page) : i < j => Precedes(page[i], page[j], q)
            /\ ~(Len(records) > PageLimit) =>
                 \A r \in V : \E i \in 1..Len(page) : page[i] = r
            /\ Len(records) > PageLimit =>
                 /\ end \in V
                 /\ \A r \in V : (\E i \in 1..Len(page) : page[i] = r)
                                   <=> ~Precedes(end, r, q)
<1>1. PICK s : /\ Listing(s, V, q)
               /\ FirstOf(PageLimit, records) = FirstOf(PageLimit, s)
               /\ Len(records) > PageLimit <=> Len(s) > PageLimit
  BY DEF Pages
<1>2. PageLimit \in Nat \ {0} /\ s \in Seq(V) /\ Len(s) \in Nat
  BY <1>1, ListsAssumption DEF Listing
<1> DEFINE page == FirstOf(PageLimit, records)
           m == IF Len(s) < PageLimit THEN Len(s) ELSE PageLimit
<1>3. page = [i \in 1..m |-> s[i]] /\ page \in Seq(V) /\ Len(page) = m /\ m \in Nat
  BY <1>1, <1>2, FirstOfIs
<1> HIDE DEF page
<1>4. /\ m <= Len(s) /\ \A i \in 1..m : page[i] = s[i] /\ i \in 1..Len(s)
      /\ ~(Len(records) > PageLimit) => m = Len(s)
      /\ Len(records) > PageLimit => m = PageLimit /\ m < Len(s)
  BY <1>1, <1>2, <1>3
<1> HIDE DEF m
<1>5. \A i, j \in 1..m : i < j => Precedes(page[i], page[j], q)
  BY <1>1, <1>4 DEF Listing
<1>6. ASSUME ~(Len(records) > PageLimit), NEW r \in V
      PROVE  \E i \in 1..m : page[i] = r
  BY <1>1, <1>4, <1>6 DEF Listing
<1>7. ASSUME Len(records) > PageLimit
      PROVE  /\ page[m] \in V
             /\ \A r \in V : (\E i \in 1..m : page[i] = r) <=> ~Precedes(page[m], r, q)
  <2>1. m \in 1..m /\ page[m] \in V
    BY <1>2, <1>3, <1>4, <1>7
  <2>2. ASSUME NEW i \in 1..m PROVE ~Precedes(page[m], page[i], q)
    <3>1. page[i] \in V
      BY <1>3
    <3>2. i = m \/ Precedes(page[i], page[m], q)
      BY <1>3, <1>5, <2>1
    <3> QED BY <2>1, <3>1, <3>2, PrecedesOrder
  <2>3. ASSUME NEW r \in V, ~Precedes(page[m], r, q)
        PROVE  \E i \in 1..m : page[i] = r
    <3>1. PICK k \in 1..Len(s) : s[k] = r
      BY <1>1 DEF Listing
    <3>2. ~(m < k)
      BY <1>1, <1>4, <2>1, <2>3, <3>1 DEF Listing
    <3>3. k \in 1..m
      BY <1>2, <1>3, <3>2
    <3> QED BY <1>4, <3>1, <3>3
  <2> QED BY <2>1, <2>2, <2>3
<1> QED BY <1>3, <1>5, <1>6, <1>7 DEF page

-----------------------------------------------------------------------------
(* What a listing is about: the rows that were there when it began and     *)
(* have not changed, and the ordering its pages were asked for in.         *)
Steady == watch.began \ watch.changed
Asked == IF client.cursor = NoCursor THEN client.query ELSE client.cursor.query

CursorStates(l) ==
  [query : Orderings(SortFields[l]), list : {l}, kind : {"datetime", "string", "integer"},
   value : Int, id : RowIds]

CursorOK(c) ==
  c # NoCursor =>
    c \in CursorStates(list) /\ c.kind = KindOfColumn[c.query.sort_by]

ClientOK ==
  /\ client \in [phase : {"asking", "refused", "done"}, cursor : {client.cursor},
                 query : Orderings(SortFields[list]), got : Seq(RowIds)]
  /\ CursorOK(client.cursor)
  /\ client.phase = "refused" => client.cursor # NoCursor /\ client.cursor.query # client.query
  /\ client.phase = "done" => client.cursor = NoCursor

SteadyOK ==
  \A r \in Steady : r \in RowIds /\ rows[r].state = "there" /\ rows[r].selected

WatchOK == watch \in [began : {watch.began}, changed : {watch.changed}]

Received(r) == \E i \in 1..Len(client.got) : client.got[i] = r

(* Of the rows that have not changed, the client has those up to its       *)
(* cursor, in order.                                                       *)
GotOK ==
  /\ \A i, j \in 1..Len(client.got) :
       i < j /\ client.got[i] \in Steady /\ client.got[j] \in Steady =>
         Precedes(client.got[i], client.got[j], Asked)
  /\ \A r \in Steady :
       IF client.phase = "done" THEN Received(r)
       ELSE Received(r) <=> ~Beyond(r, Asked, client.cursor)

(* The event of a cursor keeps the value that the cursor was made with. *)
EventsOK ==
  list = "events" /\ client.cursor # NoCursor =>
    /\ client.cursor.query = client.query
    /\ rows[client.cursor.id].state # "absent"
    /\ rows[client.cursor.id].column[client.query.sort_by] = client.cursor.value

ListInv == RowsOK /\ ClientOK /\ WatchOK /\ SteadyOK /\ GotOK /\ EventsOK

(* The event that a client of the events was given as its cursor has not   *)
(* been deleted: where it has, EventRepository.list ends the list.         *)
CursorEventExists ==
  list = "events" /\ client.cursor # NoCursor => client.cursor.id \in Present

-----------------------------------------------------------------------------
(* The lists, one by one. *)
LEMMA FieldsOf ==
  /\ DOMAIN SortFields = {"tasks", "stages", "artifacts", "backends", "pipelines", "workers",
                          "deliveries", "attempts", "api_keys", "events"}
  /\ SortFields["tasks"] = TaskSortField /\ SortFields["stages"] = StageSortField
  /\ SortFields["artifacts"] = ArtifactSortField
  /\ SortFields["backends"] = BackendSortField
  /\ SortFields["pipelines"] = PipelineSortField
  /\ SortFields["workers"] = WorkerSortField
  /\ SortFields["deliveries"] = CallbackSortField
  /\ SortFields["attempts"] = CallbackAttemptSortField
  /\ SortFields["api_keys"] = ApiKeySortField /\ SortFields["events"] = EventSortField
BY DEF SortFields

LEMMA QueriesAre ==
  ASSUME NEW l \in DOMAIN SortFields
  PROVE  Queries(l) = Orderings(SortFields[l])
BY FieldsOf DEF Queries, task_list_query, stage_list_query, artifact_list_query,
     backend_list_query, pipeline_list_query, worker_list_query, callback_list_query,
     callback_attempt_list_query, api_key_list_query, event_list_query

LEMMA KindsAre ==
  ASSUME NEW l \in DOMAIN SortFields, NEW f \in SortFields[l]
  PROVE  KindOfColumn[f] = CASE f \in {"created_at", "updated_at", "started_at", "occurred_at"} ->
                                  "datetime"
                             [] f \in {"name", "filename", "status", "type"} -> "string"
                             [] OTHER -> "integer"
<1>1. f \in UNION {SortFields[k] : k \in DOMAIN SortFields}
  OBVIOUS
<1> QED BY <1>1 DEF KindOfColumn

-----------------------------------------------------------------------------
(* Every list answers with pages of the selected rows after the cursor. *)
Rest(q, c) == {r \in Present : Selected(r) /\ Beyond(r, q, c)}

LEMMA RecordsPage ==
  ASSUME RowsOK, NEW q, Asks(q), NEW c
  PROVE  /\ Pages(Limited(q, c), Rest(q, c), q)
         /\ Pages(Filtered(q, c), Rest(q, c), q)
         /\ Pages(Stages_of_task(q, c), Rest(q, c), q)
<1> DEFINE selected == {r \in RowIds : Selected(r)}
           beyond == {r \in RowIds : Beyond(r, q, c)}
           after == {r \in Present : Beyond(r, q, c)}
           known == {r \in Present : Selected(r)}
<1>1. /\ Rest(q, c) \subseteq RowIds /\ after \subseteq RowIds /\ known \subseteq RowIds
      /\ Rest(q, c) = after \cap selected /\ Rest(q, c) = known \cap beyond
  BY DEF Rest, Present
<1>2. Pages(Limited(q, c), Rest(q, c), q)
  <2>1. Limited(q, c) = FirstOf(PageLimit + 1, Ordered(Rest(q, c), q))
    BY DEF Limited, Rest
  <2>2. Listing(Ordered(Rest(q, c), q), Rest(q, c), q)
    BY <1>1, OrderedLists
  <2> QED BY <2>1, <2>2, CutIsPage
<1> HIDE DEF selected, beyond, after, known
<1>3. Pages(Filtered(q, c), Rest(q, c), q)
  <2>1. Filtered(q, c) = FirstOf(PageLimit + 1, Kept(Ordered(after, q), selected))
    BY DEF Filtered, after, selected
  <2>2. Listing(Kept(Ordered(after, q), selected), after \cap selected, q)
    BY <1>1, OrderedLists, KeptLists
  <2> QED BY <1>1, <2>1, <2>2, CutIsPage
<1>4. Pages(Stages_of_task(q, c), Rest(q, c), q)
  <2>1. Stages_of_task(q, c) = Kept(Ordered(known, q), beyond)
    BY DEF Stages_of_task, known, beyond
  <2>2. Listing(Kept(Ordered(known, q), beyond), known \cap beyond, q)
    BY <1>1, OrderedLists, KeptLists
  <2> QED BY <1>1, <2>1, <2>2, CutIsPage
<1> QED BY <1>2, <1>3, <1>4

(* A cursor is accepted if and only if it was made for this query. *)
LEMMA CursorKind ==
  ASSUME RowsOK, NEW q, Asks(q), NEW c, CursorOK(c), NEW kind,
         kind = KindOfColumn[q.sort_by]
  PROVE  /\ Decodes(q, c, kind) <=> c = NoCursor \/ c.query = q
         /\ c # NoCursor => c.list = list
<1>1. c # NoCursor => c.list = list /\ c.kind = KindOfColumn[c.query.sort_by]
  BY DEF CursorOK, CursorStates
<1> QED BY <1>1 DEF Decodes

Fits(c) == c = NoCursor \/ c.query = client.query

LEMMA AnswerShape ==
  ASSUME ListInv, CursorEventExists, Answer
  PROVE  \E records :
           /\ Respond(Fits(client.cursor), records)
           /\ Pages(records, Rest(client.query, client.cursor), client.query)
<1> DEFINE q == client.query
           c == client.cursor
           k == KindOfColumn[q.sort_by]
<1>0. RowsOK /\ Asks(q) /\ CursorOK(c) /\ list \in DOMAIN SortFields
      /\ q.sort_by \in SortFields[list]
  BY ListsAssumption, FieldsOf DEF ListInv, RowsOK, ClientOK, Asks, Orderings
<1>a. k = CASE q.sort_by \in {"created_at", "updated_at", "started_at", "occurred_at"} -> "datetime"
            [] q.sort_by \in {"name", "filename", "status", "type"} -> "string"
            [] OTHER -> "integer"
  BY <1>0, KindsAre
<1> HIDE DEF k
<1>1. /\ Decodes(q, c, k) <=> Fits(c)
      /\ c # NoCursor => c.list = list
  BY <1>0, CursorKind DEF Fits, k
<1>2. /\ Pages(Limited(q, c), Rest(q, c), q) /\ Pages(Filtered(q, c), Rest(q, c), q)
      /\ Pages(Stages_of_task(q, c), Rest(q, c), q)
  BY <1>0, RecordsPage
<1> SUFFICES \E records : Respond(Fits(c), records) /\ Pages(records, Rest(q, c), q)
  OBVIOUS
<1> HIDE DEF q, c
<1>4. CASE list_tasks
  <2>1. list = "tasks" /\ Respond(_decode_cursor(q, c), Limited(q, c))
    BY <1>4 DEF list_tasks, TaskRepository_list, q, c
  <2>2. _decode_cursor(q, c) <=> Decodes(q, c, k)
    BY <1>0, <1>1, <1>a, <2>1, FieldsOf DEF _decode_cursor, TaskSortField
  <2>3. Respond(Fits(c), Limited(q, c))
    BY <1>1, <2>1, <2>2 DEF Respond
  <2> QED BY <1>2, <2>3
<1>5. CASE list_task_stages
  <2>1. list = "stages" /\ Respond(_decode_stage_cursor(q, c), Stages_of_task(q, c))
    BY <1>5 DEF list_task_stages, q, c
  <2>2. _decode_stage_cursor(q, c) <=> Decodes(q, c, k)
    BY <1>0, <1>1, <1>a, <2>1, FieldsOf DEF _decode_stage_cursor, _decode_bound_cursor, StageSortField
  <2>3. Respond(Fits(c), Stages_of_task(q, c))
    BY <1>1, <2>1, <2>2 DEF Respond
  <2> QED BY <1>2, <2>3
<1>6. CASE list_task_artifacts
  <2>1. list = "artifacts" /\ Respond(_decode_artifact_cursor(q, c), Limited(q, c))
    BY <1>6 DEF list_task_artifacts, ArtifactRepository_list_for_task, q, c
  <2>2. _decode_artifact_cursor(q, c) <=> Decodes(q, c, k)
    BY <1>0, <1>1, <1>a, <2>1, FieldsOf DEF _decode_artifact_cursor, _decode_bound_cursor, ArtifactSortField
  <2>3. Respond(Fits(c), Limited(q, c))
    BY <1>1, <2>1, <2>2 DEF Respond
  <2> QED BY <1>2, <2>3
<1>7. CASE list_backends
  <2>1. list = "backends" /\ Respond(_decode_registry_cursor(q, c), Filtered(q, c))
    BY <1>7 DEF list_backends, BackendRepository_list, q, c
  <2>2. _decode_registry_cursor(q, c) <=> Decodes(q, c, k)
    BY <1>0, <1>1, <1>a, <2>1, FieldsOf DEF _decode_registry_cursor, BackendSortField
  <2>3. Respond(Fits(c), Filtered(q, c))
    BY <1>1, <2>1, <2>2 DEF Respond
  <2> QED BY <1>2, <2>3
<1>8. CASE list_pipelines
  <2>1. list = "pipelines" /\ Respond(_decode_registry_cursor(q, c), Filtered(q, c))
    BY <1>8 DEF list_pipelines, PipelineRepository_list, q, c
  <2>2. _decode_registry_cursor(q, c) <=> Decodes(q, c, k)
    BY <1>0, <1>1, <1>a, <2>1, FieldsOf DEF _decode_registry_cursor, PipelineSortField
  <2>3. Respond(Fits(c), Filtered(q, c))
    BY <1>1, <2>1, <2>2 DEF Respond
  <2> QED BY <1>2, <2>3
<1>9. CASE list_workers
  <2>1. list = "workers" /\ Respond(_decode_worker_cursor(q, c), Filtered(q, c))
    BY <1>9 DEF list_workers, WorkerRepository_list, q, c
  <2>2. _decode_worker_cursor(q, c) <=> Decodes(q, c, k)
    BY <1>0, <1>1, <1>a, <2>1, FieldsOf DEF _decode_worker_cursor, WorkerSortField
  <2>3. Respond(Fits(c), Filtered(q, c))
    BY <1>1, <2>1, <2>2 DEF Respond
  <2> QED BY <1>2, <2>3
<1>10. CASE list_callback_deliveries
  <2>1. list = "deliveries" /\ Respond(_decode_delivery_cursor(q, c), Limited(q, c))
    BY <1>10 DEF list_callback_deliveries, CallbackRepository_list, q, c
  <2>2. _decode_delivery_cursor(q, c) <=> Decodes(q, c, k)
    BY <1>0, <1>1, <1>a, <2>1, FieldsOf DEF _decode_delivery_cursor, CallbackSortField
  <2>3. Respond(Fits(c), Limited(q, c))
    BY <1>1, <2>1, <2>2 DEF Respond
  <2> QED BY <1>2, <2>3
<1>11. CASE list_callback_attempts
  <2>1. list = "attempts" /\ Respond(_decode_attempt_cursor(q, c), Limited(q, c))
    BY <1>11 DEF list_callback_attempts, CallbackRepository_list_attempts, q, c
  <2>2. _decode_attempt_cursor(q, c) <=> Decodes(q, c, k)
    BY <1>0, <1>1, <1>a, <2>1, FieldsOf DEF _decode_attempt_cursor, CallbackAttemptSortField
  <2>3. Respond(Fits(c), Limited(q, c))
    BY <1>1, <2>1, <2>2 DEF Respond
  <2> QED BY <1>2, <2>3
<1>12. CASE list_api_keys
  <2>1. list = "api_keys" /\ Respond(_decode_api_key_cursor(q, c), Limited(q, c))
    BY <1>12 DEF list_api_keys, ApiKeyRepository_list, q, c
  <2>2. _decode_api_key_cursor(q, c) <=> Decodes(q, c, k)
    BY <1>0, <1>1, <1>a, <2>1, FieldsOf DEF _decode_api_key_cursor, ApiKeySortField
  <2>3. Respond(Fits(c), Limited(q, c))
    BY <1>1, <2>1, <2>2 DEF Respond
  <2> QED BY <1>2, <2>3
<1>13. CASE _list_events
  <2>1. list = "events" /\ Respond(TRUE, EventRepository_list(q, c))
    BY <1>13 DEF _list_events, q, c
  <2>2. /\ c # NoCursor => c.query = q /\ rows[c.id].column[q.sort_by] = c.value
        /\ c # NoCursor => c.id \in Present
    BY <2>1 DEF ListInv, EventsOK, CursorEventExists, q, c
  <2>3. Fits(c)
    BY <2>2 DEF Fits, q
  <2>4. EventRepository_list(q, c) = Limited(q, c)
    <3>1. CASE c = NoCursor
      BY <3>1 DEF EventRepository_list
    <3>2. CASE c # NoCursor
      <4>1. c \in CursorStates(list)
        BY <1>0, <3>2 DEF CursorOK
      <4>2. [c EXCEPT !.value = c.value] = c
        BY <4>1 DEF CursorStates
      <4> QED BY <2>2, <3>2, <4>2 DEF EventRepository_list
    <3> QED BY <3>1, <3>2
  <2>5. Respond(Fits(c), Limited(q, c))
    BY <2>1, <2>3, <2>4 DEF Respond
  <2> QED BY <1>2, <2>5
<1> QED BY <1>4, <1>5, <1>6, <1>7, <1>8, <1>9, <1>10, <1>11, <1>12, <1>13 DEF Answer

-----------------------------------------------------------------------------
LEMMA BeyondSplits ==
  ASSUME RowsOK, NEW q, Asks(q), NEW c, c # NoCursor => c \in CursorStates(list),
         NEW r \in RowIds, NEW s \in RowIds, ~Beyond(r, q, c), Beyond(s, q, c)
  PROVE  Precedes(r, s, q)
<1> DEFINE a(x) == rows[x].column[q.sort_by]
<1>1. q.sort_by \in SortFields[list] /\ q.direction \in {"asc", "desc"}
  BY DEF Asks, Orderings
<1>2. \A x \in RowIds : a(x) \in Int /\ x \in Int
  BY <1>1, ListsAssumption DEF RowsOK
<1>3. c # NoCursor
  BY DEF Beyond
<1>4. c.value \in Int /\ c.id \in Int
  <2>1. c \in CursorStates(list)
    BY <1>3
  <2>2. c.value \in Int /\ c.id \in RowIds
    BY <2>1 DEF CursorStates
  <2> QED BY <1>2, <2>2
<1>5. \A x \in RowIds : Beyond(x, q, c) <=>
        IF q.direction = "asc" THEN a(x) > c.value \/ (a(x) = c.value /\ x > c.id)
                               ELSE a(x) < c.value \/ (a(x) = c.value /\ x < c.id)
  BY <1>3 DEF Beyond
<1>6. Precedes(r, s, q) <=>
        IF q.direction = "asc" THEN a(r) < a(s) \/ (a(r) = a(s) /\ r < s)
                               ELSE a(r) > a(s) \/ (a(r) = a(s) /\ r > s)
  BY DEF Precedes
<1> HIDE DEF a
<1> QED BY <1>2, <1>4, <1>5, <1>6

LEMMA Encoded ==
  ASSUME RowsOK, NEW q, Asks(q), NEW e \in RowIds
  PROVE  /\ _encode_cursor(q, e) # NoCursor /\ CursorOK(_encode_cursor(q, e))
         /\ _encode_cursor(q, e).query = q /\ _encode_cursor(q, e).id = e
         /\ _encode_cursor(q, e).value = rows[e].column[q.sort_by]
         /\ \A r \in RowIds : Beyond(r, q, _encode_cursor(q, e)) <=> Precedes(e, r, q)
<1> DEFINE c == _encode_cursor(q, e)
<1>1. /\ c.query = q /\ c.id = e /\ c.value = rows[e].column[q.sort_by]
      /\ c.kind = KindOfColumn[q.sort_by] /\ c.list = list
  BY DEF _encode_cursor
<1>2. c # NoCursor
  <2>1. "id" \in DOMAIN c /\ "id" \notin DOMAIN NoCursor
    BY DEF _encode_cursor, NoCursor
  <2> QED BY <2>1
<1>3. q.sort_by \in SortFields[list] /\ list \in DOMAIN SortFields
  BY ListsAssumption, FieldsOf DEF Asks, Orderings, RowsOK
<1>4. rows[e].column[q.sort_by] \in Int
  BY <1>3 DEF RowsOK
<1>5. KindOfColumn[q.sort_by] \in {"datetime", "string", "integer"}
  BY <1>3, KindsAre
<1>6. c \in CursorStates(list)
  BY <1>4, <1>5 DEF _encode_cursor, CursorStates, Asks
<1>7. ASSUME NEW r \in RowIds PROVE Beyond(r, q, c) <=> Precedes(e, r, q)
  <2> DEFINE a == rows[r].column[q.sort_by]
             b == rows[e].column[q.sort_by]
  <2>1. Beyond(r, q, c) <=>
          IF q.direction = "asc" THEN a > b \/ (a = b /\ r > e) ELSE a < b \/ (a = b /\ r < e)
    BY <1>1, <1>2 DEF Beyond
  <2>2. Precedes(e, r, q) <=>
          IF q.direction = "asc" THEN b < a \/ (b = a /\ e < r) ELSE b > a \/ (b = a /\ e > r)
    BY DEF Precedes
  <2>3. a \in Int /\ b \in Int /\ r \in Int /\ e \in Int
    BY <1>3, ListsAssumption DEF RowsOK
  <2> HIDE DEF a, b
  <2> QED BY <2>1, <2>2, <2>3
<1> QED BY <1>1, <1>2, <1>6, <1>7 DEF CursorOK

(* An answer: a page after the others. *)
LEMMA AnswerKeeps ==
  ASSUME ListInv, CursorEventExists, Answer
  PROVE  ListInv'
<1> DEFINE q == client.query
           c == client.cursor
           got == client.got
<1>0. /\ RowsOK /\ Asks(q) /\ CursorOK(c) /\ got \in Seq(RowIds)
      /\ c # NoCursor => c \in CursorStates(list)
  BY DEF ListInv, ClientOK, Asks, CursorOK
<1>1. PICK records : Respond(Fits(c), records) /\ Pages(records, Rest(q, c), q)
  BY AnswerShape
<1>2. /\ client.phase = "asking"
      /\ list' = list /\ rows' = rows /\ watch' = watch
  BY <1>1 DEF Respond
<1>3. RowsOK' /\ WatchOK' /\ Steady' = Steady /\ SteadyOK'
  BY <1>2 DEF ListInv, RowsOK, WatchOK, SteadyOK, Steady
<1>4. CASE ~Fits(c)
  <2>1. client' = [client EXCEPT !.phase = "refused"]
    BY <1>1, <1>4 DEF Respond
  <2>2. /\ client'.phase = "refused" /\ client'.query = q /\ client'.cursor = c
        /\ client'.got = got
    BY <2>1 DEF ListInv, ClientOK
  <2>3. c # NoCursor /\ c.query # q
    BY <1>4 DEF Fits
  <2>4. ClientOK'
    BY <1>2, <2>1, <2>2, <2>3 DEF ListInv, ClientOK, CursorOK
  <2>5. EventsOK'
    BY <1>2, <2>2 DEF ListInv, EventsOK
  <2>6. GotOK'
    <3>1. Asked' = Asked
      BY <2>2 DEF Asked
    <3> QED BY <1>2, <1>3, <2>2, <3>1 DEF ListInv, GotOK, Received, Precedes, Beyond
  <2> QED BY <1>3, <2>4, <2>5, <2>6 DEF ListInv
<1>5. CASE Fits(c)
  <2> DEFINE V == Rest(q, c)
             page == FirstOf(PageLimit, records)
             end == page[Len(page)]
             more == Len(records) > PageLimit
             d == IF more THEN _encode_cursor(q, end) ELSE NoCursor
             all == got \o page
  <2>1. client' = [client EXCEPT !.phase = IF more THEN "asking" ELSE "done",
                                 !.cursor = d, !.got = all]
    BY <1>1, <1>5 DEF Respond
  <2>2. V \subseteq RowIds
    BY DEF Rest, Present
  <2>3. /\ page \in Seq(V)
        /\ \A i, j \in 1..Len(page) : i < j => Precedes(page[i], page[j], q)
        /\ ~more => \A r \in V : \E i \in 1..Len(page) : page[i] = r
        /\ more => /\ end \in V
                   /\ \A r \in V : (\E i \in 1..Len(page) : page[i] = r)
                                     <=> ~Precedes(end, r, q)
    <3> HIDE DEF V, q, c
    <3> QED BY <1>0, <1>1, <2>2, PageFacts DEF V
  <2>4. /\ client'.phase = (IF more THEN "asking" ELSE "done")
        /\ client'.query = q /\ client'.cursor = d /\ client'.got = all
    BY <2>1 DEF ListInv, ClientOK
  <2> HIDE DEF more, page, end
  <2>5. /\ more => /\ d # NoCursor /\ CursorOK(d) /\ d.query = q /\ d.id = end
                   /\ d.value = rows[end].column[q.sort_by]
                   /\ \A r \in RowIds : Beyond(r, q, d) <=> Precedes(end, r, q)
        /\ ~more => d = NoCursor
    BY <1>0, <2>2, <2>3, Encoded
  <2> HIDE DEF d
  <2>6. /\ all \in Seq(RowIds) /\ Len(all) = Len(got) + Len(page)
        /\ Len(got) \in Nat /\ Len(page) \in Nat
        /\ \A i \in 1..Len(got) : all[i] = got[i]
        /\ \A i \in 1..Len(page) : all[Len(got) + i] = page[i]
    <3>1. page \in Seq(RowIds)
      BY <2>2, <2>3
    <3> HIDE DEF got
    <3> QED BY <1>0, <3>1
  <2>7. ASSUME NEW i \in 1..Len(all)
        PROVE  \/ i \in 1..Len(got) /\ all[i] = got[i]
               \/ i - Len(got) \in 1..Len(page) /\ all[i] = page[i - Len(got)]
                  /\ i > Len(got)
    <3> HIDE DEF all, got
    <3>1. CASE i <= Len(got)
      BY <2>6, <3>1
    <3>2. CASE i > Len(got)
      <4>1. i - Len(got) \in 1..Len(page) /\ Len(got) + (i - Len(got)) = i
        BY <2>6, <3>2
      <4> QED BY <2>6, <3>2, <4>1
    <3> QED BY <2>6, <3>1, <3>2
  <2>8. Asked = q /\ Asked' = q
    BY <1>5, <2>4, <2>5 DEF Asked, Fits
  <2>9. ClientOK'
    <3>1. client' \in [phase : {"asking", "refused", "done"}, cursor : {d},
                       query : Orderings(SortFields[list]), got : Seq(RowIds)]
      <4> HIDE DEF all
      <4> QED BY <2>1, <2>6 DEF ListInv, ClientOK
    <3>2. CursorOK(d)
      BY <2>5 DEF CursorOK
    <3> QED BY <1>2, <2>4, <2>5, <3>1, <3>2 DEF ClientOK, CursorOK
  <2>10. EventsOK'
    <3>1. CASE ~more
      BY <2>4, <2>5, <3>1 DEF EventsOK
    <3>2. CASE more
      <4>1. rows[end].state # "absent"
        BY <2>3, <3>2 DEF Rest, Present
      <4> QED BY <1>2, <2>4, <2>5, <3>2, <4>1 DEF EventsOK
    <3> QED BY <3>1, <3>2
  <2>11. \A r \in Steady : r \in RowIds /\ (r \in V <=> Beyond(r, q, c))
    BY DEF ListInv, SteadyOK, Rest, Present, Selected
  <2>12. \A r \in Steady : (\E i \in 1..Len(got) : got[i] = r) <=> ~Beyond(r, q, c)
    BY <1>2, <2>8 DEF ListInv, GotOK, Received
  <2>13. \A r \in RowIds, s \in V : ~Beyond(r, q, c) => Precedes(r, s, q)
    BY <1>0, <2>2, BeyondSplits DEF Rest
  <2>14. ASSUME NEW i \in 1..Len(all), NEW j \in 1..Len(all), i < j,
                all[i] \in Steady, all[j] \in Steady
         PROVE  Precedes(all[i], all[j], q)
    <3> HIDE DEF all
    <3>1. CASE j \in 1..Len(got) /\ all[j] = got[j]
      <4>1. i \in 1..Len(got) /\ all[i] = got[i]
        BY <2>6, <2>14, <3>1
      <4> QED BY <2>8, <2>14, <3>1, <4>1 DEF ListInv, GotOK
    <3>2. CASE j - Len(got) \in 1..Len(page) /\ all[j] = page[j - Len(got)]
      <4>1. all[j] \in V
        BY <2>3, <3>2
      <4>2. CASE i \in 1..Len(got) /\ all[i] = got[i]
        <5>1. ~Beyond(all[i], q, c) /\ all[i] \in RowIds
          BY <2>11, <2>12, <2>14, <4>2
        <5> QED BY <2>13, <4>1, <5>1
      <4>3. CASE i - Len(got) \in 1..Len(page) /\ all[i] = page[i - Len(got)]
        <5>1. i - Len(got) < j - Len(got)
          BY <2>6, <2>14
        <5> QED BY <2>3, <3>2, <4>3, <5>1
      <4> QED BY <2>7, <4>2, <4>3
    <3> QED BY <2>7, <3>1, <3>2
  <2>15. ASSUME NEW r \in Steady
         PROVE  (\E i \in 1..Len(all) : all[i] = r) <=>
                  ~Beyond(r, q, c) \/ \E i \in 1..Len(page) : page[i] = r
    <3> HIDE DEF all
    <3>1. ASSUME NEW i \in 1..Len(got) PROVE i \in 1..Len(all)
      BY <2>6
    <3>2. ASSUME NEW i \in 1..Len(page) PROVE Len(got) + i \in 1..Len(all)
      BY <2>6
    <3>3. ASSUME NEW i \in 1..Len(all), all[i] = r
          PROVE  ~Beyond(r, q, c) \/ \E k \in 1..Len(page) : page[k] = r
      BY <2>7, <2>12, <3>3
    <3>4. ASSUME ~Beyond(r, q, c) PROVE \E i \in 1..Len(all) : all[i] = r
      BY <2>6, <2>12, <3>1, <3>4
    <3>5. ASSUME NEW k \in 1..Len(page), page[k] = r PROVE \E i \in 1..Len(all) : all[i] = r
      BY <2>6, <3>2, <3>5
    <3> QED BY <3>3, <3>4, <3>5
  <2>16. ASSUME NEW r \in Steady
         PROVE  /\ ~more => \E i \in 1..Len(all) : all[i] = r
                /\ more => ((\E i \in 1..Len(all) : all[i] = r) <=> ~Beyond(r, q, d))
    <3> HIDE DEF all
    <3>1. CASE ~more
      BY <2>3, <2>11, <2>15, <3>1
    <3>2. CASE more
      <4>1. Beyond(r, q, d) <=> Precedes(end, r, q)
        BY <2>5, <2>11, <3>2
      <4>2. CASE r \in V
        BY <2>3, <2>11, <2>15, <3>2, <4>1, <4>2
      <4>3. CASE r \notin V
        <5>1. ~Beyond(r, q, c) /\ r \in RowIds /\ end \in RowIds /\ Precedes(r, end, q)
          BY <2>2, <2>3, <2>11, <2>13, <3>2, <4>3
        <5>2. ~Precedes(end, r, q)
          BY <1>0, <5>1, PrecedesOrder
        <5> QED BY <2>15, <3>2, <4>1, <5>1, <5>2
      <4> QED BY <4>2, <4>3
    <3> QED BY <3>1, <3>2
  <2>17. GotOK'
    <3> HIDE DEF all, q
    <3>2. ASSUME NEW i \in 1..Len(all), NEW j \in 1..Len(all), i < j,
                 all[i] \in Steady, all[j] \in Steady
          PROVE  Precedes(client.got[i], client.got[j], Asked)'
      <4>1. Precedes(all[i], all[j], q)
        BY <2>14, <3>2
      <4> QED BY <1>2, <2>4, <2>8, <4>1 DEF Precedes
    <3>3. ASSUME NEW r \in Steady
          PROVE  IF client'.phase = "done" THEN Received(r)'
                 ELSE Received(r)' <=> ~Beyond(r, Asked, client.cursor)'
      <4>1. Received(r)' <=> \E i \in 1..Len(all) : all[i] = r
        BY <2>4 DEF Received
      <4>2. Beyond(r, Asked, client.cursor)' <=> Beyond(r, q, d)
        BY <1>2, <2>4, <2>8 DEF Beyond
      <4> QED BY <2>4, <2>16, <4>1, <4>2
    <3> QED BY <1>3, <2>4, <3>2, <3>3 DEF GotOK
  <2> QED BY <1>3, <2>9, <2>10, <2>17 DEF ListInv
<1> QED BY <1>4, <1>5

(* A write to a row, which is then no longer steady. *)
LEMMA WriteKeeps ==
  ASSUME ListInv, NEW r \in RowIds,
         NEW new \in [state : {"absent", "there", "gone"},
                      column : [SortFields[list] -> Int], selected : BOOLEAN],
         Write(r, new),
         list = "events" /\ client.cursor # NoCursor /\ client.cursor.id = r =>
           new.state # "absent" /\ new.column = rows[r].column
  PROVE  ListInv'
<1>1. /\ list' = list /\ client' = client
      /\ rows' = [rows EXCEPT ![r] = new]
      /\ watch' = [watch EXCEPT !.changed = @ \cup {r}]
  BY DEF Write
<1>2. /\ RowsOK'
      /\ \A s \in RowIds : rows'[s] = IF s = r THEN new ELSE rows[s]
  BY <1>1 DEF ListInv, RowsOK
<1>3. \A s \in Steady' : s \in Steady /\ s # r
  BY <1>1 DEF ListInv, WatchOK, Steady
<1>4. \A s \in Steady' : s \in RowIds /\ rows'[s] = rows[s]
  BY <1>2, <1>3 DEF ListInv, SteadyOK
<1>5. SteadyOK'
  BY <1>3, <1>4 DEF ListInv, SteadyOK
<1>6. ClientOK'
  BY <1>1 DEF ListInv, ClientOK, CursorOK
<1>7. EventsOK'
  <2> SUFFICES ASSUME list = "events", client.cursor # NoCursor
               PROVE  /\ client.cursor.query = client.query
                      /\ rows'[client.cursor.id].state # "absent"
                      /\ rows'[client.cursor.id].column[client.query.sort_by]
                           = client.cursor.value
    BY <1>1 DEF EventsOK
  <2>1. client.cursor.id \in RowIds
    BY DEF ListInv, ClientOK, CursorOK, CursorStates
  <2> QED BY <1>2, <2>1 DEF ListInv, EventsOK
<1>8. GotOK'
  <2>1. Asked' = Asked /\ client' = client
    BY <1>1 DEF Asked
  <2>2. ASSUME NEW i \in 1..Len(client.got), NEW j \in 1..Len(client.got), i < j,
               client.got[i] \in Steady', client.got[j] \in Steady'
        PROVE  Precedes(client.got[i], client.got[j], Asked)'
    <3>1. Precedes(client.got[i], client.got[j], Asked)
      BY <1>3, <2>2 DEF ListInv, GotOK
    <3> QED BY <1>4, <2>1, <2>2, <3>1 DEF Precedes
  <2>3. ASSUME NEW s \in Steady'
        PROVE  /\ Received(s)' <=> Received(s)
               /\ Beyond(s, Asked, client.cursor)' <=> Beyond(s, Asked, client.cursor)
    BY <1>4, <2>1 DEF Received, Beyond
  <2> QED BY <1>3, <2>1, <2>2, <2>3 DEF ListInv, GotOK
<1>9. WatchOK'
  BY <1>1 DEF ListInv, WatchOK
<1> QED BY <1>2, <1>5, <1>6, <1>7, <1>8, <1>9 DEF ListInv

LEMMA RowSteps ==
  ASSUME ListInv, NEW r \in RowIds, InsertRow(r) \/ ChangeRow(r) \/ RemoveRow(r)
  PROVE  ListInv'
<1>0. /\ rows[r] \in [state : {"absent", "there", "gone"},
                      column : [SortFields[list] -> Int], selected : BOOLEAN]
      /\ ColumnValues \subseteq Int
  BY ListsAssumption DEF ListInv, RowsOK, ColumnValues
<1>1. CASE InsertRow(r)
  <2>1. PICK v \in ColumnValues :
          Write(r, [state |-> "there", column |-> Columns(v), selected |-> TRUE])
    BY <1>1 DEF InsertRow
  <2> DEFINE new == [state |-> "there", column |-> Columns(v), selected |-> TRUE]
  <2>2. new \in [state : {"absent", "there", "gone"},
                 column : [SortFields[list] -> Int], selected : BOOLEAN]
    BY <1>0 DEF Columns
  <2>3. ~(list = "events" /\ client.cursor # NoCursor /\ client.cursor.id = r)
    BY <1>1 DEF InsertRow, ListInv, EventsOK
  <2> QED BY <2>1, <2>2, <2>3, WriteKeeps
<1>2. CASE ChangeRow(r)
  <2>1. PICK time \in ColumnValues, v \in ColumnValues, selected \in BOOLEAN :
          Write(r, [rows[r] EXCEPT !.column = Changed(@, time, v), !.selected = selected])
    BY <1>2 DEF ChangeRow
  <2> DEFINE old == rows[r].column
             changed == Changed(old, time, v)
             new == [rows[r] EXCEPT !.column = changed, !.selected = selected]
  <2>2. old \in [SortFields[list] -> Int]
    BY <1>0
  <2>3. changed \in [SortFields[list] -> Int]
    <3>1. \A f \in DOMAIN old : changed[f] \in Int
      BY <1>0, <2>2 DEF Changed
    <3>2. changed = [f \in SortFields[list] |-> changed[f]]
      BY <2>2 DEF Changed
    <3> QED BY <2>2, <3>1, <3>2
  <2>4. list = "events" => changed = old
    <3>1. MovingColumns["events"] = {}
      BY DEF MovingColumns
    <3>2. list = "events" => changed = [f \in DOMAIN old |-> old[f]]
      BY <3>1 DEF Changed
    <3> HIDE DEF changed
    <3> QED BY <2>2, <3>2
  <2>5. Write(r, new)
    BY <2>1
  <2> HIDE DEF changed
  <2>6. /\ new \in [state : {"absent", "there", "gone"},
                    column : [SortFields[list] -> Int], selected : BOOLEAN]
        /\ new.state = "there" /\ new.column = changed
    BY <1>0, <1>2, <2>3 DEF ChangeRow
  <2> HIDE DEF new
  <2> QED BY <2>4, <2>5, <2>6, WriteKeeps
<1>3. CASE RemoveRow(r)
  <2> DEFINE new == [rows[r] EXCEPT !.state = "gone"]
  <2>1. Write(r, new)
    BY <1>3 DEF RemoveRow
  <2>2. /\ new \in [state : {"absent", "there", "gone"},
                    column : [SortFields[list] -> Int], selected : BOOLEAN]
        /\ new.state = "gone" /\ new.column = rows[r].column
    BY <1>0
  <2> HIDE DEF new
  <2> QED BY <2>1, <2>2, WriteKeeps
<1> QED BY <1>1, <1>2, <1>3

LEMMA RestartKeeps ==
  ASSUME ListInv, Restart
  PROVE  ListInv'
<1>1. /\ list' = list /\ rows' = rows /\ watch' = Began
      /\ client' = [client EXCEPT !.phase = "asking", !.cursor = NoCursor, !.got = <<>>]
  BY DEF Restart
<1>2. /\ client'.phase = "asking" /\ client'.cursor = NoCursor /\ client'.got = <<>>
      /\ client'.query = client.query
  BY <1>1 DEF ListInv, ClientOK
<1>3. RowsOK' /\ WatchOK'
  BY <1>1 DEF ListInv, RowsOK, WatchOK, Began
<1>4. SteadyOK'
  BY <1>1 DEF SteadyOK, Steady, Began, Present, Selected
<1>5. ClientOK'
  <2>1. client' \in [phase : {"asking", "refused", "done"}, cursor : {NoCursor},
                     query : Orderings(SortFields[list]), got : Seq(RowIds)]
    <3> DEFINE none == <<>>
    <3>1. none \in Seq(RowIds)
      OBVIOUS
    <3>2. client' = [client EXCEPT !.phase = "asking", !.cursor = NoCursor, !.got = none]
      BY <1>1
    <3> HIDE DEF none
    <3> QED BY <3>1, <3>2 DEF ListInv, ClientOK
  <2> QED BY <1>1, <1>2, <2>1 DEF ClientOK, CursorOK
<1>6. EventsOK'
  BY <1>2 DEF EventsOK
<1>7. GotOK'
  BY <1>2 DEF GotOK, Received, Beyond
<1> QED BY <1>3, <1>4, <1>5, <1>6, <1>7 DEF ListInv

LEMMA ReorderKeeps ==
  ASSUME ListInv, Reorder
  PROVE  ListInv'
<1>1. PICK q \in Queries(list) \ {client.query} : client' = [client EXCEPT !.query = q]
  BY DEF Reorder
<1>2. /\ list' = list /\ rows' = rows /\ watch' = watch /\ list # "events"
      /\ client.phase = "asking" /\ client.cursor # NoCursor
  BY DEF Reorder
<1>3. /\ client'.phase = "asking" /\ client'.cursor = client.cursor
      /\ client'.got = client.got /\ client'.query = q
  BY <1>1, <1>2 DEF ListInv, ClientOK
<1>4. q \in Orderings(SortFields[list])
  BY <1>1, QueriesAre, FieldsOf, ListsAssumption DEF ListInv, RowsOK
<1>5. ClientOK'
  BY <1>1, <1>2, <1>3, <1>4 DEF ListInv, ClientOK, CursorOK
<1>6. Asked' = Asked
  BY <1>2, <1>3 DEF Asked
<1>7. GotOK'
  BY <1>2, <1>3, <1>6 DEF ListInv, GotOK, Received, Precedes, Beyond, Steady
<1> QED BY <1>2, <1>5, <1>7 DEF ListInv, RowsOK, SteadyOK, Steady, EventsOK, WatchOK

LEMMA ListInitInv == ListInit => ListInv
<1> SUFFICES ASSUME ListInit PROVE ListInv
  OBVIOUS
<1>1. list \in Lists /\ list \in DOMAIN SortFields
  BY ListsAssumption, FieldsOf DEF ListInit
<1>2. PICK q \in Queries(list), present \in SUBSET RowIds, value \in [RowIds -> ColumnValues] :
        /\ rows = [r \in RowIds |->
                    [state |-> IF r \in present THEN "there" ELSE "absent",
                     column |-> [f \in SortFields[list] |->
                                   IF f = q.sort_by THEN value[r] ELSE MaxValue + 1 - value[r]],
                     selected |-> TRUE]]
        /\ client = [phase |-> "asking", query |-> q, cursor |-> NoCursor, got |-> <<>>]
        /\ watch = [began |-> present, changed |-> {}]
  BY DEF ListInit
<1>3. q \in Orderings(SortFields[list])
  BY <1>1, <1>2, QueriesAre
<1>4. RowsOK
  <2>1. \A r \in RowIds : value[r] \in Int /\ MaxValue + 1 - value[r] \in Int
    BY <1>2, ListsAssumption DEF ColumnValues
  <2> QED BY <1>1, <1>2, <2>1 DEF RowsOK
<1>5. ClientOK
  BY <1>2, <1>3 DEF ClientOK, CursorOK
<1>6. SteadyOK /\ WatchOK
  BY <1>2 DEF SteadyOK, Steady, WatchOK
<1>7. EventsOK
  BY <1>2 DEF EventsOK
<1>8. GotOK
  BY <1>2 DEF GotOK, Received, Beyond
<1> QED BY <1>4, <1>5, <1>6, <1>7, <1>8 DEF ListInv

LEMMA ListStep == ListInv /\ CursorEventExists /\ [ListNext]_listVars => ListInv'
<1> SUFFICES ASSUME ListInv, CursorEventExists, [ListNext]_listVars PROVE ListInv'
  OBVIOUS
<1>1. CASE UNCHANGED listVars
  <2>1. list' = list /\ rows' = rows /\ client' = client /\ watch' = watch
    BY <1>1 DEF listVars
  <2>2. RowsOK'
    BY <2>1 DEF ListInv, RowsOK
  <2>3. ClientOK'
    BY <2>1 DEF ListInv, ClientOK, CursorOK
  <2>4. WatchOK' /\ SteadyOK'
    BY <2>1 DEF ListInv, WatchOK, SteadyOK, Steady
  <2>5. GotOK'
    <3>1. GotOK
      BY DEF ListInv
    <3>2. Steady' = Steady /\ Asked' = Asked
      BY <2>1 DEF Steady, Asked
    <3>3. \A r : Received(r)' <=> Received(r)
      BY <2>1 DEF Received
    <3>4. \A r, s, q : Precedes(r, s, q)' <=> Precedes(r, s, q)
      BY <2>1 DEF Precedes
    <3>5. \A r, q, c : Beyond(r, q, c)' <=> Beyond(r, q, c)
      BY <2>1 DEF Beyond
    <3> QED BY <2>1, <3>1, <3>2, <3>3, <3>4, <3>5 DEF GotOK
  <2>6. EventsOK'
    BY <2>1 DEF ListInv, EventsOK
  <2> QED BY <2>2, <2>3, <2>4, <2>5, <2>6 DEF ListInv
<1> QED BY <1>1, AnswerKeeps, RestartKeeps, ReorderKeeps, RowSteps DEF ListNext

(* Whatever is written between two pages, a client that follows the        *)
(* cursors of a list is refused only for a changed query, receives no      *)
(* unchanged row twice, and at the end has every unchanged row in the      *)
(* order it asked for: the queries of the repositories and the endpoints   *)
(* of all ten lists. The events need the event of the cursor to exist,     *)
(* which EventRepository.list looks up again.                              *)
THEOREM PagesCovered ==
  ListSpec /\ []CursorEventExists => []PagesCoverRows
<1>1. ListInv => PagesCoverRows
  <2> SUFFICES ASSUME ListInv PROVE PagesCoverRows
    OBVIOUS
  <2> DEFINE places == {i \in DOMAIN client.got : client.got[i] \in Steady}
  <2>1. DOMAIN client.got = 1..Len(client.got) /\ client.got \in Seq(RowIds)
    BY DEF ListInv, ClientOK
  <2>2. client.phase = "refused" => client.cursor.query # client.query
    BY DEF ListInv, ClientOK
  <2>3. ASSUME NEW i \in places, NEW j \in places, i < j
        PROVE  Precedes(client.got[i], client.got[j], Asked)
    BY <2>1, <2>3 DEF ListInv, GotOK
  <2>4. ASSUME NEW i \in places, NEW j \in places, i < j
        PROVE  client.got[i] # client.got[j]
    <3>1. Asks(Asked) /\ RowsOK /\ client.got[i] \in RowIds
      BY <2>1 DEF Asks, Asked, ListInv, ClientOK, CursorOK, CursorStates
    <3> QED BY <2>3, <2>4, <3>1, PrecedesOrder
  <2>5. ASSUME client.phase = "done"
        PROVE  /\ Steady \subseteq {client.got[i] : i \in places}
               /\ Asked = client.query
    BY <2>1, <2>5 DEF ListInv, GotOK, Received, ClientOK, Asked
  <2> QED BY <2>2, <2>3, <2>4, <2>5 DEF PagesCoverRows, Steady
<1> QED BY <1>1, ListInitInv, ListStep, PTL DEF ListSpec
=============================================================================
