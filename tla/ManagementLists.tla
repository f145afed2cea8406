-------------------------- MODULE ManagementLists --------------------------
(* The list endpoints: pages cut by a keyset cursor out of rows that other *)
(* requests insert, change and remove between two pages. A row keeps what  *)
(* the paging looks at: its sort columns and whether the filters of the    *)
(* query select it. The identifiers are ordered, as the key columns are.   *)
EXTENDS Integers, Sequences, FiniteSets

CONSTANTS
  Lists,          \* the lists a client may page through
  Removable,      \* those whose rows are deleted
  RowIds,         \* the key column: identifiers, record_id, sequence
  MaxValue,       \* bound: values of a sort column
  PageLimit,      \* limit of the query
  MaxWrites       \* bound: writes and changes of mind during a listing

ASSUME ListsAssumption ==
  /\ Lists \subseteq
       {"tasks", "stages", "artifacts", "backends", "pipelines", "workers",
        "deliveries", "attempts", "api_keys", "events"}
  /\ Removable \subseteq Lists
  /\ RowIds \subseteq Nat /\ IsFiniteSet(RowIds) /\ MaxValue \in Nat \ {0}
  /\ PageLimit \in Nat \ {0} /\ MaxWrites \in Nat

VARIABLES
  list,     \* the list
  rows,     \* its table
  client,   \* a client that walks through it
  watch,    \* which rows the listing began with and which changed since
  writes    \* writes so far

ColumnValues == 1..MaxValue

listVars == <<list, rows, client, watch, writes>>

-----------------------------------------------------------------------------
(* The sort fields of each list. *)
TaskSortField == {"created_at", "updated_at", "priority"}
StageSortField == {"position", "created_at"}
ArtifactSortField == {"created_at", "filename", "size_bytes"}
BackendSortField == {"created_at", "updated_at", "name"}
PipelineSortField == {"created_at", "updated_at", "name", "version"}
WorkerSortField == {"created_at", "updated_at", "name"}
CallbackSortField == {"created_at", "updated_at", "status"}
CallbackAttemptSortField == {"sequence", "started_at", "duration_ms"}
ApiKeySortField == {"created_at", "updated_at", "name"}
EventSortField == {"occurred_at", "type"}

SortFields ==
  [tasks |-> TaskSortField, stages |-> StageSortField,
   artifacts |-> ArtifactSortField, backends |-> BackendSortField,
   pipelines |-> PipelineSortField, workers |-> WorkerSortField,
   deliveries |-> CallbackSortField, attempts |-> CallbackAttemptSortField,
   api_keys |-> ApiKeySortField, events |-> EventSortField]

(* The columns that a write to an existing row changes: a worker that      *)
(* registers again and an API key may be renamed.                          *)
MovingColumns ==
  [tasks |-> {"updated_at"}, stages |-> {}, artifacts |-> {},
   backends |-> {"updated_at"}, pipelines |-> {"updated_at"},
   workers |-> {"updated_at", "name"}, deliveries |-> {"updated_at", "status"},
   attempts |-> {}, api_keys |-> {"updated_at", "name"}, events |-> {}]

(* What a column holds, and a cursor then carries. *)
KindOfColumn ==
  [f \in UNION {SortFields[l] : l \in DOMAIN SortFields} |->
     CASE f \in {"created_at", "updated_at", "started_at", "occurred_at"} ->
            "datetime"
       [] f \in {"name", "filename", "status", "type"} -> "string"
       [] OTHER -> "integer"]

(* The parameters of the queries; the filters are in Selected. *)
Orderings(fields) == [sort_by : fields, direction : {"asc", "desc"}]

task_list_query == Orderings(TaskSortField)
stage_list_query == Orderings(StageSortField)
artifact_list_query == Orderings(ArtifactSortField)
backend_list_query == Orderings(BackendSortField)
pipeline_list_query == Orderings(PipelineSortField)
worker_list_query == Orderings(WorkerSortField)
callback_list_query == Orderings(CallbackSortField)
callback_attempt_list_query == Orderings(CallbackAttemptSortField)
api_key_list_query == Orderings(ApiKeySortField)
event_list_query == Orderings(EventSortField)

Queries(l) ==
  CASE l = "tasks"      -> task_list_query
    [] l = "stages"     -> stage_list_query
    [] l = "artifacts"  -> artifact_list_query
    [] l = "backends"   -> backend_list_query
    [] l = "pipelines"  -> pipeline_list_query
    [] l = "workers"    -> worker_list_query
    [] l = "deliveries" -> callback_list_query
    [] l = "attempts"   -> callback_attempt_list_query
    [] l = "api_keys"   -> api_key_list_query
    [] l = "events"     -> event_list_query

NoCursor == [query |-> "none"]

Present == {r \in RowIds : rows[r].state = "there"}

Selected(r) == rows[r].selected

-----------------------------------------------------------------------------
(* Definitions named X_... are faulty variants of X: the mutants that show *)
(* each property can fail.                                                 *)

(* The order of the statement: the sort column, then the key column. *)
Precedes(r, s, q) ==
  LET a == rows[r].column[q.sort_by] IN
  LET b == rows[s].column[q.sort_by] IN
  IF q.direction = "asc" THEN a < b \/ (a = b /\ r < s)
                         ELSE a > b \/ (a = b /\ r > s)

(* The members of S in an order, given as the pairs of which one comes     *)
(* before the other: each has as many before it as there are places.       *)
Ranked(S, before) ==
  [i \in 1..Cardinality(S) |->
     CHOOSE x \in S : Cardinality({y \in S : <<y, x>> \in before}) = i - 1]

Ordered(S, q) == Ranked(S, {p \in S \X S : Precedes(p[1], p[2], q)})

(* What a filter leaves of a sequence: its members that are in T. *)
Kept(s, T) ==
  LET kept == {i \in DOMAIN s : s[i] \in T}
      place == Ranked(kept, {p \in kept \X kept : p[1] < p[2]})
  IN [i \in DOMAIN place |-> s[place[i]]]

(* The rows after the cursor. *)
Beyond(r, q, c) ==
  \/ c = NoCursor
  \/ LET a == rows[r].column[q.sort_by] IN
     IF q.direction = "asc" THEN a > c.value \/ (a = c.value /\ r > c.id)
                            ELSE a < c.value \/ (a = c.value /\ r < c.id)

FirstOf(n, s) == SubSeq(s, 1, IF Len(s) < n THEN Len(s) ELSE n)

(* One more than the limit, filters, cursor and order in the statement. *)
Limited(q, c) ==
  FirstOf(PageLimit + 1,
          Ordered({r \in Present : Selected(r) /\ Beyond(r, q, c)}, q))

(* All rows after the cursor, filtered and cut by the process. *)
Filtered_after_limit(q, c) ==
  Kept(FirstOf(PageLimit + 1, Ordered({r \in Present : Beyond(r, q, c)}, q)),
       {r \in RowIds : Selected(r)})

Filtered(q, c) ==
  FirstOf(PageLimit + 1,
          Kept(Ordered({r \in Present : Beyond(r, q, c)}, q),
               {r \in RowIds : Selected(r)}))

TaskRepository_list(q, c) == Limited(q, c)
ArtifactRepository_list_for_task(q, c) == Limited(q, c)
BackendRepository_list(q, c) == Filtered(q, c)
PipelineRepository_list(q, c) == Filtered(q, c)
WorkerRepository_list(q, c) == Filtered(q, c)
CallbackRepository_list(q, c) == Limited(q, c)
CallbackRepository_list_attempts(q, c) == Limited(q, c)
ApiKeyRepository_list(q, c) == Limited(q, c)

(* The stages of one task: loaded, filtered, sorted and cut by the process. *)
Stages_of_task(q, c) ==
  Kept(Ordered({r \in Present : Selected(r)}, q), {r \in RowIds : Beyond(r, q, c)})

(* The cursor of the events is the last event itself, looked up again: if  *)
(* it has been deleted there are no more events.                           *)
EventRepository_list(q, c) ==
  IF c # NoCursor /\ c.id \notin Present
    THEN <<>>
    ELSE Limited(q, IF c = NoCursor THEN c
                    ELSE [c EXCEPT !.value = rows[c.id].column[q.sort_by]])

-----------------------------------------------------------------------------
(* A cursor is bound to the ordering it was made for, and the value in it  *)
(* must be of the kind that the endpoint expects; one for another ordering *)
(* is refused. The cursor of the events is not.                            *)
Decodes(q, c, kind) == c = NoCursor \/ (c.query = q /\ c.kind = kind)

_decode_bound_cursor(q, c, resource, kind) ==
  Decodes(q, c, kind) /\ (c # NoCursor => c.list = resource)

_decode_cursor(q, c) ==
  Decodes(q, c, IF q.sort_by = "priority" THEN "integer" ELSE "datetime")

_decode_stage_cursor(q, c) ==
  _decode_bound_cursor(q, c, "stages",
    IF q.sort_by = "position" THEN "integer" ELSE "datetime")

_decode_artifact_cursor(q, c) ==
  _decode_bound_cursor(q, c, "artifacts",
    CASE q.sort_by = "created_at" -> "datetime"
      [] q.sort_by = "size_bytes" -> "integer"
      [] OTHER -> "string")

(* The value_kind that list_backends and list_pipelines ask for. *)
_decode_registry_cursor(q, c) ==
  Decodes(q, c, CASE q.sort_by = "name" -> "string"
                  [] q.sort_by = "version" -> "integer"
                  [] OTHER -> "datetime")

_decode_worker_cursor(q, c) ==
  Decodes(q, c, IF q.sort_by = "name" THEN "string" ELSE "datetime")

_decode_delivery_cursor(q, c) ==
  Decodes(q, c, IF q.sort_by = "status" THEN "string" ELSE "datetime")

_decode_attempt_cursor(q, c) ==
  Decodes(q, c, IF q.sort_by = "started_at" THEN "datetime" ELSE "integer")

_decode_api_key_cursor(q, c) ==
  Decodes(q, c, IF q.sort_by = "name" THEN "string" ELSE "datetime")

_encode_cursor(q, r) ==
  [query |-> q, list |-> list, kind |-> KindOfColumn[q.sort_by],
   value |-> rows[r].column[q.sort_by], id |-> r]

(* The answer of an endpoint: 422, or a page and the cursor of the next. *)
Respond(valid, records) ==
  /\ client.phase = "asking"
  /\ client' =
       IF ~valid THEN [client EXCEPT !.phase = "refused"]
       ELSE LET page == FirstOf(PageLimit, records)
                has_more == Len(records) > PageLimit
            IN [client EXCEPT
                  !.phase = IF has_more THEN "asking" ELSE "done",
                  !.cursor = IF has_more
                               THEN _encode_cursor(client.query, page[Len(page)])
                               ELSE NoCursor,
                  !.got = @ \o page]
  /\ UNCHANGED <<list, rows, watch, writes>>

list_tasks ==
  /\ list = "tasks"
  /\ Respond(_decode_cursor(client.query, client.cursor),
             TaskRepository_list(client.query, client.cursor))

list_task_stages ==
  /\ list = "stages"
  /\ Respond(_decode_stage_cursor(client.query, client.cursor),
             Stages_of_task(client.query, client.cursor))

list_task_artifacts ==
  /\ list = "artifacts"
  /\ Respond(_decode_artifact_cursor(client.query, client.cursor),
             ArtifactRepository_list_for_task(client.query, client.cursor))

list_backends ==
  /\ list = "backends"
  /\ Respond(_decode_registry_cursor(client.query, client.cursor),
             BackendRepository_list(client.query, client.cursor))

list_pipelines ==
  /\ list = "pipelines"
  /\ Respond(_decode_registry_cursor(client.query, client.cursor),
             PipelineRepository_list(client.query, client.cursor))

list_workers ==
  /\ list = "workers"
  /\ Respond(_decode_worker_cursor(client.query, client.cursor),
             WorkerRepository_list(client.query, client.cursor))

list_callback_deliveries ==
  /\ list = "deliveries"
  /\ Respond(_decode_delivery_cursor(client.query, client.cursor),
             CallbackRepository_list(client.query, client.cursor))

list_callback_attempts ==
  /\ list = "attempts"
  /\ Respond(_decode_attempt_cursor(client.query, client.cursor),
             CallbackRepository_list_attempts(client.query, client.cursor))

list_api_keys ==
  /\ list = "api_keys"
  /\ Respond(_decode_api_key_cursor(client.query, client.cursor),
             ApiKeyRepository_list(client.query, client.cursor))

_list_events ==
  /\ list = "events"
  /\ Respond(TRUE, EventRepository_list(client.query, client.cursor))

Answer ==
  \/ list_tasks \/ list_task_stages \/ list_task_artifacts
  \/ list_backends \/ list_pipelines \/ list_workers
  \/ list_callback_deliveries \/ list_callback_attempts \/ list_api_keys
  \/ _list_events

-----------------------------------------------------------------------------
(* The client and the other requests. *)
Began == [began |-> {r \in Present : Selected(r)}, changed |-> {}]

(* A client that was refused begins again without a cursor. *)
Restart ==
  /\ client.phase = "refused"
  /\ client' = [client EXCEPT !.phase = "asking", !.cursor = NoCursor, !.got = <<>>]
  /\ watch' = Began
  /\ UNCHANGED <<list, rows, writes>>

(* It asks for another ordering but keeps the cursor. *)
Reorder ==
  /\ client.phase = "asking" /\ client.cursor # NoCursor
  /\ list # "events"
  /\ writes < MaxWrites
  /\ \E q \in Queries(list) \ {client.query} : client' = [client EXCEPT !.query = q]
  /\ writes' = writes + 1
  /\ UNCHANGED <<list, rows, watch>>

Write(r, row) ==
  /\ client.phase = "asking" /\ writes < MaxWrites
  /\ rows' = [rows EXCEPT ![r] = row]
  /\ watch' = [watch EXCEPT !.changed = @ \cup {r}]
  /\ writes' = writes + 1
  /\ UNCHANGED <<list, client>>

Columns(v) == [f \in SortFields[list] |-> v]

(* A new row, committed now: its times may lie before those of others. *)
InsertRow(r) ==
  /\ rows[r].state = "absent"
  /\ \E v \in ColumnValues :
       Write(r, [state |-> "there", column |-> Columns(v), selected |-> TRUE])

(* A change of a row: updated_at does not go back, a name or a status is   *)
(* any, and the filters may select the row or not.                         *)
Changed(column, time, v) ==
  [f \in DOMAIN column |->
     IF f \notin MovingColumns[list] THEN column[f]
     ELSE IF f = "updated_at" THEN time ELSE v]

ChangeRow(r) ==
  /\ rows[r].state = "there"
  /\ \E time, v \in ColumnValues, selected \in BOOLEAN :
       /\ "updated_at" \in MovingColumns[list] => time >= rows[r].column.updated_at
       /\ Write(r, [rows[r] EXCEPT !.column = Changed(@, time, v),
                                   !.selected = selected])

RemoveRow(r) ==
  /\ list \in Removable /\ rows[r].state = "there"
  /\ Write(r, [rows[r] EXCEPT !.state = "gone"])

-----------------------------------------------------------------------------
(* The columns the client does not sort by run against those it does. *)
ListInit ==
  /\ list \in Lists
  /\ \E q \in Queries(list), present \in SUBSET RowIds,
        value \in [RowIds -> ColumnValues] :
       /\ \A r \in RowIds \ present : value[r] = 1
       /\ rows = [r \in RowIds |->
                    [state |-> IF r \in present THEN "there" ELSE "absent",
                     column |-> [f \in SortFields[list] |->
                                   IF f = q.sort_by THEN value[r] ELSE MaxValue + 1 - value[r]],
                     selected |-> TRUE]]
       /\ client = [phase |-> "asking", query |-> q, cursor |-> NoCursor,
                    got |-> <<>>]
       /\ watch = [began |-> present, changed |-> {}]
  /\ writes = 0

ListNext ==
  \/ Answer \/ Restart \/ Reorder
  \/ \E r \in RowIds : InsertRow(r) \/ ChangeRow(r) \/ RemoveRow(r)

ListSpec == ListInit /\ [][ListNext]_listVars

-----------------------------------------------------------------------------
(* A client that follows the cursors is not refused unless it has changed  *)
(* its query, and receives no row twice unless the row was changed         *)
(* meanwhile: it comes to the end.  By then it has received every row that *)
(* was there all the while and did not change, in the order it asked for,  *)
(* whatever happened to the others.                                        *)
PagesCoverRows ==
  LET steady == watch.began \ watch.changed
      places == {i \in DOMAIN client.got : client.got[i] \in steady}
  IN
  /\ client.phase = "refused" => client.cursor.query # client.query
  /\ \A i, j \in places : i < j => client.got[i] # client.got[j]
  /\ client.phase = "done" =>
       /\ steady \subseteq {client.got[i] : i \in places}
       /\ \A i, j \in places : i < j => Precedes(client.got[i], client.got[j], client.query)
=============================================================================
