----------------------------- MODULE TaskRouting -----------------------------
(***************************************************************************)
(* How a task comes by its stages: the registry of backends and pipeline   *)
(* versions (parser_serve/persistence/registry.py, api/routes/registry.py, *)
(* control/defaults.py), create_task with its idempotency key              *)
(* (persistence/tasks.py, api/routes/tasks.py), the router                 *)
(* (control/router.py) and the loop that routes what could not be routed   *)
(* at once (control/routing_service.py).                                   *)
(*                                                                         *)
(* The n-th request to create a task reads the clock n-th, and its task,   *)
(* if it makes one, is task n: the numbers are the order of created_at.    *)
(* A MIME pattern is the set of the types that it matches.                 *)
(***************************************************************************)
EXTENDS Naturals, Sequences, FiniteSets, SequencesExt, PipelineGraph

CONSTANTS
  Tasks,        \* 1..n
  Keys,         \* idempotency keys
  Requests,     \* [category, mime, pipeline, backend, strategy, runtimes]
  Backends,     \* backend names, of one version each
  Capability,   \* of a backend: [categories, mimes, runtimes]
  Builtin,      \* backends of the default catalog
  Pipelines,    \* pipeline ids
  Versions,     \* 1..n
  Definitions,  \* [categories, mimes, priority, stages]: what may be asked for;
                \* stages maps a name to [depends_on, backends, runtimes]
  Default,      \* the definition of the default pipeline
  DefaultId,    \* its pipeline id
  Publishers,   \* requests to publish
  BatchSize,    \* batch_size of the routing service
  GraphNames,   \* names of stages over which validate_dag is examined
  None,
  MaxUpdates,   \* bound: changes of the registry, and retries of tasks
  MaxFaults     \* bound: transactions that the database ends

ASSUME BatchAssumption == BatchSize \in Nat \ {0}
ASSUME OrdersAssumption ==
  /\ Tasks \subseteq Nat \ {0}
  /\ IsFiniteSet(Versions) /\ Versions = 1..Cardinality(Versions)
ASSUME DefinitionsAssumption ==
  /\ IsFiniteSet(GraphNames)
  /\ \A definition \in Definitions \cup {Default} : IsFiniteSet(DOMAIN definition.stages)

VARIABLES
  backend,   \* backends: none, enabled, disabled
  pipeline,  \* pipelines: status and definition by id and version
  task,
  client,    \* the requests to create tasks
  publisher,
  batch,     \* the tasks that the routing loop has still to look at
  updates,
  faults

vars == <<backend, pipeline, task, client, publisher, batch, updates, faults>>
registry == <<backend, pipeline, publisher, updates>>

NoTask == 0
NoVersion == [status |-> "none", definition |-> None]
NoRow == [status |-> "none", key |-> None, request |-> None, stages |-> << >>,
          pipeline |-> None]
NoRequest == [state |-> "idle", key |-> None, request |-> None, task |-> NoTask]
NotPublishing == [state |-> "idle", id |-> None, version |-> 0, others |-> {}]

(* A change of the registry, and a failure of the database.                *)
Update == updates < MaxUpdates /\ updates' = updates + 1
Fault == faults < MaxFaults /\ faults' = faults + 1

-----------------------------------------------------------------------------
(* Backends and pipelines. In a catalog the status of each backend.        *)
enabled_by_names(catalog, names) ==
  SelectSeq(names, LAMBDA b : catalog[b] = "enabled")

mime_patterns_overlap(first, second) == first \cap second # {}

backend_supports_pipeline(b, definition) ==
  \/ Capability[b].categories \cap definition.categories # {}
  \/ mime_patterns_overlap(Capability[b].mimes, definition.mimes)

(* Every stage of the definition has an enabled backend that fits.         *)
validate(catalog, definition) ==
  \A s \in DOMAIN definition.stages :
    LET stage == definition.stages[s]
    IN \E b \in ToSet(enabled_by_names(catalog, stage.backends)) :
         /\ backend_supports_pipeline(b, definition)
         /\ stage.runtimes = {} \/ stage.runtimes \cap Capability[b].runtimes # {}

(* The graph that PipelineDefinition checks as it is made. *)
StageGraph(definition) ==
  [s \in DOMAIN definition.stages |-> definition.stages[s].depends_on]

VersionsOf(p) == {v \in Versions : pipeline[p][v].status # "none"}
NextVersion(p) == IF VersionsOf(p) = {} THEN 1 ELSE Max(VersionsOf(p)) + 1
Draft(definition) == [status |-> "draft", definition |-> definition]

create_backend(b) ==
  /\ backend[b] = "none"
  /\ \E status \in {"enabled", "disabled"} : backend' = [backend EXCEPT ![b] = status]
  /\ UNCHANGED <<pipeline, task, client, publisher, batch, updates, faults>>

update_backend(b) ==
  /\ backend[b] # "none"
  /\ Update
  /\ backend' = [backend EXCEPT ![b] = IF @ = "enabled" THEN "disabled" ELSE "enabled"]
  /\ UNCHANGED <<pipeline, task, client, publisher, batch, faults>>

(* The version is the one after the last; of two that take the same one    *)
(* the second fails on the unique index, as if it had not been asked for.  *)
create_pipeline(p, definition) ==
  /\ validate_dag(StageGraph(definition))
  /\ NextVersion(p) \in Versions
  /\ pipeline' = [pipeline EXCEPT ![p][NextVersion(p)] = Draft(definition)]
  /\ UNCHANGED <<backend, task, client, publisher, batch, updates, faults>>

(* publish locks the row of the version and validates it ...               *)
LockedBy(x) ==
  {<<publisher[x].id, v>> : v \in {publisher[x].version} \cup publisher[x].others}
Locked == UNION {LockedBy(x) : x \in Publishers}

PublishBegin(x, p, v) ==
  /\ publisher[x].state = "idle"
  /\ v \in VersionsOf(p) /\ <<p, v>> \notin Locked
  /\ validate(backend, pipeline[p][v].definition)
  /\ Update
  /\ publisher' = [publisher EXCEPT ![x] =
       [state |-> "locked", id |-> p, version |-> v, others |-> {}]]
  /\ UNCHANGED <<backend, pipeline, task, client, batch, faults>>

(* ... selects the other published versions, as they are committed, and    *)
(* locks them ...                                                          *)
PublishedVersions(p) == {v \in Versions : pipeline[p][v].status = "published"}

PublishSelect(x) ==
  LET p == publisher[x].id
      others == PublishedVersions(p) \ {publisher[x].version}
  IN /\ publisher[x].state = "locked"
     /\ \A v \in others : <<p, v>> \notin Locked
     /\ publisher' = [publisher EXCEPT ![x].state = "selected", ![x].others = others]
     /\ UNCHANGED <<backend, pipeline, task, client, batch, updates, faults>>

(* ... and disables them.                                                  *)
publish(versions, v, others) ==
  [u \in Versions |->
     IF u = v THEN [versions[u] EXCEPT !.status = "published"]
     ELSE IF u \in others THEN [versions[u] EXCEPT !.status = "disabled"]
     ELSE versions[u]]

PublishCommit(x) ==
  /\ publisher[x].state = "selected"
  /\ pipeline' = [pipeline EXCEPT ![publisher[x].id] =
       publish(@, publisher[x].version, publisher[x].others)]
  /\ publisher' = [publisher EXCEPT ![x] = NotPublishing]
  /\ UNCHANGED <<backend, task, client, batch, updates, faults>>

(* The database ends the transaction (a deadlock, a lost connection).      *)
PublishFails(x) ==
  /\ publisher[x].state # "idle"
  /\ Fault
  /\ publisher' = [publisher EXCEPT ![x] = NotPublishing]
  /\ UNCHANGED <<backend, pipeline, task, client, batch, updates>>

(* initialize_default_catalog registers the builtin backends that are      *)
(* missing, creates the default pipeline if it has no version, and         *)
(* publishes its last version if that is valid and not published.          *)
Install(catalog) ==
  [b \in Backends |->
     IF b \in Builtin /\ catalog[b] = "none" THEN "enabled" ELSE catalog[b]]

_install_pipeline(catalog, versions) ==
  LET known == {v \in Versions : versions[v].status # "none"}
      last == IF known = {} THEN 1 ELSE Max(known)
      row == IF known = {} THEN Draft(Default) ELSE versions[last]
      others == {v \in Versions : versions[v].status = "published"} \ {last}
      installed == [versions EXCEPT ![last] = row]
  IN IF row.status # "published" /\ validate(catalog, row.definition)
     THEN publish(installed, last, others)
     ELSE installed

initialize_default_catalog ==
  /\ Update
  /\ \A v \in Versions : <<DefaultId, v>> \notin Locked
  /\ VersionsOf(DefaultId) = {} => validate_dag(StageGraph(Default))
  /\ backend' = Install(backend)
  /\ pipeline' = [pipeline EXCEPT ![DefaultId] = _install_pipeline(Install(backend), @)]
  /\ UNCHANGED <<task, client, publisher, batch, faults>>

-----------------------------------------------------------------------------
(* The router.                                                             *)
pipeline_supports_source(definition, request) ==
  /\ request.category \in definition.categories
  /\ definition.mimes = {} \/ mime_patterns_overlap(definition.mimes, {request.mime})

backend_supports_source(b, request) ==
  \/ request.category \in Capability[b].categories
  \/ mime_patterns_overlap(Capability[b].mimes, {request.mime})

(* The runtimes of a stage that this request may use.                      *)
_allowed_runtimes(offered, needed, request) ==
  {r \in offered : /\ needed # {} => r \in needed
                   /\ request.strategy = "require" /\ request.runtimes # {}
                        => r \in request.runtimes}

_runtime_compatible(b, needed, request) ==
  _allowed_runtimes(Capability[b].runtimes, needed, request) # {}

(* Published versions that fit; the first by priority, version and id      *)
(* (here of equal ones any, the same each time).                           *)
published_candidates(request) ==
  {pv \in Pipelines \X Versions :
     LET row == pipeline[pv[1]][pv[2]]
     IN row.status = "published" /\ pipeline_supports_source(row.definition, request)}

Outranks(a, b) ==
  LET pa == pipeline[a[1]][a[2]].definition.priority
      pb == pipeline[b[1]][b[2]].definition.priority
  IN pa > pb \/ (pa = pb /\ a[2] > b[2])

_select_pipeline(request, allow_unpublished) ==
  IF request.pipeline # None
  THEN {pv \in {request.pipeline} :
          LET row == pipeline[pv[1]][pv[2]]
          IN /\ \/ row.status = "published"
                \/ allow_unpublished /\ row.status = "draft"
             /\ pipeline_supports_source(row.definition, request)}
  ELSE LET found == published_candidates(request)
           best == {pv \in found : \A other \in found : ~Outranks(other, pv)}
       IN IF best = {} THEN {} ELSE {CHOOSE pv \in best : TRUE}

(* The backends that may run a stage, in the order in which they are       *)
(* tried: those with a runtime that the task prefers come first.           *)
StageCandidates(stage, request) ==
  LET names == SelectSeq(stage.backends, LAMBDA b : request.backend \in {None, b})
      able == SelectSeq(enabled_by_names(backend, names), LAMBDA b :
                /\ backend_supports_source(b, request)
                /\ _runtime_compatible(b, stage.runtimes, request))
      Preferred(b) == /\ request.strategy = "prefer"
                      /\ Capability[b].runtimes \cap request.runtimes # {}
  IN SelectSeq(able, Preferred) \o SelectSeq(able, LAMBDA b : ~Preferred(b))

Stages(definition, request) ==
  [s \in DOMAIN definition.stages |->
     LET candidates == StageCandidates(definition.stages[s], request)
     IN [candidates |-> candidates,
         runtimes |-> _allowed_runtimes(
           UNION {Capability[b].runtimes : b \in ToSet(candidates)},
           definition.stages[s].runtimes, request)]]

(* What route would give the task: nothing if a stage has no candidate.    *)
Plans(request, allow_unpublished) ==
  {plan \in {[pipeline |-> pv,
              stages |-> Stages(pipeline[pv[1]][pv[2]].definition, request)] :
               pv \in _select_pipeline(request, allow_unpublished)} :
     \A s \in DOMAIN plan.stages : plan.stages[s].candidates # << >>}

Waiting(t) == task[t].status = "pending" /\ task[t].stages = << >>
Routable(t) == Plans(task[t].request, FALSE) # {}

Planned(row, allow_unpublished) ==
  {[row EXCEPT !.stages = plan.stages, !.pipeline = plan.pipeline] :
     plan \in Plans(row.request, allow_unpublished)}

(* route holds the row of the task. A task that has stages is left alone;  *)
(* one that is not pending, or finds no pipeline or backend, is refused.   *)
route_again(t) ==
  IF task[t].status = "pending" /\ Routable(t)
  THEN \E row \in Planned(task[t], FALSE) : task' = [task EXCEPT ![t] = row]
  ELSE UNCHANGED task

route(t) ==
  IF Waiting(t) /\ Routable(t)
  THEN \E row \in Planned(task[t], FALSE) : task' = [task EXCEPT ![t] = row]
  ELSE UNCHANGED task

route_task(t) ==
  /\ Waiting(t) /\ Routable(t)
  /\ route(t)
  /\ UNCHANGED <<registry, client, batch, faults>>

-----------------------------------------------------------------------------
(* Creating tasks.                                                         *)
Holders(key) == {t \in Tasks : task[t].status # "none" /\ task[t].key = key}

(* The answer to a request whose key has been used.                        *)
Existing(c, t) ==
  [c EXCEPT !.state = IF task[t].request = c.request THEN "answered" ELSE "conflict",
            !.task = IF task[t].request = c.request THEN t ELSE NoTask]

_validate_pipeline(request) ==
  request.pipeline # None
    => pipeline[request.pipeline[1]][request.pipeline[2]].status = "published"

(* The handler reads the clock, looks the key up, and checks the pipeline. *)
CreateBegin(t, key, request) ==
  LET asked == [NoRequest EXCEPT !.key = key, !.request = request]
  IN /\ client[t].state = "idle"
     /\ \A earlier \in Tasks : earlier < t => client[earlier].state # "idle"
     /\ client' = [client EXCEPT ![t] =
          IF key # None /\ Holders(key) # {}
          THEN Existing(asked, CHOOSE h \in Holders(key) : TRUE)
          ELSE [asked EXCEPT !.state =
                  IF _validate_pipeline(request) THEN "creating" ELSE "refused"]]
     /\ UNCHANGED <<registry, task, batch, faults>>

(* It inserts the task, which waits for, and fails on, another one with    *)
(* the same key; routes it, if that can be done; and commits.              *)
NewRow(c) == [NoRow EXCEPT !.status = "pending", !.key = c.key, !.request = c.request,
                           !.pipeline = c.request.pipeline]

Insert(t) ==
  LET row == NewRow(client[t])
  IN /\ \E created \in IF Plans(row.request, FALSE) = {} THEN {row}
                       ELSE Planned(row, FALSE) :
          task' = [task EXCEPT ![t] = created]
     /\ client' = [client EXCEPT ![t].state = "answered", ![t].task = t]

CreateCommit_not_unique(t) ==
  /\ client[t].state = "creating"
  /\ Insert(t)
  /\ UNCHANGED <<registry, batch, faults>>

CreateCommit(t) ==
  /\ client[t].state = "creating"
  /\ IF client[t].key # None /\ Holders(client[t].key) # {}
     THEN /\ client' = [client EXCEPT ![t].state = "again"]
          /\ UNCHANGED task
     ELSE Insert(t)
  /\ UNCHANGED <<registry, batch, faults>>

(* After the failure it asks the repository again, and finds the other.    *)
CreateAgain(t) ==
  /\ client[t].state = "again"
  /\ client' = [client EXCEPT ![t] =
       Existing(@, CHOOSE h \in Holders(@.key) : TRUE)]
  /\ UNCHANGED <<registry, task, batch, faults>>

CreateFails(t) ==
  /\ client[t].state \in {"creating", "again"}
  /\ Fault
  /\ client' = [client EXCEPT ![t].state = "refused"]
  /\ UNCHANGED <<registry, task, batch>>

(* test_pipeline creates a task for a version that may be a draft; the     *)
(* task is not created unless it can be routed.                            *)
test_pipeline(t, p, v, request) ==
  LET asked == [request EXCEPT !.pipeline = <<p, v>>]
      row == [NewRow([key |-> None, request |-> asked]) EXCEPT !.pipeline = <<p, v>>]
  IN /\ client[t].state = "idle"
     /\ \A earlier \in Tasks : earlier < t => client[earlier].state # "idle"
     /\ pipeline[p][v].status \in {"draft", "published"}
     /\ validate(backend, pipeline[p][v].definition)
     /\ \E created \in Planned(row, TRUE) : task' = [task EXCEPT ![t] = created]
     /\ client' = [client EXCEPT ![t] =
          [state |-> "answered", key |-> None, request |-> asked, task |-> t]]
     /\ UNCHANGED <<registry, batch, faults>>

(* What becomes of tasks elsewhere: a stage is leased; a task is cancelled,*)
(* and a cancelled one is put back, with the stages it has.                *)
Leave(t, from, to) ==
  /\ task[t].status = from
  /\ task' = [task EXCEPT ![t].status = to]
  /\ UNCHANGED <<backend, pipeline, publisher, client, batch, faults>>

lease(t) == task[t].stages # << >> /\ Leave(t, "pending", "leased") /\ UNCHANGED updates
cancel(t) == Leave(t, "pending", "cancelled") /\ UNCHANGED updates
retry(t) == Leave(t, "cancelled", "pending") /\ Update

-----------------------------------------------------------------------------
(* The routing loop.                                                       *)
FirstOf(tasks) == SubSeq(tasks, 1, IF Len(tasks) < BatchSize THEN Len(tasks) ELSE BatchSize)

LoopRead_newest ==
  /\ batch = << >>
  /\ {t \in Tasks : Waiting(t)} # {}
  /\ batch' = FirstOf(Reverse(SetToSortSeq({t \in Tasks : Waiting(t)}, <)))
  /\ UNCHANGED <<registry, task, client, faults>>

LoopRead ==
  /\ batch = << >>
  /\ {t \in Tasks : Waiting(t)} # {}
  /\ batch' = FirstOf(SetToSortSeq({t \in Tasks : Waiting(t)}, <))
  /\ UNCHANGED <<registry, task, client, faults>>

LoopStep ==
  /\ batch # << >>
  /\ route(Head(batch))
  /\ batch' = Tail(batch)
  /\ UNCHANGED <<registry, client, faults>>

(* A failing database ends the pass; run goes on with the next one.        *)
LoopFails ==
  /\ batch # << >>
  /\ Fault
  /\ batch' = << >>
  /\ UNCHANGED <<registry, task, client>>

-----------------------------------------------------------------------------
Init ==
  /\ backend = [b \in Backends |-> "none"]
  /\ pipeline = [p \in Pipelines |-> [v \in Versions |-> NoVersion]]
  /\ task = [t \in Tasks |-> NoRow]
  /\ client = [t \in Tasks |-> NoRequest]
  /\ publisher = [x \in Publishers |-> NotPublishing]
  /\ batch = << >>
  /\ updates = 0
  /\ faults = 0

RegistryNext ==
  \/ \E b \in Backends : create_backend(b) \/ update_backend(b)
  \/ \E p \in Pipelines, definition \in Definitions : create_pipeline(p, definition)
  \/ \E x \in Publishers : \/ \E p \in Pipelines, v \in Versions : PublishBegin(x, p, v)
                           \/ PublishSelect(x) \/ PublishCommit(x) \/ PublishFails(x)
  \/ initialize_default_catalog

TaskNext ==
  \E t \in Tasks :
    \/ \E key \in Keys \cup {None}, request \in Requests : CreateBegin(t, key, request)
    \/ CreateCommit(t) \/ CreateAgain(t) \/ CreateFails(t)
    \/ \E p \in Pipelines, v \in Versions, request \in Requests :
         test_pipeline(t, p, v, request)
    \/ route_task(t) \/ lease(t) \/ cancel(t) \/ retry(t)

LoopNext == LoopRead \/ LoopStep \/ LoopFails

Next == RegistryNext \/ TaskNext \/ LoopNext

Spec == Init /\ [][Next]_vars

(* The loop runs as long as the service does.                              *)
FairSpec == Spec /\ WF_vars(LoopRead \/ LoopStep)

-----------------------------------------------------------------------------
TypeOK ==
  /\ backend \in [Backends -> {"none", "enabled", "disabled"}]
  /\ \A p \in Pipelines, v \in Versions :
       /\ pipeline[p][v].status \in {"none", "draft", "published", "disabled"}
       /\ pipeline[p][v].definition \in Definitions \cup {Default, None}
  /\ \A t \in Tasks :
       /\ task[t].status \in {"none", "pending", "leased", "cancelled"}
       /\ task[t].key \in Keys \cup {None}
       /\ client[t].state \in {"idle", "creating", "again", "answered", "conflict", "refused"}
       /\ client[t].task \in Tasks \cup {NoTask}
  /\ \A x \in Publishers : publisher[x].state \in {"idle", "locked", "selected"}
  /\ batch \in Seq(Tasks)
  /\ updates \in 0..MaxUpdates
  /\ faults \in 0..MaxFaults

(* Requests that bear the same key get one task between them, and only     *)
(* those that ask for the same; every answer names a task that exists and  *)
(* is what was asked for, however the requests overlap (create_task's      *)
(* IntegrityError path, the lookup before the insert).                     *)
AnswersAgree ==
  \A c \in Tasks : client[c].state = "answered" =>
    /\ client[c].task \in Tasks
    /\ task[client[c].task].status # "none"
    /\ task[client[c].task].request = client[c].request
    /\ client[c].key # None => Holders(client[c].key) = {client[c].task}

DagCheckExact ==
  \A graph \in GraphsOver(GraphNames) : validate_dag(graph) <=> Executable(graph)

(* Every version in the registry has stages that can be executed in some   *)
(* order, and validate_dag, on which that rests, refuses no graph that has *)
(* such an order: a cycle let through would leave the stages of a task     *)
(* waiting for each other for ever.                                        *)
GraphsAreExecutable ==
  /\ DagCheckExact
  /\ \A p \in Pipelines, v \in Versions : pipeline[p][v].status # "none" =>
       Executable(StageGraph(pipeline[p][v].definition))

(* A task is routed once: the loop with its list of a moment ago, the      *)
(* endpoint, and a retry all leave the stages that a task has alone, and   *)
(* only a pending task is given any.                                       *)
RoutedOnce ==
  [][\A t \in Tasks :
       /\ task[t].stages # << >> =>
            task'[t].stages = task[t].stages /\ task'[t].pipeline = task[t].pipeline
       /\ task[t].stages # task'[t].stages => task'[t].status = "pending"]_vars

(* A waiting task that could be routed is, by the loop if by nobody else,  *)
(* unless it is cancelled or the registry changes first. The clause about  *)
(* Crowded is what the code takes away: BatchSize older tasks that cannot  *)
(* be routed fill every pass of run_once, and younger ones are not looked  *)
(* at.                                                                     *)
Crowded(t) == Cardinality({u \in Tasks : u < t /\ Waiting(u)}) >= BatchSize

RoutableTasksAreRouted ==
  \A t \in Tasks :
    [](Waiting(t) /\ Routable(t) /\ ~Crowded(t)
         => <>(~Waiting(t) \/ ~Routable(t) \/ Crowded(t)))

(* Of a pipeline at most one version is published (publish).  With two     *)
(* requests to publish different drafts at the same time both may be.      *)
OnePublished ==
  \A p \in Pipelines : Cardinality(PublishedVersions(p)) <= 1
=============================================================================
