--------------------------- MODULE BackendLifecycle ---------------------------
(***************************************************************************)
(* The models that a worker keeps in memory: BackendRegistry                *)
(* (parser_serve/backends/base.py), preload and unload_all.                *)
(*                                                                         *)
(* The two operations run one at a time under the lifecycle lock, but each *)
(* awaits the load or the unload of one model after the other, and the     *)
(* task that awaits may be cancelled at every such point.  A preload that  *)
(* does not succeed takes its batch back in a task of its own: the first   *)
(* cancellation then reaches the shield, the next one that task.           *)
(***************************************************************************)
EXTENDS Naturals, Sequences, SequencesExt

CONSTANTS
  Loaders,     \* the tasks that call the registry
  Models,      \* the backends with a lifecycle
  Unmanaged,   \* targets that are not installed or have no lifecycle
  Batches,     \* the targets of a preload: sequences of the two
  NoLoader,
  MaxCalls     \* bound: calls of one task

ASSUME BatchesAssumption ==
  /\ Models \cap Unmanaged = {} /\ NoLoader \notin Loaders
  /\ Batches \subseteq Seq(Models \cup Unmanaged)

VARIABLES
  lock,        \* the holder of _lifecycle_lock
  listed,      \* _loaded: the models loaded by preload, in order
  memory,      \* the models that are in memory
  stuck,       \* the models whose last unload has raised
  call         \* the call of each task

lifecycleVars == <<lock, listed, memory, stuck, call>>

(* todo: what is left of the batch, or of the models to unload; batch: the *)
(* models loaded by this call; before: _loaded when it took the lock;      *)
(* cuts: the cancellations that have reached its rollback.                 *)
NoCall == [phase |-> "idle", todo |-> <<>>, batch |-> <<>>, before |-> <<>>,
           cuts |-> 0, made |-> 0]

Holds(c, phase) == lock = c /\ call[c].phase = phase

(* _loaded.remove: the first one that is equal. *)
Loses(s, m) == RemoveFirst(s, m)

(* The call is over and the lock free. *)
Leaves(c) ==
  /\ lock' = NoLoader
  /\ call' = [call EXCEPT ![c] = [NoCall EXCEPT !.made = @ + call[c].made + 1]]

-----------------------------------------------------------------------------
(* preload *)

Preload(c) ==
  /\ lock = NoLoader /\ call[c].phase = "idle" /\ call[c].made < MaxCalls
  /\ lock' = c
  /\ \E targets \in Batches :
       call' = [call EXCEPT ![c].phase = "loading", ![c].todo = targets,
                            ![c].before = listed]
  /\ UNCHANGED <<listed, memory, stuck>>

Skip(c) == call' = [call EXCEPT ![c].todo = Tail(@)]

TakeBack(c) == call' = [call EXCEPT ![c].phase = "rolling_back"]

(* The next target: loaded already, loaded now, or the end of the batch by *)
(* an exception, of the registry, of load, or of a cancellation.           *)
Load(c) ==
  /\ Holds(c, "loading") /\ call[c].todo # <<>>
  /\ LET target == Head(call[c].todo) IN
       \/ /\ target \in ToSet(listed)
          /\ Skip(c) /\ UNCHANGED <<listed, memory, stuck>>
       \/ /\ target \in Models \ ToSet(listed)
          /\ listed' = Append(listed, target)
          /\ memory' = memory \cup {target} /\ stuck' = stuck \ {target}
          /\ call' = [call EXCEPT ![c].todo = Tail(@),
                                  ![c].batch = Append(@, target)]
       \/ /\ target \notin ToSet(listed)
          /\ TakeBack(c) /\ UNCHANGED <<listed, memory, stuck>>
  /\ UNCHANGED lock

Preloaded(c) ==
  /\ Holds(c, "loading") /\ call[c].todo = <<>>
  /\ Leaves(c)
  /\ UNCHANGED <<listed, memory, stuck>>

(* rollback: the models of the batch in reverse order.  What unload raises *)
(* is suppressed and the model no longer listed.                           *)
UnloadOfBatch(c) ==
  /\ Holds(c, "rolling_back") /\ call[c].batch # <<>>
  /\ LET model == Last(call[c].batch) IN
       /\ listed' = Loses(listed, model)
       /\ \/ memory' = memory \ {model} /\ UNCHANGED stuck
          \/ stuck' = stuck \cup {model} /\ UNCHANGED memory
       /\ call' = [call EXCEPT ![c].batch = Front(@)]
  /\ UNCHANGED lock

(* The shield keeps the first cancellation from the rollback. *)
Cut_unshielded(c) ==
  /\ Holds(c, "rolling_back") /\ call[c].batch # <<>> /\ call[c].cuts = 0
  /\ call' = [call EXCEPT ![c].cuts = 1, ![c].phase = "raising"]
  /\ UNCHANGED <<lock, listed, memory, stuck>>

Cut(c) ==
  /\ Holds(c, "rolling_back") /\ call[c].batch # <<>> /\ call[c].cuts = 0
  /\ call' = [call EXCEPT ![c].cuts = 1]
  /\ UNCHANGED <<lock, listed, memory, stuck>>

(* After it the rollback is awaited itself and is cancelled with the task, *)
(* during the unload of a model, which may or may not have happened.       *)
CutAgain(c) ==
  /\ Holds(c, "rolling_back") /\ call[c].batch # <<>> /\ call[c].cuts = 1
  /\ call' = [call EXCEPT ![c].cuts = 2, ![c].phase = "raising"]
  /\ memory' \in {memory, memory \ {Last(call[c].batch)}}
  /\ UNCHANGED <<lock, listed, stuck>>

RolledBack(c) ==
  /\ Holds(c, "rolling_back") /\ call[c].batch = <<>>
  /\ call' = [call EXCEPT ![c].phase = "raising"]
  /\ UNCHANGED <<lock, listed, memory, stuck>>

Raise(c) ==
  /\ Holds(c, "raising") /\ Leaves(c)
  /\ UNCHANGED <<listed, memory, stuck>>

-----------------------------------------------------------------------------
(* unload_all *)

UnloadAll(c) ==
  /\ lock = NoLoader /\ call[c].phase = "idle" /\ call[c].made < MaxCalls
  /\ lock' = c
  /\ call' = [call EXCEPT ![c].phase = "unloading",
                          ![c].todo = Reverse(listed)]
  /\ UNCHANGED <<listed, memory, stuck>>

(* A model whose unload raises stays listed, and the next one follows. *)
Unload(c) ==
  /\ Holds(c, "unloading") /\ call[c].todo # <<>>
  /\ LET model == Head(call[c].todo) IN
       \/ /\ listed' = Loses(listed, model) /\ memory' = memory \ {model}
          /\ UNCHANGED stuck
       \/ /\ stuck' = stuck \cup {model}
          /\ UNCHANGED <<listed, memory>>
  /\ Skip(c)
  /\ UNCHANGED lock

(* A cancellation is no Exception: the models that are left stay. *)
UnloadCancelled(c) ==
  /\ Holds(c, "unloading") /\ call[c].todo # <<>>
  /\ memory' \in {memory, memory \ {Head(call[c].todo)}}
  /\ Leaves(c)
  /\ UNCHANGED <<listed, stuck>>

Unloaded(c) ==
  /\ Holds(c, "unloading") /\ call[c].todo = <<>>
  /\ Leaves(c)
  /\ UNCHANGED <<listed, memory, stuck>>

LifecycleInit ==
  /\ lock = NoLoader /\ listed = <<>> /\ memory = {} /\ stuck = {}
  /\ call = [c \in Loaders |-> NoCall]

LifecycleNext ==
  \E c \in Loaders :
    \/ Preload(c) \/ Load(c) \/ Preloaded(c)
    \/ UnloadOfBatch(c) \/ Cut(c) \/ CutAgain(c) \/ RolledBack(c) \/ Raise(c)
    \/ UnloadAll(c) \/ Unload(c) \/ UnloadCancelled(c) \/ Unloaded(c)

LifecycleSpec == LifecycleInit /\ [][LifecycleNext]_lifecycleVars

-----------------------------------------------------------------------------
(* What a worker must be able to free when it stops: no model is in memory *)
(* that unload_all would not find, unless its own unload has raised; and a *)
(* preload that fails leaves the list as it found it, also when its task   *)
(* is cancelled during the rollback.                                       *)
ModelsCanBeFreed ==
  /\ memory \subseteq ToSet(listed) \cup stuck
  /\ IsInjective(listed)
  /\ \A c \in Loaders :
       call[c].phase = "raising" /\ call[c].cuts < 2 => listed = call[c].before
=============================================================================
