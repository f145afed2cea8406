------------------------------ MODULE MCServices ------------------------------
(***************************************************************************)
(* Four components that share no state with each other, for TLC: the       *)
(* management lists, the API keys, the execution of a stage by a worker    *)
(* and a parser service, and the models of a worker.  The steps of one do  *)
(* not depend on those of the others, so a behaviour takes the steps of    *)
(* one of them, chosen at the start, and the others rest.                  *)
(***************************************************************************)
EXTENDS ManagementLists, ApiKeys, StageExecution, BackendLifecycle

CONSTANTS m1, m2, u1

VARIABLE part    \* the component that takes the steps

servicesVars == <<part, listVars, keyVars, execVars, lifecycleVars>>

(* Stages with each kind of source, behind the gateway of this repository  *)
(* and behind another service; a text is not converted.                    *)
AllJobs ==
  {j \in [kind : {"text", "uploaded", "url", "object"}, legacy : BOOLEAN,
          gateway : BOOLEAN, authorized : BOOLEAN] :
     j.kind = "text" => ~j.legacy}

(* One batch that overlaps another, and one that cannot be loaded. *)
OverlappingBatches == {<<m1, m2>>, <<m2>>, <<m2, m1, u1>>}

KeySymmetry == Permutations(KeyIds) \cup Permutations(KeyWorkers)

(* A list that is empty and has been walked through. *)
ListAtRest ==
  /\ list = CHOOSE l \in Lists : TRUE
  /\ rows = <<>>
  /\ client = [phase |-> "done", query |-> CHOOSE q \in Queries(list) : TRUE,
               cursor |-> NoCursor, got |-> <<>>]
  /\ watch = [began |-> {}, changed |-> {}]
  /\ writes = 0

ServicesInit ==
  /\ part \in {"lists", "keys", "execution", "models"}
  /\ IF part = "lists" THEN ListInit ELSE ListAtRest
  /\ ExecInit /\ (part # "execution" => job = CHOOSE j \in Jobs : TRUE)
  /\ KeysInit /\ LifecycleInit

ServicesNext ==
  /\ UNCHANGED part
  /\ \/ /\ part = "lists" /\ ListNext
        /\ UNCHANGED <<keyVars, execVars, lifecycleVars>>
     \/ /\ part = "keys" /\ KeysNext
        /\ UNCHANGED <<listVars, execVars, lifecycleVars>>
     \/ /\ part = "execution" /\ ExecNext
        /\ UNCHANGED <<listVars, keyVars, lifecycleVars>>
     \/ /\ part = "models" /\ LifecycleNext
        /\ UNCHANGED <<listVars, keyVars, execVars>>

ServicesSpec == ServicesInit /\ [][ServicesNext]_servicesVars
=============================================================================
