----------------------------- MODULE TaskState -----------------------------
(***************************************************************************)
(* The states of a Task and of a Stage, and the transitions the control    *)
(* plane allows between them (parser_serve/domain/task_state.py).  A Task  *)
(* is one document to parse; its Stages are the steps of the pipeline that *)
(* was selected for it.                                                    *)
(***************************************************************************)

TaskStatuses == {"pending", "leased", "running",
                 "succeeded", "failed", "cancelled"}

StageStatuses == TaskStatuses \cup {"skipped"}

TASK_TRANSITIONS ==
  [s \in TaskStatuses |->
     CASE s = "pending"   -> {"leased", "cancelled"}
       [] s = "leased"    -> {"pending", "running", "succeeded",
                              "failed", "cancelled"}
       [] s = "running"   -> {"succeeded", "failed", "cancelled"}
       [] s = "succeeded" -> {}
       [] s = "failed"    -> {"pending"}
       [] s = "cancelled" -> {"pending"}]

STAGE_TRANSITIONS ==
  [s \in StageStatuses |->
     CASE s = "pending"   -> {"leased", "cancelled", "skipped"}
       [] s = "leased"    -> {"pending", "running", "failed", "cancelled"}
       [] s = "running"   -> {"succeeded", "failed", "cancelled"}
       [] s = "succeeded" -> {}
       [] s = "failed"    -> {"pending", "skipped"}
       [] s = "cancelled" -> {"pending"}
       [] s = "skipped"   -> {}]

can_transition_task(current, target) == target \in TASK_TRANSITIONS[current]

can_transition_stage(current, target) == target \in STAGE_TRANSITIONS[current]

(* The groups of states the handlers test for. *)
ActiveStatuses      == {"leased", "running"}
OpenStatuses        == {"pending", "leased", "running"}
DoneStatuses        == {"succeeded", "skipped"}
TaskTerminalStatuses == {"succeeded", "failed", "cancelled"}
=============================================================================
