---------------------------- MODULE RunVocabulary ----------------------------
(***************************************************************************)
(* Run statuses and event types, and the tables that                        *)
(* transition_run_with_event and _append_event_tx decide by                 *)
(* (agent/runtime_store/sqlite.py).                                         *)
(***************************************************************************)

ActiveStatuses == {"CREATED", "RUNNING", "CANCELLING"}
FinalStatuses  == {"COMPLETED", "FAILED_TERMINAL", "CANCELLED", "TIMED_OUT"}
EndStatuses    == FinalStatuses \cup {"BLOCKED"}
Statuses       == {"ABSENT", "WAITING_USER"} \cup ActiveStatuses \cup EndStatuses

TerminalEvents == {"run_completed", "run_failed", "run_blocked",
                   "run_cancelled", "run_timed_out"}
EventTypes == TerminalEvents \cup
  {"run_created", "run_started", "run_resumed", "run_cancelling",
   "run_waiting_user", "progress", "workflow_activated",
   "checkpoint_committed", "workflow_completed"}

(* expected_event_for_status *)
EventsFor(status) ==
  CASE status = "RUNNING"         -> {"run_started", "run_resumed"}
    [] status = "CANCELLING"      -> {"run_cancelling"}
    [] status = "COMPLETED"       -> {"run_completed"}
    [] status = "FAILED_TERMINAL" -> {"run_failed"}
    [] status = "BLOCKED"         -> {"run_blocked"}
    [] status = "WAITING_USER"    -> {"run_waiting_user"}
    [] status = "CANCELLED"       -> {"run_cancelled"}
    [] status = "TIMED_OUT"       -> {"run_timed_out"}
    [] OTHER                      -> {}

(* allowed_targets.  SUSPENDED and FAILED_RECOVERABLE are left out: no      *)
(* caller of the store ever writes them.                                    *)
AllowedTargets(status) ==
  CASE status = "CREATED"      -> {"RUNNING", "CANCELLING"}
    [] status = "RUNNING"      -> {"RUNNING", "CANCELLING", "COMPLETED",
                                   "FAILED_TERMINAL", "BLOCKED", "WAITING_USER"}
    [] status = "WAITING_USER" -> {"RUNNING", "CANCELLING"}
    [] status = "CANCELLING"   -> {"CANCELLED", "TIMED_OUT"}
    [] status = "BLOCKED"      -> {"RUNNING", "BLOCKED"}
    [] status \in FinalStatuses -> {status}
    [] OTHER                   -> {}
=============================================================================
