------------------------------- MODULE RunLog -------------------------------
(***************************************************************************)
(* One Run as its readers see it: a status, the state of its newest        *)
(* Workflow and an append-only event log.  RunStore implements it for      *)
(* every Run (fences, leases, intents and the ledger are hidden), and      *)
(* EventStream and RunController read what it writes.                      *)
(***************************************************************************)
EXTENDS RunVocabulary, Naturals, Sequences, FiniteSets

CONSTANTS
  MaxEvents,   \* bound on the length of an event log
  MaxProgress  \* bound on the progress events in it

ASSUME LogAssumption == MaxEvents \in Nat \ {0} /\ MaxProgress \in Nat

VARIABLES
  status,  \* run_heads.run_status
  work,    \* newest RunResumeIndex row: the state of its Workflow
  events   \* run_events, in sequence order

logVars == <<status, work, events>>

WorkStates == {"NONE", "PENDING", "RUNNING", "COMPLETED"}

LogTypeOK ==
  /\ status \in Statuses
  /\ work \in WorkStates
  /\ events \in Seq(EventTypes)

(* _append_event_tx: nothing follows a terminal event, except run_resumed   *)
(* after run_blocked.                                                       *)
Appendable(type) ==
  LET last == events[Len(events)]
  IN  \/ events = <<>>
      \/ last \notin TerminalEvents
      \/ last = "run_blocked" /\ type = "run_resumed"

Write(types) ==
  /\ Len(events) + Len(types) <= MaxEvents
  /\ events' = events \o types

----------------------------------------------------------------------------
LogInit == status = "ABSENT" /\ work = "NONE" /\ events = <<>>

(* A Run is admitted with its first event.                                  *)
Admit ==
  /\ status = "ABSENT"
  /\ status' = "CREATED"
  /\ Write(<<"run_created">>)
  /\ UNCHANGED work

(* The owner moves the Run along and says so.                               *)
Publish(target, type) ==
  /\ target \notin {"CANCELLING", "CANCELLED", "TIMED_OUT"}
  /\ Appendable(type)
  /\ status' = target
  /\ Write(<<type>>)
  /\ UNCHANGED work

(* The control plane asks for an end, ...                                   *)
Interruptible ==
  /\ status \notin {"ABSENT", "CANCELLING"} \cup EndStatuses
  /\ Appendable("run_cancelling")
Interrupt ==
  /\ Interruptible
  /\ status' = "CANCELLING"
  /\ Write(<<"run_cancelling">>)
  /\ UNCHANGED work

(* ... and the owner grants it.                                             *)
Settle(outcome) ==
  /\ status = "CANCELLING"
  /\ Appendable("run_cancelled")
  /\ status' = outcome
  /\ \E type \in EventsFor(outcome) : Write(<<type>>)
  /\ UNCHANGED work

(* Nobody owns the Run any more.                                            *)
Reap ==
  /\ status \in ActiveStatuses
  /\ Appendable("run_failed")
  /\ status' = "FAILED_TERMINAL"
  /\ Write(<<"run_failed">>)
  /\ UNCHANGED work

Report ==
  /\ status # "ABSENT"
  /\ Appendable("progress")
  /\ Cardinality({i \in DOMAIN events : events[i] = "progress"}) < MaxProgress
  /\ Write(<<"progress">>)
  /\ UNCHANGED <<status, work>>

----------------------------------------------------------------------------
(* The Workflow side of the Run: none of it moves an interrupted Run.       *)
Interrupted == status \in {"CANCELLING", "CANCELLED", "TIMED_OUT"}

Bootstrap ==
  /\ work = "NONE"
  /\ status # "ABSENT" /\ ~Interrupted
  /\ work' = "PENDING"
  /\ status' = "RUNNING"
  /\ UNCHANGED events

Activate ==
  /\ work = "PENDING" /\ ~Interrupted
  /\ Appendable("workflow_activated")
  /\ work' = "RUNNING"
  /\ status' = "RUNNING"
  /\ Write(<<"workflow_activated">>)

Commit(done) ==
  /\ work = "RUNNING" /\ ~Interrupted
  /\ Appendable("checkpoint_committed")
  /\ work' = IF done THEN "COMPLETED" ELSE "RUNNING"
  /\ status' = "RUNNING"
  /\ Write(<<"checkpoint_committed">>
           \o (IF done THEN <<"workflow_completed">> ELSE <<>>))

LogNext ==
  \/ Admit
  \/ \E target \in AllowedTargets(status) : \E type \in EventsFor(target) :
       Publish(target, type)
  \/ Interrupt
  \/ \E outcome \in {"CANCELLED", "TIMED_OUT"} : Settle(outcome)
  \/ Reap
  \/ Report
  \/ Bootstrap
  \/ Activate
  \/ \E done \in BOOLEAN : Commit(done)

LogSpec == LogInit /\ [][LogNext]_logVars
=============================================================================
