--------------------------- MODULE RunController ---------------------------
(***************************************************************************)
(* The desktop client of one Run (apps/desktop, RunController over          *)
(* LocalAgentServiceClient, TauriSidecarTransport and the Python sidecar):  *)
(* polling, starting and cancelling overlap at every await, snapshots and   *)
(* events come from different reads of the store, a call may fail or its    *)
(* answer be lost, and the sidecar process may exit.                        *)
(*                                                                         *)
(* The service side is RunLog, projected by run_projector.py.  A request    *)
(* is answered in one step, since the sidecar serves one at a time; the     *)
(* answer is used in a later one.  An event is its sequence number, which   *)
(* stands for its event_id too.                                             *)
(***************************************************************************)
EXTENDS EventStream

CONSTANTS
  EventLimit,  \* events of one read_events answer (100 in the dispatcher)
  MaxFailures  \* bound on the calls that fail, or answer short, on their own

ASSUME ControllerAssumption == EventLimit \in Nat \ {0} /\ MaxFailures \in Nat

VARIABLES
  audience,   \* who reads the Run in this behaviour: a stream or a desktop
  view,       \* runs.get(runId): its status and events; unknown before start
  cursor,     \* cursors.get(runId): lastSequence and eventIds
  polling,    \* whether pollTimers has a timer for the Run
  operation,  \* operationState
  handler,    \* the locals of refreshRun ("poll") and startRun/cancelRun ("op")
  sidecar,    \* whether the transport has a live process
  failures    \* calls that failed or answered short so far

desktopVars == <<view, cursor, polling, operation, handler, sidecar, failures>>
vars == <<logVars, streamVars, audience, desktopVars>>

Handlers == {"poll", "op"}
ViewStatuses == {"unknown", "pending", "active", "cancelling", "blocked",
                 "failed", "completed", "cancelled", "timed_out"}
Idle == [pc |-> "idle", base |-> {}, after |-> 0, status |-> "unknown", got |-> {}]

DesktopTypeOK ==
  /\ view \in [status: ViewStatuses, shown: SUBSET (1..MaxEvents)]
  /\ cursor \in [last: 0..MaxEvents, seen: SUBSET (1..MaxEvents)]
  /\ polling \in BOOLEAN
  /\ operation \in {"idle", "starting", "cancelling"}
  /\ handler \in [Handlers ->
       [pc: {"idle", "started", "asking", "snapped", "reading", "read"},
        base: SUBSET (1..MaxEvents), after: 0..MaxEvents,
        status: ViewStatuses, got: SUBSET (1..MaxEvents)]]
  /\ sidecar \in {"up", "gone"}
  /\ failures \in 0..MaxFailures

----------------------------------------------------------------------------
(* RunProjector.project: what get_run answers.                              *)
PublicStatus ==
  IF \/ TerminalSequence # 0
     \/ status \in EndStatuses \cup {"CANCELLING"} THEN status
  ELSE IF work = "RUNNING" THEN "RUNNING"
  ELSE IF work = "COMPLETED" THEN "COMPLETED"
  ELSE status

(* RUN_STATUS_MAP and isLiveStatus.                                         *)
ViewStatus(s) ==
  CASE s = "CREATED"    -> "pending"
    [] s = "RUNNING"    -> "active"
    [] s = "CANCELLING" -> "cancelling"
    [] s \in {"WAITING_USER", "BLOCKED"} -> "blocked"
    [] s = "FAILED_TERMINAL" -> "failed"
    [] s = "COMPLETED"  -> "completed"
    [] s = "CANCELLED"  -> "cancelled"
    [] s = "TIMED_OUT"  -> "timed_out"
    [] OTHER            -> "unknown"
LiveUnlessCancelling(s) == s \in {"pending", "active"}
Live(s) == s \in {"pending", "active", "cancelling"}

(* The dispatcher's read_events collects what the stream yields until its   *)
(* limit, a terminal event or nothing new.                                  *)
Answer(after) ==
  {i \in DOMAIN events :
     /\ i > after /\ i <= after + EventLimit
     /\ \A j \in after + 1..i - 1 : events[j] \notin TerminalEvents}

----------------------------------------------------------------------------
Set(h, record) == handler' = [handler EXCEPT ![h] = record]

(* setInterval: refreshRun unless one is in flight.                         *)
PollTick ==
  /\ polling
  /\ handler["poll"].pc = "idle"
  /\ Set("poll", [Idle EXCEPT !.pc = "asking", !.base = view.shown])
  /\ UNCHANGED <<view, cursor, polling, operation, sidecar, failures>>

(* startRun; the view of a Run is only known once it has been hydrated.     *)
StartRun ==
  /\ operation = "idle"
  /\ status = "ABSENT"
  /\ operation' = "starting"
  /\ Set("op", [Idle EXCEPT !.pc = "started"])
  /\ UNCHANGED <<view, cursor, polling, sidecar, failures>>
ServeStart ==
  /\ handler["op"].pc = "started"
  /\ sidecar = "up"
  /\ Admit
  /\ Set("op", [handler["op"] EXCEPT !.pc = "asking"])
  /\ UNCHANGED <<view, cursor, polling, operation, sidecar, failures>>

CancelRun ==
  /\ operation = "idle"
  /\ view.status = "active"
  /\ operation' = "cancelling"
  /\ Set("op", [Idle EXCEPT !.pc = "asking", !.base = view.shown])
  /\ UNCHANGED <<view, cursor, polling, sidecar, failures>>

(* The snapshot of a Run, read before its events.                           *)
Snapped(h) ==
  Set(h, [handler[h] EXCEPT !.pc = "snapped", !.status = ViewStatus(PublicStatus')])

Cancelling(h) == h = "op" /\ operation = "cancelling"

ServeSnapshot(h) ==
  /\ handler[h].pc = "asking" /\ ~Cancelling(h)
  /\ sidecar = "up" /\ UNCHANGED logVars
  /\ Snapped(h)
  /\ UNCHANGED <<view, cursor, polling, operation, sidecar, failures>>

(* cancel_run answers with a snapshot once the intent is durable; a repeat  *)
(* of a durable request changes nothing.                                    *)
ServeCancel ==
  /\ handler["op"].pc = "asking" /\ Cancelling("op")
  /\ sidecar = "up"
  /\ Interrupt \/ (status = "CANCELLING" /\ UNCHANGED logVars)
  /\ Snapped("op")
  /\ UNCHANGED <<view, cursor, polling, operation, sidecar, failures>>

(* applySnapshot and hydrateRun ask for what follows the cursor of now,     *)
(* hydrateRun from the start, ...                                           *)
Hydrating(h) == h = "op" /\ operation = "starting"
AskEvents(h) ==
  /\ handler[h].pc = "snapped"
  /\ Set(h, [handler[h] EXCEPT
       !.pc = "reading", !.after = IF Hydrating(h) THEN 0 ELSE cursor.last])
  /\ UNCHANGED <<view, cursor, polling, operation, sidecar, failures>>
AnswerWith(h, got) ==
  /\ handler[h].pc = "reading"
  /\ sidecar = "up"
  /\ ~Expired(handler[h].after)
  /\ Set(h, [handler[h] EXCEPT !.pc = "read", !.got = got])
  /\ UNCHANGED <<view, cursor, polling, operation, sidecar>>
ServeEvents(h) == AnswerWith(h, Answer(handler[h].after)) /\ UNCHANGED failures

(* It waits for each event a short time only: one that takes longer ends    *)
(* the answer before it.                                                    *)
ServeShort(h) ==
  /\ \E late \in Answer(handler[h].after) :
       AnswerWith(h, {i \in Answer(handler[h].after) : i < late})
  /\ failures < MaxFailures /\ failures' = failures + 1

(* ... and merge the answer into the view they started from.                *)
LatestKnown(after, got) == Len(events)
Latest(after, got) == IF got = {} THEN after ELSE LatestOf(got)
Unseen(h) == IF Hydrating(h) THEN handler[h].got ELSE handler[h].got \ cursor.seen
Released(h) == IF h = "op" THEN "idle" ELSE operation
Apply(h) ==
  LET answer == handler[h]
  IN  /\ answer.pc = "read"
      /\ view' = [status |-> answer.status, shown |-> answer.base \cup Unseen(h)]
      /\ cursor' = [last |-> Latest(answer.after, answer.got),
                    seen |-> IF Hydrating(h) THEN answer.got
                             ELSE cursor.seen \cup answer.got]
      /\ polling' = Live(answer.status)
      /\ operation' = Released(h)
      /\ Set(h, Idle)
      /\ UNCHANGED <<sidecar, failures>>

(* An error answer: the Run cannot be cancelled (any more), or the cursor   *)
(* has expired.  A call may also time out, its work done or not, and every  *)
(* call fails once the sidecar has exited.  The catch of a handler leaves   *)
(* view and cursor alone.                                                   *)
Refused(h) ==
  \/ /\ handler[h].pc = "asking" /\ Cancelling(h)
     /\ status # "CANCELLING" /\ ~Interruptible
  \/ handler[h].pc = "reading" /\ Expired(handler[h].after)
Stop(h) ==
  /\ handler[h].pc # "idle"
  /\ Set(h, Idle)
  /\ operation' = Released(h)
  /\ UNCHANGED <<view, cursor, polling, sidecar>>
Reject(h) == Stop(h) /\ (Refused(h) \/ sidecar = "gone") /\ UNCHANGED failures
TimeOut(h) == Stop(h) /\ failures < MaxFailures /\ failures' = failures + 1

(* handleExit: every pending call is rejected, and the transport never      *)
(* spawns a sidecar again.                                                  *)
SidecarExit ==
  /\ sidecar = "up"
  /\ sidecar' = "gone"
  /\ operation' = "idle"
  /\ handler' = [h \in Handlers |-> Idle]
  /\ UNCHANGED <<view, cursor, polling, failures>>

----------------------------------------------------------------------------
HandlerStep(h) ==
  \/ ServeSnapshot(h)
  \/ UNCHANGED logVars /\ (AskEvents(h) \/ ServeEvents(h) \/ Apply(h) \/ Reject(h))

DesktopNext ==
  \/ UNCHANGED logVars /\ (PollTick \/ StartRun \/ CancelRun \/ SidecarExit)
  \/ ServeStart
  \/ ServeCancel
  \/ \E h \in Handlers : HandlerStep(h) \/ (UNCHANGED logVars /\ (TimeOut(h) \/ ServeShort(h)))

DesktopInit ==
  /\ view = [status |-> "unknown", shown |-> {}]
  /\ cursor = [last |-> 0, seen |-> {}]
  /\ polling = FALSE
  /\ operation = "idle"
  /\ handler = [h \in Handlers |-> Idle]
  /\ sidecar = "up"
  /\ failures = 0

Init ==
  /\ LogInit /\ StreamInit /\ DesktopInit
  /\ audience \in {"stream", "desktop"}

(* The Run goes on whoever reads it.  A desktop's Run is admitted by its    *)
(* startRun and runs in the sidecar.                                        *)
Next ==
  /\ UNCHANGED audience
  /\ \/ /\ LogNext
        /\ audience = "desktop" => status # "ABSENT" /\ sidecar = "up"
        /\ UNCHANGED <<streamVars, desktopVars>>
     \/ /\ audience = "stream"
        /\ StreamNext
        /\ UNCHANGED <<logVars, desktopVars>>
     \/ /\ audience = "desktop"
        /\ sidecar = "up"
        /\ \E n \in 1..MaxFloor : RaiseFloor(n)
        /\ UNCHANGED <<logVars, desktopVars>>
     \/ /\ audience = "desktop"
        /\ DesktopNext
        /\ UNCHANGED streamVars

Spec == Init /\ [][Next]_vars

(* A consumer that asks on is served; the event loop fires timers, runs the *)
(* continuation of an answer and serves a request of a live sidecar.        *)
Unread(A) == A /\ UNCHANGED <<logVars, audience>>
Fairness ==
  /\ WF_vars(Unread(ReaderStep) /\ UNCHANGED desktopVars)
  /\ WF_vars(Unread(PollTick) /\ UNCHANGED streamVars)
  /\ \A h \in Handlers :
       WF_vars(HandlerStep(h) /\ UNCHANGED <<streamVars, audience>>)
FairSpec == Spec /\ Fairness

----------------------------------------------------------------------------
(* Properties *)

(* The types of the log, the stream and the desktop's state.                *)
TypeOK == LogTypeOK /\ StreamTypeOK /\ DesktopTypeOK

(* The cursor of the desktop never passes an event it has not received,     *)
(* whatever polls and operations overlap, so every event is asked for       *)
(* (ADR-0025 section 6).                                                    *)
CursorNeverSkips == 1..cursor.last \subseteq cursor.seen

(* A Run that the desktop shows as under way and whose outcome is final     *)
(* comes to be shown as ended, although a slower handler may put an older   *)
(* snapshot over a newer one: unless the head is moved off its end again,   *)
(* the sidecar exits or the cursor expires.                                 *)
ShownUnderWay == view.status \in {"pending", "active", "cancelling"}
DecidedStatusShown ==
  (Decided /\ ShownUnderWay) ~>
    \/ ~ShownUnderWay
    \/ status \notin EndStatuses
    \/ sidecar = "gone"
    \/ Expired(cursor.last)
=============================================================================
