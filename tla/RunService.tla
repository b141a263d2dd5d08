----------------------------- MODULE RunService -----------------------------
(***************************************************************************)
(* AgentService processes over the shared Run store: what start_run,       *)
(* resume_run and cancel_run do (agent/service/service.py), how the        *)
(* RuntimeExecutionLauncher drives one attempt from run_started to its     *)
(* terminal transition (runtime_launcher.py), and what the heartbeat and   *)
(* the timeout watchdog do beside it.                                      *)
(*                                                                         *)
(* A process is a writer.  worker[w][r] is the task that process w runs    *)
(* for Run r; each step of it is one store transaction, or the point where *)
(* one is refused.  Between two steps the other processes, and on an await *)
(* the other tasks of the same process, may move.                          *)
(***************************************************************************)
EXTENDS RunStore

CONSTANT Faults  \* which of "crash", "stall", "raise" may happen

ASSUME FaultsAssumption == Faults \subseteq {"crash", "stall", "raise"}

VARIABLES
  worker,  \* [pc, mode, token, revision] of each process for each Run
  alive    \* the processes that have not died

serviceVars == <<vars, worker, alive>>

(* Points of an attempt.  At an Awaiting point the launcher task is under   *)
(* _run_with_worker_lease and the event loop may run something else; from   *)
(* one Synchronous point to the next it may not.                            *)
Awaiting == {"opened", "prepared", "started", "running"}
Synchronous == {"resuming", "resumed", "appending", "deciding", "failing",
                "observing", "finalizing", "committing", "closing"}
Points == {"idle", "reserved"} \cup Awaiting \cup Synchronous

WorkerType == [pc: Points, mode: {"start", "resume"}, token: Nat, revision: Nat]
NoWorker   == [pc |-> "idle", mode |-> "start", token |-> 0, revision |-> 0]

ServiceTypeOK ==
  /\ TypeOK
  /\ worker \in [Writers -> [Runs -> WorkerType]]
  /\ alive \in SUBSET Writers

Token(w, r) == worker[w][r].token

(* Process w is free to run a step of its task for r.                       *)
Turn(w, r) ==
  /\ w \in alive
  /\ \A q \in Runs \ {r} : worker[w][q].pc \notin Synchronous
At(w, r, pc) == Turn(w, r) /\ worker[w][r].pc = pc

Become(w, r, state) ==
  /\ worker' = [worker EXCEPT ![w][r] = state]
  /\ UNCHANGED alive
Go(w, r, pc) == Become(w, r, [worker[w][r] EXCEPT !.pc = pc])
Stop(w, r)   == Become(w, r, NoWorker)

(* An exception while the outcome of an attempt is written: _execute lets   *)
(* it out, _resume_checkpoint tries to write FAILED_TERMINAL first.         *)
AfterRefusal(w, r) == IF worker[w][r].mode = "start" THEN "closing" ELSE "failing"
Refused(w, r) == Go(w, r, AfterRefusal(w, r)) /\ UNCHANGED vars

----------------------------------------------------------------------------
(* Admission: start_run, _run_start, create_run                             *)

(* start_run reserves before it builds a context.                           *)
StartRun(w, r, k) ==
  /\ At(w, r, "idle")
  /\ ReserveStart(k, r, w)
  /\ Become(w, r, [pc |-> "reserved", mode |-> "start", token |-> 1, revision |-> 0])

(* _acquire_or_reuse_fence                                                  *)
TakeFence(w, r, takeover) ==
  CASE head[r].writer = w        -> Reacquire(r, w, head[r].token)
    [] head[r].writer = NoWriter -> AcquireFence(r, w)
    [] OTHER                     -> takeover /\ TakeoverFence(r, w, head[r].token)

OpenContext(w, r) ==
  /\ At(w, r, "reserved")
  /\ TakeFence(w, r, FALSE)
  /\ Become(w, r, [worker[w][r] EXCEPT !.pc = "opened", !.token = head'[r].token])

(* create_run raises: the view lost a race, or the rest of the RunContext   *)
(* cannot be built once the view has its fence.  Nothing gives the fence    *)
(* back.                                                                    *)
OpenFails(w, r) ==
  /\ At(w, r, "reserved")
  /\ UNCHANGED vars \/ TakeFence(w, r, FALSE)
  /\ Stop(w, r)

(* RuntimeExecutionLauncher._execute up to the construction of the Runtime. *)
MayBegin(w, r) ==
  /\ head[r].status = "CREATED"
  /\ MayTransition(r, w, Token(w, r), "RUNNING", "run_started")
BeginRun(w, r) ==
  /\ At(w, r, "opened")
  /\ \/ /\ MayBegin(w, r)
        /\ Transition(r, w, Token(w, r), "RUNNING", "run_started")
        /\ Go(w, r, "started")
     \/ ~MayBegin(w, r) /\ Go(w, r, "closing") /\ UNCHANGED vars

----------------------------------------------------------------------------
(* resume_run and _resume_checkpoint up to the checkpoint execution         *)

ResumeRun(w, r) ==
  /\ At(w, r, "idle")
  /\ Exists(r)
  /\ head[r].status \notin {"CANCELLING"} \cup FinalStatuses
  /\ Become(w, r, [NoWorker EXCEPT !.pc = "resuming", !.mode = "resume"])
  /\ UNCHANGED vars

ResumeContext(w, r) ==
  /\ At(w, r, "resuming")
  /\ TakeFence(w, r, TRUE)
  /\ Become(w, r, [worker[w][r] EXCEPT !.pc = "resumed", !.token = head'[r].token])

ResumeFails(w, r) ==
  /\ At(w, r, "resuming")
  /\ UNCHANGED vars \/ TakeFence(w, r, TRUE)
  /\ Stop(w, r)

(* The resume request is reserved in the ledger.  A request already there   *)
(* is run again only while nothing has moved the head since.                *)
ClaimResume(w, r, k) ==
  /\ At(w, r, "resumed")
  /\ PrepareOperation(r, w, Token(w, r), head[r].revision, k, "resume")
  /\ Go(w, r, "prepared")
ReplayResume(w, r, k) ==
  /\ At(w, r, "resumed")
  /\ ledger[r][k].op # "none"
  /\ IF /\ Owns(r, w, Token(w, r))
        /\ ledger[r][k].op = "resume"
        /\ ledger[r][k].revision = head[r].revision
     THEN Go(w, r, "prepared")
     ELSE Go(w, r, "closing")
  /\ UNCHANGED vars
LoseResume(w, r) ==
  /\ At(w, r, "resumed")
  /\ ~Owns(r, w, Token(w, r))
  /\ Go(w, r, "closing")
  /\ UNCHANGED vars

(* run_resumed has the request in its event id: a request that wrote it     *)
(* once, at the revision it was prepared for, is refused as a conflict.     *)
Continued(r) ==
  \E i \in DOMAIN log[r] : log[r][i] = Event("run_resumed", head[r].revision)
MayContinue(w, r) ==
  /\ MayTransition(r, w, Token(w, r), "RUNNING", "run_resumed")
  /\ ~Continued(r)
BeginResumeAnyway(w, r) ==
  /\ At(w, r, "prepared")
  /\ \/ Transition(r, w, Token(w, r), "RUNNING", "run_resumed")
     \/ ~MayContinue(w, r) /\ UNCHANGED vars
  /\ Go(w, r, "started")
BeginResume(w, r) ==
  /\ At(w, r, "prepared")
  /\ \/ /\ MayContinue(w, r)
        /\ Transition(r, w, Token(w, r), "RUNNING", "run_resumed")
        /\ Go(w, r, "started")
     \/ ~MayContinue(w, r) /\ Go(w, r, "closing") /\ UNCHANGED vars

----------------------------------------------------------------------------
(* The attempt under way                                                    *)

(* The Runtime is built; a resume has found its index and its Workflows.    *)
SetUp(w, r) ==
  /\ At(w, r, "started")
  /\ worker[w][r].mode = "start" \/ index[r] # NoIndex
  /\ Go(w, r, "running")
  /\ UNCHANGED vars

(* ... or building it raises, outside every handler that writes an outcome. *)
SetUpRaises(w, r) ==
  /\ "raise" \in Faults
  /\ At(w, r, "started")
  /\ Go(w, r, "closing")
  /\ UNCHANGED vars

(* A resume ends BLOCKED without a RunResumeIndex, or when the registry     *)
(* lacks a Workflow that the index names.                                   *)
BlockResume(w, r) ==
  /\ At(w, r, "started")
  /\ worker[w][r].mode = "resume"
  /\ \/ Transition(r, w, Token(w, r), "BLOCKED", "run_blocked")
     \/ ~MayTransition(r, w, Token(w, r), "BLOCKED", "run_blocked") /\ UNCHANGED vars
  /\ Go(w, r, "closing")

(* Durable Workflow operations of execute_or_resume.  Only a started        *)
(* attempt reaches the tool that bootstraps the index.                      *)
WorkflowStep(w, r) ==
  /\ At(w, r, "running")
  /\ \/ /\ worker[w][r].mode = "start"
        /\ BootstrapIndex(r, w, Token(w, r), head[r].revision)
     \/ ActivateWorkflow(r, w, Token(w, r), index[r].revision)
     \/ /\ index[r].workflow = "RUNNING"
        /\ \E k \in Keys :
             PrepareOperation(r, w, Token(w, r), head[r].revision, k, "workflow")
     \/ \E k \in Keys, done \in BOOLEAN :
          FinalizeBundle(r, w, Token(w, r), head[r].revision, k, done)
  /\ UNCHANGED <<worker, alive>>

(* finalize_bundle raises: workflow_tool reports it to the Runtime and goes *)
(* on, a resumed attempt fails.                                             *)
CommitRefused(w, r) ==
  /\ At(w, r, "running")
  /\ worker[w][r].mode = "resume"
  /\ \E k \in Keys : ledger[r][k].op = "workflow" /\ ledger[r][k].state = "PREPARED"
  /\ head[r].status = "CANCELLING" \/ ~Owns(r, w, Token(w, r))
  /\ Go(w, r, "failing")
  /\ UNCHANGED vars

(* persist: the revision is read through head(), the event appended in a    *)
(* transaction of its own.                                                  *)
ReadRevisionAhead(w, r) ==
  /\ At(w, r, "running")
  /\ Cardinality(ProgressOf(r)) < MaxProgress
  /\ Become(w, r, [worker[w][r] EXCEPT !.pc = "appending", !.revision = head[r].revision + 1])
  /\ UNCHANGED vars
ReadRevision(w, r) ==
  /\ At(w, r, "running")
  /\ Owns(r, w, Token(w, r))
  /\ Cardinality(ProgressOf(r)) < MaxProgress
  /\ Become(w, r, [worker[w][r] EXCEPT !.pc = "appending", !.revision = head[r].revision])
  /\ UNCHANGED vars
PersistProgress(w, r) ==
  /\ At(w, r, "appending")
  /\ \/ AppendProgress(r, worker[w][r].revision)
     \/ ~CanAppend(r, "progress") /\ UNCHANGED vars
     \/ Cardinality(ProgressOf(r)) = MaxProgress /\ UNCHANGED vars
  /\ Become(w, r, [worker[w][r] EXCEPT !.pc = "running", !.revision = 0])

(* _run_with_worker_lease                                                   *)
Heartbeat(w, r) ==
  /\ Turn(w, r)
  /\ worker[w][r].pc \in Awaiting
  /\ RenewLease(r, w, Token(w, r))
  /\ UNCHANGED <<worker, alive>>

(* Renewal raises, for a lease that is gone or because the store is busy,   *)
(* and the launcher task is cancelled.  Only runtime.run has a handler for  *)
(* that; a resumed attempt re-raises CancelledError.                        *)
LoseLease(w, r) ==
  /\ Turn(w, r)
  /\ worker[w][r].pc \in Awaiting
  /\ ~MayRenew(r, w, Token(w, r)) \/ "raise" \in Faults
  /\ Go(w, r, IF worker[w][r].pc = "running" /\ worker[w][r].mode = "start"
              THEN "failing" ELSE "closing")
  /\ UNCHANGED vars

(* _run_timeout_watchdog                                                    *)
Watchdog(w, r) ==
  /\ At(w, r, "running")
  /\ RequestInterruption(r, "RUN_TIMEOUT")
  /\ UNCHANGED <<worker, alive>>

----------------------------------------------------------------------------
(* The end of an attempt                                                    *)

(* execute_or_resume returns and resume_decided is appended, head() and     *)
(* append_event as one step: ReadRevision shows what may come between the   *)
(* two.  MaxProgress bounds it with the progress events.                    *)
DecideResume(w, r) ==
  /\ At(w, r, "running")
  /\ worker[w][r].mode = "resume"
  /\ IF Owns(r, w, Token(w, r)) /\ CanAppend(r, "progress")
     THEN /\ \/ AppendProgress(r, head[r].revision)
             \/ Cardinality(ProgressOf(r)) = MaxProgress /\ UNCHANGED vars
          /\ Go(w, r, "deciding")
     ELSE Go(w, r, "failing") /\ UNCHANGED vars

(* The attempt is through, and _converge_interruption looks for a durable   *)
(* intent before an outcome is written.                                     *)
Through(w, r) ==
  \/ At(w, r, "running") /\ worker[w][r].mode = "start"
  \/ At(w, r, "deciding")
RuntimeReturnsUnchecked(w, r) ==
  Through(w, r) /\ Go(w, r, "committing") /\ UNCHANGED vars
RuntimeReturns(w, r) ==
  /\ Through(w, r)
  /\ Go(w, r, IF intent[r].phase = "NONE" THEN "committing" ELSE "observing")
  /\ UNCHANGED vars

(* A safe boundary raises RunInterruptionRequested.  UniversalAgent.run     *)
(* turns it into a return; on a resume nothing catches a BaseException.     *)
BoundaryRaises(w, r) ==
  /\ At(w, r, "running")
  /\ intent[r].phase # "NONE"
  /\ Go(w, r, IF worker[w][r].mode = "start" THEN "observing" ELSE "closing")
  /\ UNCHANGED vars

RuntimeRaises(w, r) ==
  /\ "raise" \in Faults
  /\ At(w, r, "running")
  /\ Go(w, r, "failing")
  /\ UNCHANGED vars

WriteFailure(w, r) ==
  /\ At(w, r, "failing")
  /\ \/ Transition(r, w, Token(w, r), "FAILED_TERMINAL", "run_failed")
     \/ ~MayTransition(r, w, Token(w, r), "FAILED_TERMINAL", "run_failed") /\ UNCHANGED vars
  /\ Go(w, r, "closing")

(* What _terminal_outcome can answer.                                       *)
Outcomes == {"COMPLETED", "FAILED_TERMINAL", "BLOCKED", "WAITING_USER"}
WriteOutcome(w, r) ==
  /\ At(w, r, "committing")
  /\ \E target \in Outcomes : \E type \in EventsFor(target) :
       \/ Transition(r, w, Token(w, r), target, type) /\ Go(w, r, "closing")
       \/ ~MayTransition(r, w, Token(w, r), target, type) /\ Refused(w, r)

(* mark_safe_to_interrupt: observe, unless somebody has, then finalize.     *)
Observe(w, r) ==
  /\ At(w, r, "observing")
  /\ \/ ObserveInterruption(r, w, Token(w, r)) /\ Go(w, r, "finalizing")
     \/ /\ intent[r].phase = "REQUESTED"
        /\ ~MayObserve(r, w, Token(w, r))
        /\ Refused(w, r)
     \/ /\ intent[r].phase \in {"OBSERVED", "FINALIZED"}
        /\ Go(w, r, IF intent[r].phase = "OBSERVED" THEN "finalizing" ELSE "closing")
        /\ UNCHANGED vars
Finalize(w, r) ==
  /\ At(w, r, "finalizing")
  /\ \/ FinalizeInterruption(r, w, Token(w, r)) /\ Go(w, r, "closing")
     \/ ~MayFinalize(r, w, Token(w, r)) /\ Refused(w, r)

(* release_run closes the view, which gives the fence back if it is still   *)
(* the view's own.                                                          *)
CloseWithoutRelease(w, r) ==
  At(w, r, "closing") /\ Stop(w, r) /\ UNCHANGED vars
CloseContext(w, r) ==
  /\ At(w, r, "closing")
  /\ \/ ReleaseFence(r, w, Token(w, r))
     \/ ~Owns(r, w, Token(w, r)) /\ UNCHANGED vars
  /\ Stop(w, r)

----------------------------------------------------------------------------
(* The environment                                                          *)

(* cancel_run, accepted by any process.                                     *)
CancelRun(w, r) ==
  /\ Turn(w, r)
  /\ worker[w][r].pc \notin Synchronous
  /\ RequestInterruption(r, "USER_CANCEL")
  /\ UNCHANGED <<worker, alive>>

(* A restarted process has a new writer id, so a dead writer stays dead.    *)
Crash(w) ==
  /\ "crash" \in Faults
  /\ w \in alive
  /\ alive' = alive \ {w}
  /\ worker' = [worker EXCEPT ![w] = [r \in Runs |-> NoWorker]]
  /\ UNCHANGED vars

(* Without stalls every heartbeat is in time.                               *)
Punctual ==
  \A w \in alive, r \in Runs :
    worker[w][r].pc # "idle" /\ MayRenew(r, w, Token(w, r)) => lease[r].ttl > 1
Time ==
  /\ "stall" \in Faults \/ Punctual
  /\ Tick
  /\ UNCHANGED <<worker, alive>>

----------------------------------------------------------------------------

ServiceInit ==
  /\ Init
  /\ worker = [w \in Writers |-> [r \in Runs |-> NoWorker]]
  /\ alive = Writers

AdmissionStep(w, r) ==
  \/ \E k \in Keys : StartRun(w, r, k)
  \/ OpenContext(w, r) \/ OpenFails(w, r) \/ BeginRun(w, r)
ResumeStep(w, r) ==
  \/ ResumeRun(w, r) \/ ResumeContext(w, r) \/ ResumeFails(w, r)
  \/ \E k \in Keys : ClaimResume(w, r, k) \/ ReplayResume(w, r, k)
  \/ LoseResume(w, r) \/ BeginResume(w, r)
AttemptStep(w, r) ==
  \/ SetUp(w, r) \/ SetUpRaises(w, r) \/ BlockResume(w, r)
  \/ WorkflowStep(w, r) \/ CommitRefused(w, r)
  \/ ReadRevision(w, r) \/ PersistProgress(w, r)
  \/ Heartbeat(w, r) \/ LoseLease(w, r)
EndStep(w, r) ==
  \/ DecideResume(w, r) \/ RuntimeReturns(w, r)
  \/ BoundaryRaises(w, r) \/ RuntimeRaises(w, r)
  \/ WriteFailure(w, r) \/ WriteOutcome(w, r)
  \/ Observe(w, r) \/ Finalize(w, r) \/ CloseContext(w, r)

ServiceNext ==
  \/ \E w \in Writers, r \in Runs :
       \/ AdmissionStep(w, r) \/ ResumeStep(w, r)
       \/ AttemptStep(w, r) \/ EndStep(w, r)
       \/ Watchdog(w, r) \/ CancelRun(w, r)
  \/ \E w \in Writers : Crash(w)
  \/ Time

ServiceSpec == ServiceInit /\ [][ServiceNext]_serviceVars

(* Processes keep stepping their tasks, a Runtime returns in the end (its   *)
(* budgets and provider timeouts bound it) and the clock runs.  Nothing     *)
(* obliges anybody to start, resume, cancel, time out or crash, and only a  *)
(* punctual process renews.                                                 *)
TaskStep(w, r) ==
  \/ OpenContext(w, r) \/ OpenFails(w, r) \/ BeginRun(w, r)
  \/ ResumeContext(w, r) \/ ResumeFails(w, r)
  \/ \E k \in Keys : ClaimResume(w, r, k) \/ ReplayResume(w, r, k)
  \/ LoseResume(w, r) \/ BeginResume(w, r)
  \/ SetUp(w, r) \/ BlockResume(w, r) \/ PersistProgress(w, r)
  \/ DecideResume(w, r) \/ RuntimeReturns(w, r)
  \/ WriteFailure(w, r) \/ WriteOutcome(w, r)
  \/ Observe(w, r) \/ Finalize(w, r) \/ CloseContext(w, r)
ServiceFairness ==
  \A w \in Writers, r \in Runs : WF_serviceVars(TaskStep(w, r))
FairServiceSpec == ServiceSpec /\ ServiceFairness

----------------------------------------------------------------------------
(* Properties that hold                                                     *)

(* Attempts of two processes at one Run never carry the same fence token,   *)
(* so that the fence decides between them: a start, a resume and a takeover *)
(* each get a token of their own.  (A process that comes back to a fence it *)
(* has never given back, after a context that could not be built, goes on   *)
(* with the token it had.)                                                  *)
OneWorkerPerFence ==
  \A r \in Runs, v, w \in Writers :
    v # w /\ worker[v][r].pc # "idle" /\ worker[w][r].pc # "idle" =>
      Token(v, r) # Token(w, r) \/ Token(v, r) = 0

(* The status resume_run and start_run check is long stale when the attempt *)
(* begins.  Still, whoever owns the fence never executes a Run that was     *)
(* decided or handed to the user in the meantime.                           *)
DecidedRunNotExecuted ==
  \A w \in Writers, r \in Runs :
    worker[w][r].pc \in {"started", "running"} /\ Owns(r, w, Token(w, r)) =>
      head[r].status \in {"RUNNING", "CANCELLING"}

(* A Run that is neither decided nor being cancelled can be picked up by    *)
(* every other process once its worker lease is out: no order of failures   *)
(* leaves a RUNNING head without lease evidence, which takeover_fence would *)
(* refuse for ever (ADR-0037).                                              *)
Recoverable ==
  \A r \in Runs :
    Exists(r) /\ head[r].status \notin {"CANCELLING"} \cup FinalStatuses
      /\ ~LeaseLive(r) /\ Rivals(r) = {} =>
        IF head[r].writer = NoWriter THEN MayAcquire(r)
                                     ELSE MayTakeOver(r, head[r].token)

(* "stale writer accepted 0" (ADR-0023 section 9) for the facts of a Run:   *)
(* an attempt whose fence is gone changes no head, lease, intent, index or  *)
(* ledger, and logs no more than progress, wherever it was when it lost the *)
(* fence.                                                                   *)
FencedFacts(r) == <<head[r], lease[r], intent[r], index[r], ledger[r]>>
StaleWorkerIsFenced ==
  [][\A w \in Writers, r \in Runs :
       (/\ worker[w][r].pc \notin {"idle", "reserved", "resuming"}
        /\ ~Owns(r, w, Token(w, r))
        /\ AttemptStep(w, r) \/ EndStep(w, r)) =>
            /\ UNCHANGED FencedFacts(r)
            /\ log'[r] # log[r] => log'[r][Len(log'[r])].type = "progress"]_serviceVars

(* Whatever the processes do, the store only takes the steps RunStore       *)
(* allows a client, so its invariants hold for the service.                 *)
ImplementsStore == Spec

(* A cancellation or a timeout that reaches a started attempt ends the Run  *)
(* as asked for: the Runtime returns, the launcher finds the intent and     *)
(* finalizes it (ADR-0023 section 6).  Only a Runtime that raises or a      *)
(* lease that runs out may prevent it.                                      *)
InterruptionConverges ==
  \A w \in Writers, r \in Runs :
    (/\ worker[w][r].pc = "running" /\ worker[w][r].mode = "start"
     /\ Owns(r, w, Token(w, r))
     /\ intent[r].phase = "REQUESTED")
      ~> \/ head[r].status = OutcomeOf(intent[r].reason)
         \/ worker[w][r].pc = "failing"
         \/ lease[r] # NoLease /\ ~LeaseLive(r)

(* An attempt that took a fence and began gives it back or loses it: no     *)
(* refusal on the way leaves a Run owned by an idle process.                *)
AttemptReleasesFence ==
  \A w \in Writers, r \in Runs, t \in 1..MaxToken :
    worker[w][r].pc \in Awaiting /\ Token(w, r) = t ~> ~Owns(r, w, t)

----------------------------------------------------------------------------
(* What the documents say and the code does only while no process stalls    *)

(* ADR-0021 section 2.2: "terminal states must not silently return to       *)
(* active", against the worker of a Run the reaper has failed.              *)
TerminalStaysTerminal ==
  [][\A r \in Runs : head[r].status \in FinalStatuses =>
       head'[r].status = head[r].status]_serviceVars

(* known-debt.md section 1: starting and resuming check for active Runs of  *)
(* the session inside the write transaction.  No two Runs of a session are  *)
(* under way, across starts, resumes of waiting Runs, crashes and reaping.  *)
UnderWay(r) == head[r].status \in {"CREATED", "RUNNING"} /\ CanAppend(r, "run_failed")
OneActiveRunPerSession ==
  \A q, r \in Runs :
    q # r /\ UnderWay(q) /\ UnderWay(r) => SessionOf[q] # SessionOf[r]

(* _converge_orphaned_run_tx "keeps a dead run from blocking the session    *)
(* forever": a Run that still looks active without a lease can be failed,   *)
(* so that the next admission is not refused because of it.                 *)
DeadRunNeverBlocks ==
  \A r \in Runs : Active(r) /\ ~LeaseLive(r) => CanAppend(r, "run_failed")

----------------------------------------------------------------------------
(* What the documents say and the code does not do                          *)

(* ADR-0023 section 9, "lost cancellation intent 0": a durable intent ends  *)
(* the Run of a punctual worker, whether its attempt has begun or not and   *)
(* whether it was started or resumed.                                       *)
InterruptionNotLost ==
  \A w \in Writers, r \in Runs :
    (/\ worker[w][r].pc \in {"opened", "running"}
     /\ Owns(r, w, Token(w, r))
     /\ intent[r].phase = "REQUESTED")
      ~> head[r].status \in {"CANCELLED", "TIMED_OUT"}
=============================================================================
