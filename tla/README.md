# TSAgent: a TLA+ model of durable Runs

TSAgent executes *Runs*: a request of a user that an agent Runtime carries out
with a language model, Workflows and tools.  A Run lives in a SQLite file that
several `AgentService` processes share, so that it can be cancelled, timed out,
resumed after a crash and taken over by another process; a desktop client
follows it through a sidecar process.  This directory holds TLA+ modules of that
system, TLC configurations that check them on small instances, and proofs,
checked by TLAPS, of what holds for every instance.

Paths are relative to the repository (`agent/...` is `src/agent/...`);
`PROJECT.json` gives the exact lines of the code each definition stands for.

## 1. Inventory

| Component | State it keeps | Operations | What is hard | What makes it correct | Module |
| --- | --- | --- | --- | --- | --- |
| Durable run store `agent/runtime_store/` | heads (status, revision, writer, fence token), worker leases, interruption intents, Workflow indexes, operation ledger, event log | one `BEGIN IMMEDIATE` transaction per operation: reserve, acquire / renew / take over / release a fence, transition, request / advance / finalize an interruption, prepare, bootstrap, activate, finalize, append | transactions of several processes in any order; leases expiring in between; retries | one live owner per Run and per session; write-once outcomes; no effect behind an interruption; status, intent and log agree | RunStore, RunLog, RunOutcome |
| Agent service and launcher `agent/service/service.py`, `runtime_launcher.py` | the tasks of one process, the progress of one attempt | `start_run`, `resume_run`, `cancel_run`, heartbeat, watchdog, progress events, terminal transition, `close` | checks made before the transactions they are meant for; cancellation racing the end; exceptions at every await | an attempt owns its fence or changes nothing, and gives it back; an accepted interruption ends the Run as asked | RunService |
| Interruption `agent/interruption/` | the intent (in the store), a view in memory | request, observe, finalize, raise at a safe boundary, interrupt a call | `RunInterruptionRequested` is a `BaseException` | no intent is lost, an interrupted attempt starts nothing more | RunStore, RunService, AgentLoop, ProviderRouter |
| Run resume `agent/run_resume/` | the RunResumeIndex and pending operations (in the store) | resolve a request, activate, prepare, execute, finalize | a crash between effect and commit; revisions that moved | durable facts are settled ones; an effect comes under an intent | ResumeDecision, WorkflowRecovery |
| Checkpoints `agent/checkpoint/` | checkpoint chains | record, validate, decide on a resume | evidence that was good for an earlier failure | no effect in doubt runs again without a fresh word, a committed one never | ResumeDecision, ResumeGate |
| Event stream and projection `agent/service/event_repository.py`, `run_projector.py` | cursors of readers, the retention floor | read, poll, end, project | retention floor, resume behind a terminal event | every event once, in order, an end exactly at the end | EventStream |
| Workflow execution `agent/executor/`, `agent/workflow/` | stage results, retries | run, skip, retry, reconcile, complete | what an earlier attempt left on disk | no file overwritten by a recovery; completed only if it happened | WorkflowRecovery |
| Agent loop and Runtime `agent/runtime.py`, `agent/loop/`, `agent/orchestrator/` | transcript, plan with receipts, budgets, evidence | plan, ask the model, dispatch tools, verify, publish | parallel tools, feedback, files that others edit | ordered answers, lone effects, true outcomes, an end | AgentLoop |
| Provider access `agent/llm.py` | availability flags, cooldowns | call, retry, fall back | concurrent requests share the flags | no provider twice per request, recovery after an outage | ProviderRouter |
| Memory and learning `agent/memory/`, `agent/services/memory_service.py` | facts, summaries, resolutions, short-term files | look up, propose, authorize, commit, clear | statements without a transaction | only authorized learning is stored; receipts are true | MemoryLearning |
| Sidecar and desktop `agent/service/local_sidecar/`, `apps/desktop/` | view, cursor, timers, the transport's process | start, cancel, poll, hydrate | handlers that overlap at every await, lost answers, an exit | no event skipped, a decided Run is shown as decided | RunController |
| Planning, cognition and prompts; compiler and registries; conversation and context; workspace, sandbox and tools; command line and HTTP; benchmarks | none across Runs, or external input and output | | | tested as pure functions or user interface | none |

How they interact.  A process admits a Run in one store transaction
(`reserve_service_start`), builds a `RunContext` whose store view holds the
fence, and runs two tasks: the launcher and a heartbeat that renews the worker
lease.  The launcher starts a watchdog, subscribes to progress events and calls
the Runtime.  The Runtime plans and then runs the agent loop, which asks the
provider router for turns and executes the tools the model calls; one of them,
`run_workflow`, goes through the resume coordinator to the Workflow executor and
the store.  After the answer the turn may learn facts about the user.
`cancel_run` and the watchdog only write an intent; the worker finds it at a
safe boundary, in an awaited call, or when the Runtime has returned, and
finalizes it.  Another process can take a Run over once its lease has expired,
or fail it as an orphan when it admits another Run of the session.  Event
streams and the desktop only read what the store holds.  Apart from the
processes' own tasks, all communication goes through the store.

The hazards of the code, each at its line and with the properties that watch it,
are listed in `PROJECT.json`.

## 2. Modules

```
RunOutcome <--implements-- RunStore --implements--> RunLog <--extends-- EventStream <-- RunController
                              ^                                          (readers)        (desktop)
                              | implements
                          RunService           ResumeDecision <--extends-- ResumeGate, WorkflowRecovery

AgentLoop        ProviderRouter        MemoryLearning
```

`RunVocabulary` holds the statuses, event types and the transition table that
RunStore and RunLog share.  Every `MC...` module instantiates one module for TLC,
every `...Proofs` module holds theorems about one (that of RunController also
covers EventStream, that of ResumeGate the tables of ResumeDecision).

**RunOutcome** is what a client of the event stream is promised: the outcome of
a Run is a register written once per attempt, reopened only after `blocked`, and
an interrupted attempt ends as it was asked to or fails, but does not complete.

**RunStore** has one action per transaction of `sqlite.py`; an operation that
raises is rolled back and is no step.

| Variable | Code |
| --- | --- |
| `head[r]` | row of `run_heads`: status, `current_revision`, `current_writer_id`, `current_fence_token`, age of `updated_at` |
| `lease[r]` | row of `run_worker_leases`: holder, token, ticks left until `expires_at` |
| `intent[r]` | row of `run_interruption_intents`: phase and reason |
| `index[r]` | newest row of `run_resume_revisions` and the state of its Workflow |
| `ledger[r][k]` | row of `idempotency_ledger` |
| `log[r]` | rows of `run_events` in sequence order |

The abstractions: a digest identifies a revision, so compare-and-set on both is
one on the revision; an index holds one Workflow; an event is its type and
revision; time is relative, with leases counting down and heads growing old.
The reaper (`_converge_orphaned_run_tx`) is part of each admitting transaction,
as in the code.  `SUSPENDED` and `FAILED_RECOVERABLE` are left out because no
caller of the store writes them as a Run's status.  The validation of a
finalization bundle keeps what two writers can make disagree (fence, head,
interruption, log, ledger); that the records of one bundle agree with each other
is true of how the coordinator builds it.  `Next` lets any writer that owns a
fence call anything at any time, which is more than the service does.

**RunService** adds what the processes do.  `worker[w][r]` is the task of process
`w` for Run `r`: a program point, whether it started or resumed the Run, the
token of its store view and, between `head()` and `append_event`, the revision it
read.  At an `Awaiting` point the other tasks of the process may run; from one
`Synchronous` point to the next they may not, but other processes may.  Every
action is one transaction, or the place where one is refused, with the exception
path the code takes from there.  `Faults` switches crashes, stalls (heartbeats
that come too late) and exceptions on.  A start or a resume whose context cannot be
built may have taken its fence already and keeps it until the lease runs out; a
renewal may fail although the lease is live (STORE_BUSY).

| Actions | Code |
| --- | --- |
| `StartRun`, `OpenContext`, `OpenFails`, `BeginRun` | `AgentService.start_run`, `_run_start`, `create_run`, `_execute` up to `run_started` |
| `ResumeRun`, `ResumeContext`, `ResumeFails`, `ClaimResume`, `ReplayResume`, `LoseResume`, `BeginResume` | `AgentService.resume_run`, `_resume_checkpoint` up to `run_resumed` |
| `SetUp`, `SetUpRaises`, `BlockResume`, `WorkflowStep`, `CommitRefused`, `ReadRevision`, `PersistProgress` | Runtime construction, Workflow tool and resume coordinator, progress subscription |
| `Heartbeat`, `LoseLease`, `Watchdog` | `_run_with_worker_lease`, `_run_timeout_watchdog` |
| `DecideResume`, `RuntimeReturns`, `BoundaryRaises`, `RuntimeRaises`, `WriteFailure`, `WriteOutcome`, `Observe`, `Finalize`, `CloseContext` | the end of `_execute` and `_resume_checkpoint`, `_converge_interruption`, `release_run` |
| `CancelRun`, `Crash`, `Time` | `cancel_run`, the environment |

What the Runtime itself does is a choice here: it may call any Workflow
operation, emit progress, return with any outcome, raise, or raise at a safe
boundary.  AgentLoop and WorkflowRecovery say which of these it chooses when.

**RunLog** is one Run as its readers see it: `status`, the state `work` of its
newest Workflow, and the `events`.  RunStore implements it for every Run; the
modules of the readers extend it, so that a reader is checked against every
behaviour the store can show it at a small part of the store's state.

**EventStream** is `SqliteEventRepository._stream` over RunLog: a reader with any
cursor the client may name, a batch and a limit, one step per read of the store (`ReadBatch`,
`YieldEvent`, `CheckTerminal`, `CheckHead`), the retention floor and `close`.

**RunController** is the desktop: `view`, `cursor`, `polling` and `operation` are
the fields of `RunController` in `runController.ts`, `handler["poll"]` and
`handler["op"]` the locals of the two kinds of handlers that overlap.  A call is
answered in one step (the sidecar serves one request at a time) and used in a
later one (`ServeSnapshot`, `AskEvents`, `ServeEvents`, `Apply`); it may be
refused, time out, die with the sidecar, or break off before an event that takes
longer than `_read_events` waits for it (`ServeShort`).

**ResumeDecision** holds the two decision tables, `resolve` and
`validate_resume`, as lists of refusals joined by `++`: the first that applies
is the verdict.

**ResumeGate** runs one Workflow over one checkpoint lineage: stages succeed or
fail with every effect state the recorder may write (a missing input is such a
failure too), the worker stops short and records nothing, and requests with every
action, guard, plan and confirmation are put to the tables.

**WorkflowRecovery** follows one Workflow through crashes: what is durable
(`status`, `head`, `index`, `chain`, `ledger`), what is outside (`file`,
`performed`) and the volatile `job` of the attempt at work, whose program points
are the steps of `run_workflow_tool` and `RunResumeCoordinator.resume_active`.
Stages are pure (a language model; the result may differ each time), write a
file, or have an effect that cannot be read back.  The owner of the workspace edits
the file at any time (`OwnerEdits`); that he did so after the stage at work had
looked at it is the history `job.raced`.  Production registers the one
Workflow `code_generation`, pure stages and a file write; the third kind stands
for the executor's general case.

**AgentLoop** is one attempt: the state machine of `Runtime._run_in_context`, the
loop's turns with their parallel batches, barriers and feedback, the budget they
share, the receipts of files, the Finalizer's and GoalVerifier's view of them,
and the launcher's publication.  A cancel and an edit by somebody else may come
at any point.  A call that a cancel meets after its tool has run keeps its receipts
in the plan, and one that meets the call that writes the answer leaves without any
evidence (`InterruptedAnswer`).  `run_workflow` is left to WorkflowRecovery.

**ProviderRouter** is the process's one `LLMRouter`: the flags and the two
windows, and the locals of each request, which reads the flags at its awaits.

**MemoryLearning** is `learn_from_interaction` for any number of turns over one
table of facts: three loops (look-ups, proposals, commits) and a commit whose
SELECT and write are two steps, because sqlite3 opens no transaction for the
SELECT.

Definitions called `...Anyway`, `...OffByOne`, `...OnTrust` and the like, placed
just before the definition they vary, are deliberately wrong forms of it: they
are used by no specification, only to confirm that the properties notice.

## 3. Runs

| Run | Instance | Shows |
| --- | --- | --- |
| `store_one_run` | 1 Run, 2 writers, 2 keys, TTL 1, token 2, revision 6, events 5, progress 1 | `TypeOK`, `InterruptionAgreement`, `OutcomeAgreement`, `NoCommitAfterOutcome`; the store implements `RunOutcome` (`ImplementsOutcome`) and `RunLog` (`ImplementsRunLog`) |
| `service_one_run` | 1 Run, 2 processes, 3 keys, TTL 1, token 2, revision 6, events 7, progress 1, all faults | `OneWorkerPerFence`, `DecidedRunNotExecuted`, `Recoverable`, `StaleWorkerIsFenced`; every step of the service is one of the store's client (`ImplementsStore`) |
| `service_two_runs` | 2 Runs of a session, 2 processes, 2 keys, TTL 1, token 2, revision 3, events 5, crashes and exceptions | `OneLiveRunPerSession`, `OneActiveRunPerSession`, `DeadRunNeverBlocks`, `LiveOwnerKept`, `TerminalStaysTerminal` |
| `service_interruption` | 1 Run, 2 processes, 2 keys, TTL 1, token 2, revision 10, events 10, stalls and exceptions, fair | `InterruptionConverges`, `AttemptReleasesFence` |
| `event_delivery` | 4 events, batches of 2, no limit or 2, floor 1, answers of 2 events, 1 call that fails or answers short, fair | `CursorNeverSkips`, `StreamEndsAtOutcome`, `StreamEnds`, `DecidedStatusShown` |
| `resume_gate` | 2 tasks, one of them idempotent, 19 kinds of request, 7 ticks | `DoubtNeedsFreshWord`, `CommittedNeverRepeated` |
| `workflow_recovery` | a pure, a file and an effect stage, 2 results, 7 kinds of request, 2 retries, 4 attempts, 2 calls, fair | `DurableFactsAreSettled`, `FileNeverOverwritten`, `EffectUnderIntent`, `CompletionIsDurable`, `AttemptEnds` |
| `agent_loop` | 1 file, 2 contents, 3 goals, turns of up to 3 calls, 7 transitions, 3 goal rounds, batches of 2, fair | `CallsAnsweredInOrder`, `EffectsRunAlone`, `OutcomeIsTrue`, `StopIsObeyed`, `AttemptEnds` |
| `provider_router` | 2 requests, 1 retry, windows of 0 and 1 and of 2 ticks, every mode, fair | `EachProviderOnce`, `RefusalIsEarned`, `DeepSeekReturns` |
| `memory_learning` | 3 turns over 2 keys, one value vetoed | `StoredWasAuthorized`, `OverwriteWasKnown`, `ReceiptIsTruthful` |
| `interruption_lost`, `partial_files` | as `service_interruption` without faults and TTL 2; as `agent_loop` | violations: two of the divergences of section 6 |

Why the bounds are enough.

* *Store and service.*  Two tokens are a start and a takeover or resume, so that
  a writer can be stale.  With one Run, revision 6 admits reservation, resume
  request, bootstrap, activation, prepare and finalize, or the interruption's
  three revisions beside some of them; events 5 to 7 admit a blocked attempt, its
  resumption and a second outcome.  `service_one_run` has a key for the start,
  one for a resume and one for the Workflow, without which no commit is refused.
  With two Runs ownership and status matter, so revisions are few and one Run can
  be the cancelled or dead one an admission meets.  In the fair run revision and
  event bounds are above what two tokens can use up: a bound in a guard would
  otherwise disable the very step fairness relies on.  A lease of one tick is
  live or out, which is all a property can tell.  Writers, keys and the Runs of a
  session are interchangeable; the safety runs use that symmetry, the runs of
  liveness properties do not.
* *Readers.*  Four events hold an admission, a block, a resume and an outcome (a Run
  that a bootstrap has set RUNNING may block without `run_started` in RunLog), and
  batches of two split them; floor 1 may expire a cursor of 0.  Five events pass
  the safety properties too, but are too many for the liveness ones.
* *Resume.*  Seven ticks are two failures of the same task with a request between
  them and more; four attempts are a crash in the middle, a resume that crashes
  too, one that clarifies and one that ends.  Two retries let an effect happen
  three times in an attempt.
* *Loop.*  Seven transitions reach the loop, let it make a turn of each kind,
  have an answer sent back, and run out.  The turns put safe calls before and
  behind a barrier, and a batch of two splits three.
* *Router and memory.*  A third request or turn adds an interleaving but no new
  pair of conflicting reads and writes.
* *Safety in general.*  Every safety property and refinement of these runs is also
  proved (section 4), so that for them no bound matters; the runs remain the check
  that what is proved is not vacuous (each property has a mutant) and the place
  where liveness is checked.

Deadlock is checked in every run but `event_delivery`, `resume_gate`,
`workflow_recovery` and `memory_learning`: there the log is full, the clock has
run out, a Run is final, or every turn is done, and the system stops.  In the
store and the service the clock keeps running, so that what could really block is
stated as `Recoverable`, `DeadRunNeverBlocks` and `AttemptReleasesFence` instead.

**Fairness.**  In RunService `TaskStep(w, r)` is weakly fair: an asyncio task that
can run is run, every transaction returns, and a Runtime comes back because its
budgets and the provider timeouts bound it.  Starting, resuming, cancelling, the
watchdog, Workflow operations, exceptions, crashes and stalls are never obliged
to happen.  In RunController a consumer asks on, the event loop fires timers and
runs the continuation of an answer, and a live sidecar answers; nothing obliges
the Run to move.  In WorkflowRecovery and AgentLoop the worker's next step is
weakly fair (calls, tools and stages have timeouts), a crash or an edit is not.
In ProviderRouter time passes, callers ask on and a call ends; that a request
whose provider answers is not interrupted for ever is the one strong fairness
(`SF_vars(Succeed(r))`).  MemoryLearning states none: its properties are safety.

**Type invariants.**  `TypeOK` of RunStore is checked and proved; those of the other
modules (`ServiceTypeOK`, `TypeOK` of RunController with the ones of log, stream and
desktop, `GateTypeOK`, `RecoveryTypeOK`, `LoopTypeOK`, `RouterTypeOK`,
`MemoryTypeOK`) are proved.

**Mutants.**  For every property of a passing run `PROJECT.json` names a
plausible bug (a definition and its mutated form, kept next to each other in the
module) under which TLC finds the property violated.

**Beyond the runs.**  `TerminalStaysTerminal`, `OneActiveRunPerSession` and
`DeadRunNeverBlocks` are stated for punctual workers: add `"stall"` to `Faults` of
`service_two_runs` to see a Run that the reaper has failed revived by its worker.
That is the only way back: `OutcomeStays`, in RunServiceProofs, says of all faults
that COMPLETED, CANCELLED and TIMED_OUT are never left.

## 4. Proofs

The theorems hold for every value of the constants under the named assumptions
of the modules, which TLC evaluates on each instance: constants are of their kinds,
bounds are natural numbers (batches, pages, leases and logs not empty ones), NoWriter
is no writer, NoRow no row and 0 no digest, a turn has a call, Tasks have different
names, no version of a file is "absent" or "theirs", and a stage that writes a file
has a pure stage before it to produce the text.

**RunStoreProofs.**  The argument is per Run.  A step of the store does to one Run
one of a dozen things; `StepOf(q)` lists them, and the lemma `EveryStepOf` shows
that `Next` does one of them to every Run, which disposes of the admissions that
touch all Runs of a session at once.  Each invariant is then checked once per
kind of step.

| Theorem | Inductive invariant | Why the strengthening |
| --- | --- | --- |
| `StoreTypeCorrect` | `TypeOK` | |
| `OneOutcomeProved` | `TypeOK`, `OneOutcomePerAttempt` | `CanAppend` guards every append, the reaper's and the bundle's included |
| `InterruptionAgreementProved`, `OutcomeAgreementProved`, `NoCommitAfterOutcomeProved`, `StoreImplementsOutcome` | `AgreementInv` = `TypeOK`, both agreements, `RevisionOrder` | neither agreement is inductive alone: a finalize is harmless because a terminal log excludes CANCELLING, and a bootstrap or activation cannot overwrite CANCELLING because the request has moved the head past the revision of the index |
| `LeaseFollowsFenceProved`, `OneLiveRunProved`, `LiveOwnerKeptProved` | `OwnershipInv` = `TypeOK`, `LeaseFollowsFence`, a lease has a Run, `OneLiveRunPerSession` | a renewal keeps the session's exclusion only because a lease that is live belongs to the current fence |

`StoreImplementsRunLog` goes the same way: `StepMapsToRunLog` shows for each kind of
step that a Run, seen as `SeenStatus`, `SeenWork` and `SeenEvents`, makes a step of
RunLog or none.  `AgreementInv` is needed where RunLog has a guard the store does
not look at: a bootstrap, an activation or a commit never moves an interrupted Run.

**RunServiceProofs.**  `ServiceTypeCorrect` and `ServiceImplementsStore` follow from
`ServiceInv` = `ServiceTypeOK`, `AgreementInv`, `ReadBehind`: a progress event is
one the store's client may append because the revision a task has read is never
ahead of the head.  By `ServiceImplementsStore` every theorem about
`RunStore!Spec` holds of the service; `ServiceKeepsPromises` collects them.

What fences and leases promise needs the points of the tasks.  `TaskOf(w, r)` lists
the eight things a step of a task does to its Run (it proceeds, begins, works, ends,
asks for an interruption, gives back, enters, takes), and `ProcessTask` shows that
every step of a process is one of them, with every other Run untouched or reaped
without a live lease.  Over these kinds `FenceInv` is inductive:

| Conjunct | Says | Needed by |
| --- | --- | --- |
| `ServiceInv`, `OwnershipInv` | types, agreement of status, intent and log, leases follow fences | all |
| `Tokens`, `OneWorkerPerFence` | a task's token is one its fence has had; who holds the current one is the writer, or nobody is | `OneWorkerPerFenceProved` |
| `HeldLeases`, `RunningLeased` | an owner at work has a lease row, live unless processes stall; so has a RUNNING head with a writer | `RecoverableProved` |
| `ExecutedOpen`, `ActiveOpen` | a Run that its owner executes is RUNNING, CANCELLING or reaped; one that looks active may still end | `DecidedRunNotExecutedProved`, `DeadRunNeverBlocksProved`, `TerminalStaysTerminalProved`, `OutcomeStaysProved` |
| `LiveAlone` | without stalls a Run under way is alone in its session with it and with live leases | `OneActiveRunProved` |

`OneWorkerPerFenceProved`, `RecoverableProved`, `StaleWorkerIsFencedProved`,
`OutcomeStaysProved` and `ServiceKeepsPromises` hold under all faults.
`DecidedRunNotExecutedProved`, `DeadRunNeverBlocksProved` and
`TerminalStaysTerminalProved` assume `Undisturbed`: processes beat in time, or no
session has a second Run.  Without it they are false: a rival's admission may reap
a stalled owner, which then bootstraps its index and writes RUNNING over
FAILED_TERMINAL (section 6).  `OneActiveRunProved` assumes that processes beat in
time; with stalls the reaped owner and the rival are both under way.  The runs
instantiate both alternatives of `Undisturbed`: `service_one_run` has all faults and
one Run, `service_two_runs` two Runs and punctual heartbeats.

**RunControllerProofs.**  `CursorNeverSkipsProved` and `StreamEndsAtOutcomeProved`
from `ControllerInv` = `LogInv`, `ReaderInv`, `DesktopInv`.  `LogInv` says of RunLog
what the store promises its readers: nothing follows the end of an attempt but its
resume.  `ReaderInv` keeps the batch within the log, and the cursor behind it while the
reader yields and on an event of the log when it checks one, so that a reader that
finds its last event terminal at the end of the log has no event left.
`DesktopInv` relates the two handlers: an answer on its way starts behind events
the desktop has already been given and has no gap (`AnswerInv`), and no poll is
under way before the Run is known (`Quiet`).  That a bounded set of events has a
latest one is `LatestIsGreatest`, from the well-foundedness of `<`.

**ResumeGateProofs.**  Both properties from `GateInv` = `GateTypeOK`, `InOrder`,
`Entitled` and the order of the clocks.  `Entitled` is the link between decision and
execution: while the verdict lets the Workflow run, the task at work is not
committed, and if it is in doubt the word is younger than the doubt.  That the
tables establish it is a chain of lemmas, one per list of refusals of
`validate_resume`, that say what a request has not to be for the list to let it
through.

**WorkflowRecoveryProofs.**  The four safety properties from `RecoveryInv`:
`Lineage` (the durable chain is sound, the index points to its end, and the end
says either that nothing is done or that all is), `Intents` (which ledger rows may be
prepared or committed, given where the attempt is), `StagedFacts` (all staged facts
are sound, all but the last verified, and the last counts as done exactly the stages
before the one at work) and `Holds` (the attempt has a version before it writes a
file, writes only where the file is absent or its own unless the owner has raced it, and
reports success only of what has happened).  None of the four properties is
inductive without the others'
parts: that a durable fact is settled depends on what was staged, and that depends on
what the stage did several steps earlier.

**AgentLoopProofs.**  The four safety properties from `LoopInv`: `Budgeted`,
`BatchInTurn` (what is running and finished belongs to the turn and fits into what
it has left), `EffectsRunAlone`, `Transcript` (the answers are those of the first
calls of the turn), `Accepted` (between acceptance and publication nothing runs, so
that the receipts stay) and `Publication`.  A batch is collected when nothing runs
any more; that the answers collected then fit into the turn is a count of its
positions, by the cardinality theorems.

**ProviderRouterProofs.**  `EachProviderOnceProved` and `RefusalIsEarnedProved`
from `RouterInv` = `RouterTypeOK`, `CallsCounted`, `FlagsEarned`.  `CallsCounted`
ties the calls a request has paid for to where it is: on its first provider it
has called only that one, once more than it has retried; on its fallback, the
other one no more than its attempts.  `FlagsEarned` says which flags may be
down given how the last visits ended, so that the cooldown cannot outlive a
success of DeepSeek.

**MemoryLearningProofs.**  The three properties from `MemoryInv` = `MemoryTypeOK`,
`InStep`, `RowsBacked`.  `InStep` says how far each of the three loops of a turn
has come in each phase, and what the SELECT has established when a write follows
it (the action is authorized, and a row is replaced only by an UPDATE);
`RowsBacked` says that every stored row was asked for by a turn whose proposals
are complete.  The write is two statements after the decision and the decision
any time after the look-up, so neither property is inductive without them.

**Model-checked only.**  With these, every invariant, action property and refinement
that a run checks is a theorem.  What is left to TLC are the liveness properties,
because fairness and ENABLED are out of the prover's reach: `InterruptionConverges`,
`AttemptReleasesFence`, `StreamEnds`, `DecidedStatusShown`, `AttemptEnds` of
WorkflowRecovery and of AgentLoop, and `DeepSeekReturns`.  The modules contain no
recursive operator, and nothing is proved by induction over data.

## 5. What is not modelled

* *Store and service:* session summaries, `initialize_run` (no caller in
  production), contents and digests of artifacts, several Workflows per index and
  their dependencies, replay of operations other than the resume request, two
  clocks or clocks that jump, the string comparison of timestamps,
  `AgentService.close`.  A process that restarts is a new writer, as by default.
  SQLite is external: a transaction happens entirely or not at all.
* *Checkpoints and Workflows:* `suspend` (no caller), the codec, migrations
  (registered by nobody), the in-memory and JSON stores of the tests, the steps of
  `plan_executor.py`, gates inside a stage, contents of outputs.
* *Agent loop:* answer texts, freshness and acceptance criteria, BLOCKED outcomes
  of effects outside the workspace, reflection, transcript compaction, the event
  bus, and how the planner arrives at its plan (only that it leads to the loop, to
  an answer, or to a failure).
* *Providers and memory:* message formats; the structured-output cache;
  short-term history, summaries and resolutions.
* *Desktop and sidecar:* `resumeRun` (it does nothing over the real service, see
  section 6), `initializeCatalog`, rendering, settings,
  `list_artifacts`, framing and encoding.
* *Whole components:* planning, cognition and prompts classify text around a
  language model and keep nothing across Runs; the compiler and the registries are
  sequential rules and tables filled at start-up; conversation and context assemble
  text; workspace, sandbox and tools are file system, subprocess and network
  access; command line and HTTP only build the components; benchmarks, evaluations
  and the harness of the test reports measure.  These and the data classes with their
  serialization are the larger part of the repository's lines, and they have no
  interleavings or faults of their own to check: the modules stand for roughly a
  fifth of the implementation, and for most of the code that shares state.

Each reader, the Workflow and the loop are composed with the store through an
interface (RunLog, or the durable variables of WorkflowRecovery), not with
RunService itself: their product is beyond TLC.  In particular the one attempt
of WorkflowRecovery is alone at work, which RunService is there to show.

## 6. Where the code and its documents disagree

Two runs show a violation; `PROJECT.json` quotes the sentences.

* `interruption_lost`: a cancellation that is accepted before `run_started`, or
  that a resumed attempt meets at a safe boundary, is never finalized.
* `partial_files`: a file written by a call that then fails is not in the terminal
  payload, because the call leaves the plan with its receipts
  (`loop/runner.py:518`; ADR-0035, lines 15 and 17).

Others were met while modelling and have no run of their own.

Runs and their log:
* A Run failed by the reaper is revived by its late worker: `append_revision`
  writes the caller's status over a terminal one (`sqlite.py:2611`; ADR-0021:130).
* Event revisions go backwards, and a stale worker's progress is accepted:
  `persist` reads and appends in two transactions (`runtime_launcher.py:584`;
  ADR-0021:232) and `append_event` names no fence (`sqlite.py:4583`; ADR-0023:255,
  ADR-0037:14).
* `request_interruption` refuses a BLOCKED Run (`sqlite.py:1294`), which
  ADR-0023:97-101 lists as cancellable.
* A start or a resume that fails while it builds its context, after it has taken the
  fence (`service.py:225`, `:342`), does not give it back: another process cannot take
  the Run over before the lease has expired.
* While a worker is stalled past its lease, its Run and a newly admitted one of
  the session may both be RUNNING, since `transition_run_with_event` does not look
  at the lease.

Readers:
* `RunProjector.project` answers COMPLETED while the Run is still RUNNING once its
  Workflow is completed (`run_projector.py:228-230` against the comment at 215-217).
  `resume_summary` is always None
  (`run_projector.py:264`), so that the desktop's `resumeRun` returns before it
  calls the service (`runController.ts:137`).
* Overlapping poll and operation handlers merge their answers into the events they
  read before: an event the cursor has passed may drop out of the view
  (`runController.ts:244-266`).  `CursorNeverSkips` and `DecidedStatusShown` hold all
  the same.
* A snapshot is read before its events (ADR-0025 section 6), a Run whose `startRun`
  succeeded and whose first `getRun` failed is not in the view, EVENT_CURSOR_EXPIRED
  freezes it, and the
  client expects "verified" where the service writes "VERIFIED".

Resume:
* A PREPARED operation says that an effect may have happened, but nobody inspects
  it on resume, which restarts at the first stage without a durable checkpoint
  (ADR-0020:375-376, :386, :482; ADR-0017:134-135; ADR-0018:258-260).  What the
  ledger does show is `EffectUnderIntent`.
* A Workflow that crashed between bootstrap and activation can never be activated
  (`view.py:514-518`): the resume's own revision has moved the head.
* A resume with another action than the one prepared raises IDEMPOTENCY_CONFLICT
  and ends the Run FAILED_TERMINAL (`coordinator.py:528-560`; ADR-0017:68-71), as
  does a resumed attempt whose stage fails.
* The executor looks at a stage's file once (`workflow.py:269`); what the owner puts
  there between that look and the write or its retries (302-307) is overwritten.
  `FileNeverOverwritten` is stated with that exception (`job.raced`).
* `active_side_effect_state` of the index is always NONE and its idempotency FALSE,
  so that REPLAY is always rejected there.

Loop, providers and memory:
* A file that is changed and changed back keeps ARTIFACT_CHANGED, and feedback
  cannot repair it (`finalizer.py:57-61`); a changed file found after the answer
  fails the Run.
* The Ollama flag, once down, is never set again (`llm.py:723`); `DeepSeekReturns`
  holds because DeepSeek is probed.  The RuntimeError of the cooldown ends a Run as
  RUNTIME_EXCEPTION.
* UPDATE of a fact that has been forgotten since its SELECT changes no row and still
  returns a committed receipt (`persistence.py:81` calls it "truthful durable
  evidence"); a fact forgotten while a turn waits for its proposal is inserted
  again; two concurrent UPDATEs may give out the same revision.
  `ReceiptIsTruthful` is stated with that exception.

## 7. Plan

Done: the store, the service over it, the abstract outcome and log, readers and
desktop, the resume tables, Workflow recovery, the agent loop, providers and
learning; the proofs of section 4.

| Next | What | Proofs |
| --- | --- | --- |
| 1 | the parts of the liveness arguments that are safety: what holds of an attempt that has been asked to stop, progress measures of the loop and of recovery | bounds on steps, from `LoopInv` and `RecoveryInv` |
| 2 | session summaries and shutdown in RunStore and RunService | compare-and-set of summaries |
| 3 | several Workflows per index and their dependencies in WorkflowRecovery | `DurableFactsAreSettled` for each of them |

The order follows the weight of the state: what is durable and shared first, what
is local to a process next, what a single task computes last.
