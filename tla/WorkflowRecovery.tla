-------------------------- MODULE WorkflowRecovery --------------------------
(***************************************************************************)
(* One Workflow of one Run over the durable store: what of its execution   *)
(* survives the worker.  RunResumeCoordinator (agent/run_resume/           *)
(* coordinator.py) activates it, writes a PREPARED intent, lets the        *)
(* WorkflowExecutor run over checkpoints staged in memory, and commits     *)
(* them in one FinalizationBundle; the launcher turns the result of a      *)
(* resumed attempt into the Run's next status.                             *)
(*                                                                         *)
(* One attempt works at a time: that no two do, and what a lost lease      *)
(* means, is RunService's subject.  The Run's index holds one Workflow, as *)
(* new_single_workflow_index builds it.                                    *)
(***************************************************************************)
EXTENDS ResumeDecision

CONSTANTS
  Stages,       \* sequence of the kinds of the stages:
                \*   "pure"   an LLM stage or a read; its result may differ
                \*   "file"   writes the latest result to its own path
                \*   "effect" acts on something that cannot be read back
  Versions,     \* what a pure stage may come up with
  Requests,     \* what a resume may ask for
  MaxRetries,   \* retries of a stage within an attempt
  MaxAttempts,  \* bound on the attempts
  MaxCalls      \* bound on run_workflow calls of the first attempt

Kinds(kind) == {i \in DOMAIN Stages : Stages[i] = kind}
FileStages == Kinds("file")
EffectStages == Kinds("effect")
Last == Len(Stages)

ASSUME RecoveryAssumption ==
  /\ Stages \in Seq({"pure", "file", "effect"}) /\ Stages # <<>>
  /\ \A i \in FileStages : \E j \in Kinds("pure") : j < i
  /\ Versions \cap {"absent", "theirs"} = {}
  /\ Requests \subseteq
       [action: Actions \cup {"none"}, observed: Seq(Observations),
        confirmation: {"none", "other", "stale", "bound"}, checkpoint: Nat]
  /\ {MaxRetries, MaxAttempts, MaxCalls} \subseteq Nat

VARIABLES
  status,    \* the Run's status
  head,      \* the revision of the Run's head
  index,     \* the Workflow's entry in the RunResumeIndex
  chain,     \* the durable checkpoints, oldest first
  ledger,    \* the operation of each checkpoint a Workflow was run from
  file,      \* what is at the path of each file stage
  performed, \* how often each effect stage acted on the outside
  attempts,  \* attempts begun
  job        \* the attempt at work: gone when its process dies; its raced is
             \* history, that the owner has been at the file of the stage
             \* since the stage looked there

durable == <<status, head, index, chain, ledger>>
world == <<file, performed>>
recoveryVars == <<durable, world, attempts, job>>

NoIndex == [work |-> "NONE", revision |-> 0, checkpoint |-> 0]
NoOperation == [state |-> "NONE", action |-> "NONE"]
Idle == [pc |-> "idle", first |-> FALSE, request |-> "none", staged |-> <<>>,
         stage |-> 0, version |-> "none", tries |-> 0, calls |-> 0,
         verdict |-> "none", success |-> FALSE, raced |-> FALSE]

Points == {"idle", "bootstrap", "activate", "resolve", "prepare", "validate", "stage",
           "executing", "recording", "complete", "finalize", "tool", "deciding"}
Resumable == {"RUNNING", "WAITING_USER", "BLOCKED"}
Checkpoints == 1..MaxAttempts  \* the active checkpoint's place in the chain

RecoveryTypeOK ==
  /\ status \in {"CREATED", "COMPLETED", "FAILED_TERMINAL"} \cup Resumable
  /\ head \in Nat /\ attempts \in 0..MaxAttempts
  /\ index.work \in {"NONE", "PENDING", "RUNNING", "WAITING_USER", "COMPLETED"}
  /\ index.checkpoint \in 0..Len(chain)
  /\ \A k \in Checkpoints : ledger[k].state \in {"NONE", "PREPARED", "COMMITTED"}
  /\ file \in [FileStages -> Versions \cup {"absent", "theirs"}]
  /\ performed \in [EffectStages -> Nat]
  /\ job.pc \in Points

RecoveryInit ==
  /\ status = "CREATED" /\ head = 0 /\ index = NoIndex /\ chain = <<>>
  /\ ledger = [k \in Checkpoints |-> NoOperation]
  /\ file \in [FileStages -> {"absent", "theirs"}]
  /\ performed = [s \in EffectStages |-> 0]
  /\ attempts = 0
  /\ job = Idle

----------------------------------------------------------------------------
(* Checkpoints                                                              *)

Initial == [status |-> "RUNNING", stage |-> 1, verified |-> TRUE,
            effects |-> [i \in DOMAIN Stages |-> "NONE"], done |-> {}]

(* The fact the executor works on: the last one staged, else the active one *)
Current ==
  IF job.staged # <<>> THEN job.staged[Len(job.staged)] ELSE chain[index.checkpoint]

At(pc) == job.pc = pc
Step(changes) == job' = changes
Go(pc) == Step([job EXCEPT !.pc = pc])

(* An attempt that got no further than a decision of the coordinator.       *)
Decided(verdict) == [job EXCEPT !.pc = IF job.first THEN "tool" ELSE "deciding",
                                !.verdict = verdict, !.success = FALSE]
(* An exception: run_workflow_tool reports it to the model, the launcher    *)
(* fails the resumed Run.                                                   *)
Raised == Decided("RAISED")

----------------------------------------------------------------------------
(* The first attempt calls run_workflow; a resume is launched on the Run.   *)

StartAttempt ==
  /\ status = "CREATED" /\ attempts < MaxAttempts
  /\ status' = "RUNNING"
  /\ head' = head + 1  \* the reservation of the start
  /\ attempts' = attempts + 1
  /\ Step([Idle EXCEPT !.pc = "bootstrap", !.first = TRUE, !.calls = 1,
                       !.request = [action |-> "EXACT", observed |-> <<>>,
                                    confirmation |-> "none", checkpoint |-> 0]])
  /\ UNCHANGED <<index, chain, ledger, world>>

(* bootstrap_run_index, with the reservation still the Run's only revision  *)
Bootstrap ==
  /\ At("bootstrap") /\ head = 1
  /\ head' = head + 1
  /\ index' = [NoIndex EXCEPT !.work = "PENDING", !.revision = head']
  /\ Go("activate")
  /\ UNCHANGED <<status, chain, ledger, world, attempts>>

(* _resume_checkpoint: the resume is reserved, the Run is RUNNING again.    *)
ResumeAttempt(request) ==
  /\ At("idle") /\ status \in Resumable /\ attempts < MaxAttempts
  /\ status' = "RUNNING"
  /\ head' = head + 1
  /\ attempts' = attempts + 1
  /\ Step([Idle EXCEPT
       !.pc = CASE index.work = "PENDING"   -> "activate"
                [] index.work \in {"NONE", "COMPLETED"} -> "deciding"
                [] OTHER -> "resolve",
       !.verdict = CASE index.work = "NONE"      -> "REJECT"
                     [] index.work = "COMPLETED" -> "FINISHED"
                     [] OTHER -> "none",
       !.request = request])
  /\ UNCHANGED <<index, chain, ledger, world>>

(* activate_workflow_with_checkpoint publishes the active Workflow and its  *)
(* initial checkpoint if the head is where the index was written.           *)
MayActivate == head = index.revision
Activate ==
  /\ At("activate")
  /\ IF MayActivate
     THEN /\ chain' = Append(chain, Initial)
          /\ head' = head + 1
          /\ index' = [work |-> "RUNNING", revision |-> head', checkpoint |-> Len(chain')]
          /\ Go("resolve")
     ELSE Step(Decided("REJECT")) /\ UNCHANGED <<head, index, chain>>
  /\ UNCHANGED <<status, ledger, world, attempts>>

----------------------------------------------------------------------------
(* resume_active up to the executor                                         *)

(* The Workflow summary of a single-workflow index: its effect state and    *)
(* its idempotency keep their defaults.                                     *)
IndexFacts ==
  [run |-> "this", workflow |-> "workflow", checkpoint |-> index.checkpoint,
   activeCheckpoint |-> index.checkpoint, versionCurrent |-> TRUE,
   upstream |-> "ready", effect |-> "NONE", idempotent |-> FALSE]
RequestFacts ==
  [runs |-> {"this"}, versioned |-> TRUE, target |-> "none", workflow |-> "none",
   checkpoint |-> job.request.checkpoint, action |-> job.request.action,
   stages |-> {Current.stage}, idempotent |-> FALSE, permitted |-> TRUE, stray |-> FALSE,
   observed |-> job.request.observed, confirmation |-> job.request.confirmation]
CheckpointFacts ==
  [run |-> "this", target |-> "goal", status |-> Current.status, invalidated |-> FALSE,
   guards |-> 0, same |-> {"schema", "contract", "workflow", "plan"}, migration |-> FALSE,
   active |-> Current.stage, completed |-> Current.done, effects |-> Current.effects,
   bound |-> {}]

ResolveWithoutIntent ==
  /\ At("resolve") /\ Go("validate")
  /\ UNCHANGED <<durable, world, attempts>>
Resolve ==
  /\ At("resolve")
  /\ LET verdict == resolve(IndexFacts, RequestFacts, DefersEffects(IndexFacts, RequestFacts))
     IN IF verdict = "ALLOW" THEN Go("prepare") ELSE Step(Decided(verdict))
  /\ UNCHANGED <<durable, world, attempts>>

(* The intent is keyed by the checkpoint; its digest has the action too.    *)
Operation == ledger[index.checkpoint]
Prepare ==
  /\ At("prepare")
  /\ CASE Operation.state = "NONE" ->
            /\ ledger' = [ledger EXCEPT ![index.checkpoint] =
                 [state |-> "PREPARED", action |-> job.request.action]]
            /\ head' = head + 1
            /\ Go("validate")
       [] Operation.state # "NONE" /\ Operation.action = job.request.action ->
            Go("validate") /\ UNCHANGED <<ledger, head>>
       [] OTHER -> Step(Raised) /\ UNCHANGED <<ledger, head>>
  /\ UNCHANGED <<status, index, chain, world, attempts>>

(* CheckpointRecorder.resume and require_clarification                      *)
Reopened(checkpoint) ==
  LET running == [checkpoint EXCEPT !.status = "RUNNING"]
      paused  == [checkpoint EXCEPT !.status = "SUSPENDED"]
  IN IF checkpoint.status \in {"WAITING_USER", "FAILED_RECOVERABLE"}
     THEN <<paused, running>> ELSE <<running>>
NextStage(done) == LET left == DOMAIN Stages \ done
                   IN IF left = {} THEN 0 ELSE CHOOSE i \in left : \A j \in left : i <= j

Validate ==
  /\ At("validate")
  /\ LET verdict == validate_resume(CheckpointFacts, RequestFacts)
         action  == AllowedAction(CheckpointFacts, RequestFacts)
     IN CASE verdict = "ALLOW" /\ action \in {"EXACT", "REPLAY"} ->
               Step([job EXCEPT !.pc = "stage", !.verdict = verdict,
                                !.staged = Reopened(Current),
                                !.stage = NextStage(Current.done)])
          [] verdict = "CLARIFY" ->
               Step([job EXCEPT !.pc = "finalize", !.verdict = verdict,
                                !.staged = <<[Current EXCEPT !.status = "WAITING_USER"]>>])
          [] OTHER ->
               Step([job EXCEPT !.pc = "finalize", !.verdict = verdict])
  /\ UNCHANGED <<durable, world, attempts>>

----------------------------------------------------------------------------
(* WorkflowExecutor.execute: the stage loop.  Every execution over the      *)
(* durable store starts from a checkpoint, so every one reconciles files.   *)

(* _recover_committed_file_effect                                           *)
ReconciledBlindly(s) == IF file[s] = job.version THEN "COMMITTED" ELSE "NONE"
Reconciled(s) ==
  CASE file[s] = "absent"    -> "NONE"
    [] file[s] = job.version -> "COMMITTED"
    [] OTHER                 -> "MISMATCH"

Record(fact, pc) ==
  Step([job EXCEPT !.staged = Append(@, fact), !.tries = 0, !.pc = pc,
                   !.stage = IF fact.verified THEN NextStage(fact.done) ELSE @,
                   !.success = FALSE])
Succeeded(s, effect) ==
  [Current EXCEPT !.done = @ \cup {s}, !.effects[s] = effect, !.verified = TRUE,
                  !.stage = NextStage(Current.done \cup {s})]
Failed(s, effect) ==
  [Current EXCEPT !.effects[s] = effect, !.verified = FALSE, !.stage = s,
                  !.status = IF effect \in Uncertain THEN "WAITING_USER"
                             ELSE "FAILED_RECOVERABLE"]
AfterStageAsRead(s) == IF NextStage(Current.done) = 0 THEN "complete" ELSE "stage"
AfterStage(s) == IF NextStage(Current.done \cup {s}) = 0 THEN "complete" ELSE "stage"

BeginStage(s) ==
  /\ At("stage") /\ s = job.stage
  /\ IF s \in FileStages /\ Reconciled(s) # "NONE"
     THEN IF Reconciled(s) = "COMMITTED"
          THEN Record(Succeeded(s, "COMMITTED"), AfterStage(s))
          ELSE Record(Failed(s, "UNKNOWN"), "finalize")
     ELSE Step([job EXCEPT !.pc = "executing", !.raced = FALSE])
  /\ UNCHANGED <<durable, world, attempts>>

(* The executor does what the stage says, or not, and reports success or    *)
(* failure; a failed try is made again up to MaxRetries times.              *)
EffectOf(s, success) ==
  CASE s \in Kinds("pure") -> "NONE"
    [] success             -> "COMMITTED"
    [] OTHER               -> "UNKNOWN"
Acts(s) ==
  /\ file' = IF s \in FileStages THEN [file EXCEPT ![s] = job.version] ELSE file
  /\ performed' = IF s \in EffectStages THEN [performed EXCEPT ![s] = @ + 1] ELSE performed

StageSucceeds(s) ==
  /\ At("executing") /\ s = job.stage
  /\ Acts(s)
  /\ \E v \in (IF s \in Kinds("pure") THEN Versions ELSE {job.version}) :
       Step([job EXCEPT !.version = v, !.success = TRUE, !.pc = "recording"])
  /\ UNCHANGED <<durable, attempts>>

StageFails(s) ==
  /\ At("executing") /\ s = job.stage
  /\ Acts(s) \/ UNCHANGED world
  /\ IF job.tries < MaxRetries
     THEN Step([job EXCEPT !.tries = @ + 1])
     ELSE Step([job EXCEPT !.success = FALSE, !.pc = "recording"])
  /\ UNCHANGED <<durable, attempts>>

RecordStage(s) ==
  /\ At("recording") /\ s = job.stage
  /\ IF job.success
     THEN Record(Succeeded(s, EffectOf(s, TRUE)), AfterStage(s))
     ELSE Record(Failed(s, EffectOf(s, FALSE)), "finalize")
  /\ UNCHANGED <<durable, world, attempts>>

Complete ==
  /\ At("complete")
  /\ Step([job EXCEPT !.pc = "finalize", !.success = TRUE,
             !.staged = Append(@, [Current EXCEPT !.status = "COMPLETED", !.verified = TRUE])])
  /\ UNCHANGED <<durable, world, attempts>>

----------------------------------------------------------------------------
(* _record_result and _finalize_durable_workflow: the staged chain and the  *)
(* index it leads to are committed together, or nothing is.                 *)

PublishableAnyway == job.staged # <<>>
Publishable == job.staged # <<>> /\ Current.verified

NextIndex ==
  [work |-> Current.status, revision |-> head + 1,
   checkpoint |-> Len(chain) + Len(job.staged)]

Finalize ==
  /\ At("finalize")
  /\ IF Publishable
     THEN /\ chain' = chain \o job.staged
          /\ index' = NextIndex
          /\ ledger' = [ledger EXCEPT ![index.checkpoint].state = "COMMITTED"]
          /\ head' = head + 1
          /\ status' = "RUNNING"
     ELSE UNCHANGED durable
  /\ Step([job EXCEPT !.pc = IF job.first THEN "tool" ELSE "deciding", !.staged = <<>>])
  /\ UNCHANGED <<world, attempts>>

(* The store refuses the bundle, or the executor raised.                    *)
FinalizeRaises ==
  /\ At("finalize") /\ Publishable
  /\ Step([Raised EXCEPT !.staged = <<>>])
  /\ UNCHANGED <<durable, world, attempts>>
StageRaises ==
  /\ At("executing")
  /\ Acts(job.stage) \/ UNCHANGED world
  /\ Step([Raised EXCEPT !.staged = <<>>, !.tries = 0])
  /\ UNCHANGED <<durable, attempts>>

----------------------------------------------------------------------------
(* What becomes of the attempt                                              *)

(* The model may call run_workflow again when the call before it raised:    *)
(* only a call that returned a result is remembered in the Run's state.     *)
CallAgain ==
  /\ At("tool") /\ job.verdict = "RAISED" /\ job.calls < MaxCalls
  /\ Step([job EXCEPT !.pc = "resolve", !.calls = @ + 1, !.verdict = "none",
                      !.version = "none", !.stage = 0])
  /\ UNCHANGED <<durable, world, attempts>>

(* The rest of the first attempt is the agent loop's: it ends the Run in    *)
(* any of its outcomes.                                                     *)
FirstAttemptEnds ==
  /\ At("tool")
  /\ status' \in {"COMPLETED", "WAITING_USER", "BLOCKED", "FAILED_TERMINAL"}
  /\ Step(Idle)
  /\ UNCHANGED <<head, index, chain, ledger, world, attempts>>

(* _resume_checkpoint: a Workflow found completed completes the Run if its  *)
(* last checkpoint says so.                                                 *)
FoundCompleted ==
  /\ job.verdict = "FINISHED"
  /\ chain[Len(chain)].status = "COMPLETED" /\ chain[Len(chain)].verified
ResumeOutcomeOfVerdict ==
  CASE FoundCompleted \/ job.verdict = "ALLOW" -> "COMPLETED"
    [] job.verdict = "CLARIFY" -> "WAITING_USER"
    [] OTHER -> "BLOCKED"
ResumeOutcome ==
  CASE FoundCompleted \/ (job.verdict = "ALLOW" /\ job.success) -> "COMPLETED"
    [] job.verdict = "CLARIFY" -> "WAITING_USER"
    [] job.verdict \in {"REJECT", "FINISHED"} -> "BLOCKED"
    [] OTHER -> "FAILED_TERMINAL"
ResumeEnds ==
  /\ At("deciding")
  /\ status' = ResumeOutcome
  /\ Step(Idle)
  /\ UNCHANGED <<head, index, chain, ledger, world, attempts>>

(* The process dies: the staged checkpoints are gone.                       *)
Crash ==
  /\ ~At("idle")
  /\ Step(Idle)
  /\ UNCHANGED <<durable, world, attempts>>

(* At any time, also while the stage is at work, the owner of the workspace *)
(* may put a file of their own at an output path, or remove what is there.  *)
OwnerEdits(s) ==
  /\ \E content \in {"absent", "theirs"} : file' = [file EXCEPT ![s] = content]
  /\ Step([job EXCEPT !.raced = @ \/ (At("executing") /\ job.stage = s)])
  /\ UNCHANGED <<durable, performed, attempts>>

WorkerStep ==
  \/ Bootstrap \/ Activate \/ Resolve \/ Prepare \/ Validate
  \/ \E s \in DOMAIN Stages :
       BeginStage(s) \/ StageSucceeds(s) \/ StageFails(s) \/ RecordStage(s)
  \/ Complete \/ Finalize \/ FinalizeRaises \/ StageRaises
  \/ CallAgain \/ FirstAttemptEnds \/ ResumeEnds

RecoveryNext ==
  \/ StartAttempt
  \/ \E request \in Requests : ResumeAttempt(request)
  \/ WorkerStep
  \/ Crash
  \/ \E s \in FileStages : OwnerEdits(s)

(* A worker that does not die keeps working.                                *)
RecoverySpec ==
  RecoveryInit /\ [][RecoveryNext]_recoveryVars /\ WF_recoveryVars(WorkerStep)

----------------------------------------------------------------------------
(* Properties                                                               *)

(* A Workflow writes a file only where there is none: neither what the      *)
(* owner put there nor what an earlier attempt wrote is overwritten, though *)
(* the stage that produces the content may answer differently each time.    *)
(* (workflow.py:636-677; two runs of the same stage, with edits between.)   *)
(* The code looks once, before the stage and its retries (workflow.py:269), *)
(* and an edit that comes later than that look is not protected.            *)
FileNeverOverwritten ==
  [][\A s \in FileStages : file'[s] \in Versions =>
       \/ file'[s] = file[s] \/ file[s] = "absent"
       \/ job.raced /\ job.stage = s]_recoveryVars

(* An effect happens only under a durable intent that is not yet committed: *)
(* after a crash the ledger shows that something may have been done.        *)
EffectUnderIntent ==
  [][performed' # performed => Operation.state = "PREPARED"]_recoveryVars

(* The durable lineage holds verified facts only: no failure, and no effect *)
(* whose outcome is in doubt (_finalize_durable_workflow, coordinator.py).  *)
DurableFactsAreSettled ==
  \A k \in DOMAIN chain :
    chain[k].verified /\ \A s \in DOMAIN Stages : chain[k].effects[s] \notin Uncertain

(* A resumed Run is COMPLETED only when the Workflow is completed in the    *)
(* durable index and every effect of it has happened, in this attempt or in *)
(* one that died after its bundle was committed.                            *)
CompletionIsDurable ==
  [][(At("deciding") /\ status' = "COMPLETED") =>
       /\ index.work = "COMPLETED"
       /\ \A s \in EffectStages : performed[s] > 0]_recoveryVars

(* Every attempt comes to an end, whatever its stages report.               *)
AttemptEnds == ~At("idle") ~> At("idle")
=============================================================================
