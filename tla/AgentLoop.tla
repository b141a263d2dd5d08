----------------------------- MODULE AgentLoop -----------------------------
(***************************************************************************)
(* One attempt of a Run: Runtime._run_in_context, the tool-calling          *)
(* AgentLoop inside it, the Finalizer's and GoalVerifier's view of the      *)
(* files, and the launcher's publication of the outcome.                    *)
(*                                                                         *)
(* The model answers with any of the turns in Turns.  Tools run between the *)
(* steps of everybody else: a cancel may be asked for at any time, and      *)
(* whoever shares the workspace may edit a file at any time.  A digest is a *)
(* small number, 0 the digest of a missing or empty file.                   *)
(*                                                                         *)
(* Left out: effects outside the workspace, freshness and acceptance        *)
(* criteria (further reasons not to complete), and run_workflow, which      *)
(* module WorkflowRecovery models.                                          *)
(***************************************************************************)
EXTENDS Integers, Sequences, FiniteSets

CONSTANTS
  Paths,           \* files of the workspace
  Digests,         \* contents a file may have, besides none
  Requests,        \* goals: the files to deliver and the outcomes asked for
  Turns,           \* sequences of tool calls the model may ask for
  MaxTransitions,  \* RunBudget.max_transitions
  MaxGoalRounds,   \* RunBudget.max_goal_rounds
  MaxParallel      \* _MAX_PARALLEL_TOOL_CALLS

MaxFeedback == 2   \* MAX_VERIFICATION_FEEDBACK_ROUNDS

Outcomes == {"FILE_READ", "FILE_MUTATION", "COMMAND_EXECUTION"}
Tools == {"read", "search", "write", "delete", "command", "build", "refused"}
SafeTools == {"read", "search"}   \* concurrency_safe
Contents == Digests \cup {0}

ASSUME LoopAssumption ==
  /\ 0 \notin Digests
  /\ Requests \subseteq [deliver: SUBSET Paths, outcomes: SUBSET Outcomes]
  /\ Turns \subseteq Seq([tool: Tools, path: Paths]) \ {<<>>}
  /\ MaxTransitions \in Nat /\ MaxGoalRounds \in Nat \ {0} /\ MaxParallel \in Nat \ {0}

VARIABLES
  request,   \* the goal contract of the Run
  pc,        \* where Runtime and AgentLoop stand
  spent,     \* RunBudget.transitions
  round,     \* goal_state.round
  feedback,  \* verification_feedback_rounds
  turn,      \* the tool calls of the current turn
  running,   \* indexes of the calls under way
  finished,  \* indexes of the finished calls of the batch, as they finished
  messages,  \* indexes of the calls answered in the transcript
  disk,      \* digest of each file
  record,    \* file_artifact_evidence: digest of the last receipt in the plan
  partial,   \* digest of the last receipt of any call, failed ones included
  evidence,  \* outcomes in execution_evidence
  verified,  \* verified_artifact_paths
  failure,   \* runtime_terminal_status and runtime_failure_code are set
  accepted,  \* the evidence says COMPLETED, of outputs that were verified
  asked,     \* an interruption of the Run is durable
  outcome    \* what the launcher has published

vars == <<request, pc, spent, round, feedback, turn, running, finished, messages,
          disk, record, partial, evidence, verified, failure, accepted, asked, outcome>>
budgetVars == <<spent, round, feedback>>
callVars == <<turn, running, finished, messages>>
fileVars == <<disk, record, partial, evidence>>
verdictVars == <<verified, failure, accepted>>

Indexes == UNION {DOMAIN t : t \in Turns}
Published == [status: {"none", "COMPLETED", "FAILED_TERMINAL", "CANCELLED"},
              files: [Paths -> Contents]]

LoopTypeOK ==
  /\ request \in Requests
  /\ pc \in {"init", "plan", "planning", "loop", "turn", "asking", "calls",
             "finish", "project", "publish", "ended"}
  /\ spent \in 0..(MaxTransitions + 1)
  /\ round \in 0..MaxGoalRounds /\ feedback \in 0..MaxFeedback
  /\ turn \in Turns \cup {<<>>}
  /\ running \subseteq Indexes
  /\ finished \in Seq(Indexes) /\ messages \in Seq(Indexes)
  /\ disk \in [Paths -> Contents] /\ record \in [Paths -> Contents]
  /\ partial \in [Paths -> Contents]
  /\ evidence \subseteq Outcomes
  /\ verified \subseteq Paths
  /\ failure \in BOOLEAN /\ accepted \in BOOLEAN /\ asked \in BOOLEAN
  /\ outcome \in Published

----------------------------------------------------------------------------
(* Finalizer._refresh_file_evidence: the recorded files still as recorded,  *)
(* and the failure a changed one is, for good, of a Run that delivers.      *)
Still(now, receipts) == {p \in Paths : receipts[p] # 0 /\ now[p] = receipts[p]}
Spoilt(now, receipts) ==
  request.deliver # {} /\ \E p \in Paths : receipts[p] # 0 /\ now[p] # receipts[p]
StillAsRecorded == Still(disk, record)
Refreshed == failure \/ Spoilt(disk, record)

(* GoalVerifier.verify and execution_truth: what is still missing.          *)
Unresolved == request.outcomes \ evidence
Undelivered(current) == request.deliver \ current
Gaps(current, answer) == Unresolved # {} \/ Undelivered(current) # {} \/ ~answer

(* RunBudget.consume_transition: one more, too late or one too many.        *)
Consume == spent' = spent + 1
Exhausted(late) == late \/ spent + 1 > MaxTransitions

(* RunInterruptionRequested, raised at a boundary: the files are looked at  *)
(* once more, without those the interrupted call touched.                   *)
Raise(touched, now, receipts) ==
  /\ pc' = "publish"
  /\ verified' = Still(now, receipts) \ touched
  /\ failure' = (failure \/ Spoilt(now, receipts))
  /\ accepted' = FALSE
Interrupt == Raise({}, disk, record)

----------------------------------------------------------------------------
(* The state machine of Runtime up to the loop.                             *)
Stop == pc' = "finish" /\ failure' = TRUE /\ UNCHANGED <<verified, accepted>>

Start(late) ==
  /\ pc = "init"
  /\ Consume
  /\ IF Exhausted(late) THEN Stop ELSE pc' = "plan" /\ UNCHANGED verdictVars
  /\ UNCHANGED <<request, round, feedback, callVars, fileVars, asked, outcome>>

Plan(late) ==
  /\ pc = "plan"
  /\ Consume
  /\ IF Exhausted(late) \/ round >= MaxGoalRounds THEN Stop /\ UNCHANGED round
     ELSE /\ round' = round + 1
          /\ IF asked THEN Interrupt
             ELSE pc' = "planning" /\ UNCHANGED verdictVars
  /\ UNCHANGED <<request, feedback, callVars, fileVars, asked, outcome>>

(* The plan leads to the loop, answers by itself, or fails.                 *)
Planned(next) ==
  /\ pc = "planning"
  /\ IF asked THEN Interrupt
     ELSE IF next = "fail" THEN Stop
     ELSE pc' = next /\ UNCHANGED verdictVars
  /\ UNCHANGED <<request, budgetVars, callVars, fileVars, asked, outcome>>

EnterLoop(late) ==
  /\ pc = "loop"
  /\ Consume
  /\ IF Exhausted(late) THEN Stop
     ELSE IF asked THEN Interrupt
     ELSE pc' = "turn" /\ UNCHANGED verdictVars
  /\ UNCHANGED <<request, round, feedback, callVars, fileVars, asked, outcome>>

----------------------------------------------------------------------------
(* AgentLoop.run: one turn, with a transition of its own.                   *)
LoopConsumesNothing == UNCHANGED spent
ConsumeOfLoop == Consume
AskModel(late) ==
  /\ pc = "turn"
  /\ ConsumeOfLoop
  /\ turn' = <<>> /\ messages' = <<>>
  /\ IF Exhausted(late) THEN Stop
     ELSE IF asked THEN Interrupt
     ELSE pc' = "asking" /\ UNCHANGED verdictVars
  /\ UNCHANGED <<request, round, feedback, running, finished, fileVars, asked, outcome>>

InterruptedModel ==
  /\ pc = "asking"
  /\ asked
  /\ Interrupt
  /\ UNCHANGED <<request, budgetVars, callVars, fileVars, asked, outcome>>

ModelFails ==
  /\ pc = "asking"
  /\ Stop
  /\ UNCHANGED <<request, budgetVars, callVars, fileVars, asked, outcome>>

CallTools(t) ==
  /\ pc = "asking"
  /\ ~asked
  /\ pc' = "calls"
  /\ turn' = t
  /\ UNCHANGED <<request, budgetVars, running, finished, messages, fileVars,
                 verdictVars, asked, outcome>>

(* A candidate answer: verified, and sent back with its gaps at most twice  *)
(* and only while the goal has rounds left.                                 *)
Answer(text) ==
  /\ pc = "asking"
  /\ ~asked
  /\ verified' = StillAsRecorded
  /\ LET askAgain == Gaps(StillAsRecorded, text) /\ feedback < MaxFeedback
         noRound == askAgain /\ round >= MaxGoalRounds
     IN  /\ failure' = (Refreshed \/ noRound)
         /\ IF askAgain /\ ~noRound
            THEN pc' = "turn" /\ round' = round + 1 /\ feedback' = feedback + 1
            ELSE pc' = "finish" /\ UNCHANGED <<round, feedback>>
  /\ UNCHANGED <<request, spent, callVars, fileVars, accepted, asked, outcome>>

----------------------------------------------------------------------------
(* _dispatch_step_calls: a run of safe calls together, any other call as a  *)
(* barrier of its own.                                                      *)
First == Len(messages) + 1
BatchBarrierBlind ==
  {i \in First..Len(turn) : i - First < MaxParallel /\ turn[First].tool \in SafeTools}
    \cup {First}
Batch ==
  {i \in First..Len(turn) :
     i - First < MaxParallel /\ \A j \in First..i : turn[j].tool \in SafeTools}
    \cup {First}

(* The tools of the executor look for an interruption before they start;    *)
(* gather raises it, and the other calls of the batch raise theirs.         *)
Guarded(i) == turn[i].tool \notin {"search", "refused"}
Dispatch ==
  /\ pc = "calls"
  /\ running = {} /\ finished = <<>>
  /\ First <= Len(turn)
  /\ IF asked /\ \E i \in Batch : Guarded(i)
     THEN /\ Interrupt
          /\ running' = {i \in Batch : ~Guarded(i)}
     ELSE running' = Batch /\ UNCHANGED <<pc, verdictVars>>
  /\ UNCHANGED <<request, budgetVars, turn, finished, messages, fileVars, asked, outcome>>

(* What a call does to the files and to the evidence: its work, or with an  *)
(* error nothing or a part of it.  A command may change any file,           *)
(* unrecorded; a build is a command that declares its output, which has to  *)
(* be new, and has a receipt for it even when it fails.  A call that fails  *)
(* is taken out of the plan and its receipt with it, unless an interruption *)
(* is raised before the loop comes to that.                                 *)
Writes(call, d) ==
  /\ call.tool = "write" \/ (call.tool = "build" /\ d # disk[call.path])
  /\ disk' = [disk EXCEPT ![call.path] = d]
  /\ partial' = [partial EXCEPT ![call.path] = d]

Litter(call) ==
  /\ \E p \in Paths, d \in Contents :
       /\ \/ call.tool \in {"command", "build"}
          \/ call.tool = "write" /\ p = call.path
       /\ disk' = [disk EXCEPT ![p] = d]
  /\ UNCHANGED <<record, partial, evidence>>

Failed(call, kept) ==
  \/ UNCHANGED fileVars
  \/ Litter(call)
  \/ /\ call.tool = "build"
     /\ \E d \in Digests :
          /\ Writes(call, d)
          /\ record' = IF kept THEN [record EXCEPT ![call.path] = d] ELSE record
     /\ UNCHANGED evidence

Worked(call) ==
  CASE call.tool \in {"write", "build"} ->
         \E d \in Digests :
           /\ Writes(call, d)
           /\ record' = [record EXCEPT ![call.path] = d]
           /\ evidence' = evidence \cup {"FILE_MUTATION"} \cup
                 (IF call.tool = "build" THEN {"COMMAND_EXECUTION"} ELSE {})
    [] call.tool = "delete" ->
         /\ disk[call.path] # 0
         /\ disk' = [disk EXCEPT ![call.path] = 0]
         /\ record' = [record EXCEPT ![call.path] = 0]
         /\ partial' = [partial EXCEPT ![call.path] = 0]
         /\ evidence' = evidence \cup {"FILE_MUTATION"}
    [] call.tool = "command" ->
         /\ \E p \in Paths, d \in Contents : disk' = [disk EXCEPT ![p] = d]
         /\ evidence' = evidence \cup {"COMMAND_EXECUTION"}
         /\ UNCHANGED <<record, partial>>
    [] call.tool = "read" ->
         /\ evidence' = evidence \cup {"FILE_READ"}
         /\ UNCHANGED <<disk, record, partial>>
    [] OTHER -> UNCHANGED fileVars

(* A call ends and its result is recorded.  The executor then looks for an  *)
(* interruption, durable since the plan of the call has looked: raised      *)
(* while the loop still waits for the batch, it ends the loop and leaves    *)
(* the rest of the batch running behind it.                                 *)
EndCall(i) ==
  LET interrupted == pc = "calls" /\ asked /\ Guarded(i) IN
  /\ i \in running
  /\ running' = running \ {i}
  /\ \/ turn[i].tool # "refused" /\ Worked(turn[i])
     \/ Failed(turn[i], interrupted)
  /\ finished' = Append(finished, i)
  /\ IF interrupted
     THEN Raise({}, disk', record')
     ELSE UNCHANGED <<pc, verdictVars>>
  /\ UNCHANGED <<request, budgetVars, turn, messages, asked, outcome>>

(* The interruption reaches a tool at work, or its plan when the tool is     *)
(* done: what it has done stays without a receipt.                          *)
Aborted(call) ==
  \/ UNCHANGED fileVars
  \/ Litter(call)
  \/ /\ call.tool = "delete"
     /\ disk' = [disk EXCEPT ![call.path] = 0]
     /\ UNCHANGED <<record, partial, evidence>>

AbortCall(i) ==
  LET call == turn[i]
      touched == IF call.tool \in {"write", "delete"} THEN {call.path} ELSE {}
  IN  /\ i \in running
      /\ asked /\ Guarded(i)
      /\ running' = running \ {i}
      /\ Aborted(call)
      /\ finished' = Append(finished, i)
      /\ IF pc = "calls"
         THEN Raise(touched, disk', record')
         ELSE UNCHANGED <<pc, verdictVars>>
      /\ UNCHANGED <<request, budgetVars, turn, messages, asked, outcome>>

(* The results of the batch go to the transcript.                           *)
InCompletionOrder(done) == done
InModelOrder(done) == [k \in 1..Len(done) |-> Len(messages) + k]
Collect ==
  /\ pc = "calls"
  /\ running = {} /\ finished # <<>>
  /\ messages' = messages \o InModelOrder(finished)
  /\ finished' = <<>>
  /\ UNCHANGED <<request, pc, budgetVars, turn, running, fileVars, verdictVars,
                 asked, outcome>>

NextTurn ==
  /\ pc = "calls"
  /\ First > Len(turn)
  /\ pc' = "turn"
  /\ UNCHANGED <<request, budgetVars, callVars, fileVars, verdictVars, asked, outcome>>

----------------------------------------------------------------------------
(* enforce_completion_gate and the head of Finalizer.run; writing the       *)
(* answer may take a call of the model.                                     *)
Finish ==
  /\ pc = "finish"
  /\ pc' = "project"
  /\ verified' = StillAsRecorded
  /\ failure' = (Refreshed \/ Unresolved # {})
  /\ UNCHANGED <<request, budgetVars, callVars, fileVars, accepted, asked, outcome>>

(* _project_goal_answer and _build_run_evidence.                            *)
Accepts(current, text) == ~Gaps(current, text) /\ ~Refreshed
Project(text) ==
  /\ pc = "project"
  /\ pc' = "publish"
  /\ verified' = StillAsRecorded
  /\ failure' = Refreshed
  /\ accepted' = Accepts(StillAsRecorded, text)
  /\ UNCHANGED <<request, budgetVars, callVars, fileVars, asked, outcome>>

(* The call of the model that writes the answer, or the one that learns     *)
(* from it, meets an interruption: the run is left without its evidence.    *)
InterruptedAnswer ==
  /\ pc = "project"
  /\ asked
  /\ pc' = "publish"
  /\ verified' = {}
  /\ accepted' = FALSE
  /\ UNCHANGED <<request, budgetVars, callVars, fileVars, failure, asked, outcome>>

(* The launcher: an interruption first, then the digests once more.         *)
ConvergesNever == FALSE
Converges == asked
PresentAsPromised == verified
Present == {p \in verified : disk[p] = record[p]}
Publish ==
  /\ pc = "publish"
  /\ pc' = "ended"
  /\ outcome' =
       [status |-> IF Converges THEN "CANCELLED"
                   ELSE IF accepted /\ Present = verified THEN "COMPLETED"
                   ELSE "FAILED_TERMINAL",
        files |-> [p \in Paths |-> IF p \in Present THEN record[p] ELSE 0]]
  /\ UNCHANGED <<request, budgetVars, callVars, fileVars, verdictVars, asked>>

----------------------------------------------------------------------------
(* The world: a cancel or timeout, and another writer in the workspace.     *)
AskToStop ==
  /\ ~asked /\ pc # "ended"
  /\ asked' = TRUE
  /\ UNCHANGED <<request, pc, budgetVars, callVars, fileVars, verdictVars, outcome>>

Edit(p, d) ==
  /\ disk[p] # d
  /\ disk' = [disk EXCEPT ![p] = d]
  /\ UNCHANGED <<request, pc, budgetVars, callVars, record, partial, evidence,
                 verdictVars, asked, outcome>>

NoFiles == [p \in Paths |-> 0]
Init ==
  /\ request \in Requests
  /\ pc = "init"
  /\ spent = 0 /\ round = 0 /\ feedback = 0
  /\ turn = <<>> /\ running = {} /\ finished = <<>> /\ messages = <<>>
  /\ disk \in [Paths -> Contents]
  /\ record = NoFiles /\ partial = NoFiles
  /\ evidence = {} /\ verified = {}
  /\ failure = FALSE /\ accepted = FALSE /\ asked = FALSE
  /\ outcome = [status |-> "none", files |-> NoFiles]

ModelStep ==
  \/ \E late \in BOOLEAN : AskModel(late)
  \/ InterruptedModel \/ ModelFails
  \/ \E t \in Turns : CallTools(t)
  \/ \E text \in BOOLEAN : Answer(text)
CallStep ==
  \/ Dispatch \/ Collect \/ NextTurn
  \/ \E i \in Indexes : EndCall(i) \/ AbortCall(i)
RuntimeStep ==
  \/ \E late \in BOOLEAN : Start(late) \/ Plan(late) \/ EnterLoop(late)
  \/ \E next \in {"loop", "finish", "fail"} : Planned(next)
  \/ Finish \/ InterruptedAnswer \/ Publish
  \/ \E text \in BOOLEAN : Project(text)

Next ==
  \/ RuntimeStep \/ ModelStep \/ CallStep
  \/ AskToStop
  \/ \E p \in Paths, d \in Contents : Edit(p, d)

(* The event loop runs what is ready; the model and the tools have timeouts.*)
Spec == Init /\ [][Next]_vars /\ WF_vars(RuntimeStep \/ ModelStep \/ CallStep)

----------------------------------------------------------------------------
(* Properties *)

(* What an attempt publishes is true when it is published: a file is        *)
(* advertised with its content on disk, whatever the outcome, and the Run   *)
(* is COMPLETED only if every file its goal asks for is advertised with the *)
(* content of a tool call of this attempt and every outcome asked for has   *)
(* its evidence, whatever another writer does between the verification and  *)
(* the publication.                                                         *)
OutcomeIsTrue ==
  [][pc # "ended" /\ pc' = "ended" =>
       /\ \A p \in Paths : outcome'.files[p] \in {0, disk[p]}
       /\ outcome'.status = "COMPLETED" =>
            /\ request.outcomes \subseteq evidence
            /\ \A p \in request.deliver :
                 record[p] # 0 /\ outcome'.files[p] = record[p]]_vars

(* The transcript answers every call of a turn exactly once and in the      *)
(* order of the model, whatever order the parallel calls finish in.         *)
CallsAnsweredInOrder ==
  pc = "turn" => messages = [k \in 1..Len(turn) |-> k]

(* A tool that may change something runs alone, and never behind an attempt *)
(* that has been left: only safe calls outlive it.                          *)
EffectsRunAlone ==
  \A i \in running : turn[i].tool \notin SafeTools =>
    running = {i} /\ pc = "calls"

(* Once a stop is durable no tool of the executor starts, the loop does not *)
(* ask the model for another turn, and the attempt is not published as      *)
(* completed.  (The call that writes the answer may still be entered; it    *)
(* raises at once.)                                                         *)
StopIsObeyed ==
  [][asked =>
       /\ \A i \in running' \ running : ~Guarded(i)
       /\ pc' = "asking" => pc = "asking"
       /\ outcome'.status # "COMPLETED"]_vars

(* The attempt ends, however long the model goes on calling tools and       *)
(* however often its answer is sent back.                                   *)
AttemptEnds == <>(pc = "ended")

(* ADR-0035: partial files from a failed Task remain visible.  A file with  *)
(* a verified receipt, of a failed call too, that is on disk with that      *)
(* content when the attempt ends, is published.                             *)
PartialFilesRemainVisible ==
  [][pc # "ended" /\ pc' = "ended" /\ ~asked =>
       \A p \in Paths : partial[p] # 0 /\ disk[p] = partial[p] =>
         outcome'.files[p] = disk[p]]_vars
=============================================================================
