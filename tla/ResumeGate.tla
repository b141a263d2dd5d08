----------------------------- MODULE ResumeGate -----------------------------
(***************************************************************************)
(* One Workflow whose tasks have effects outside the Run, resumed again    *)
(* and again over one checkpoint lineage: the resume tables decide, the    *)
(* CheckpointRecorder (agent/checkpoint/recorder.py) writes what happened, *)
(* and the next request meets the checkpoint that left behind.  A clock    *)
(* stands for the time stamps the tables compare.                          *)
(***************************************************************************)
EXTENDS ResumeDecision

CONSTANTS
  Tasks,     \* a sequence: the order the stages run in
  Idempotent, \* the tasks whose stage is declared idempotent
  Requests,  \* what callers ask for; the age of a confirmation is left to Ask
  MaxTime    \* bound on the clock

TaskSet == {Tasks[i] : i \in DOMAIN Tasks}

ASSUME GateAssumption ==
  /\ Tasks \in Seq(STRING \ {""}) /\ Tasks # <<>>
  /\ \A i, j \in DOMAIN Tasks : Tasks[i] = Tasks[j] => i = j
  /\ Requests \subseteq
       [versioned: BOOLEAN, runs: SUBSET STRING, target: STRING, stages: SUBSET STRING,
        permitted: BOOLEAN, stray: BOOLEAN, idempotent: BOOLEAN,
        observed: Seq(Observations), action: Actions \cup {"none"},
        confirmation: {"none", "other", "bound"}]
  /\ MaxTime \in Nat

VARIABLES
  c,         \* the latest checkpoint of the lineage
  updated,   \* its time stamp
  word,      \* when the confirmation the Workflow runs on was checked; 0
             \* when it runs on none
  verdict,   \* the answer; "RUN" while the Workflow executes
  now,
  executed,  \* a bit for each task that every execution of it flips
  doubted    \* when each task's effect was last recorded as uncertain

gateVars == <<c, updated, word, verdict, now, executed, doubted>>

GateTypeOK ==
  /\ c.effects \in [TaskSet -> EffectStates]
  /\ c.completed \in SUBSET TaskSet
  /\ c.status \in {"RUNNING", "SUSPENDED", "WAITING_USER", "FAILED_RECOVERABLE", "COMPLETED"}
  /\ c.active \in TaskSet \cup {""}
  /\ verdict \in Verdicts \cup {"none", "RUN"}
  /\ {now, updated, word} \subseteq 0..MaxTime
  /\ executed \in [TaskSet -> BOOLEAN]
  /\ doubted \in [TaskSet -> 0..MaxTime]

(* The Workflow is running for the first time: there is a checkpoint and no *)
(* request yet.                                                             *)
GateInit ==
  /\ \E guards \in 0..1, bound \in {{}, TaskSet} :
       c = [run |-> "this", target |-> "goal", status |-> "RUNNING",
            invalidated |-> FALSE, guards |-> guards, bound |-> bound,
            same |-> {"schema", "contract", "workflow", "plan"}, migration |-> FALSE,
            active |-> Tasks[1], completed |-> {},
            effects |-> [t \in TaskSet |-> "NONE"]]
  /\ updated = 0 /\ now = 0
  /\ word = 0
  /\ verdict = "RUN"
  /\ executed = [t \in TaskSet |-> FALSE]
  /\ doubted = [t \in TaskSet |-> 0]

(* A checkpoint written at the next tick.                                   *)
Record(checkpoint) ==
  /\ now < MaxTime
  /\ now' = now + 1
  /\ updated' = now'
  /\ c' = checkpoint
NextTask(done) ==
  LET left == {i \in DOMAIN Tasks : Tasks[i] \notin done}
  IN IF left = {} THEN "" ELSE Tasks[CHOOSE i \in left : \A j \in left : i <= j]

----------------------------------------------------------------------------
(* The stage loop of the WorkflowExecutor: the next task that is not        *)
(* completed runs, and record_stage writes the outcome.                     *)

(* effect_state_for_task over what the executors report: an effect that     *)
(* succeeded is committed and a read has none; a failure says nothing about *)
(* the effect unless the tool was refused before it began; a write that     *)
(* was found already done stays committed when its validator then fails.    *)
EffectAfter(success) ==
  IF success THEN {"COMMITTED", "NONE"} ELSE {"UNKNOWN", "NONE", "COMMITTED"}

StatusAfterFailure(effect) ==
  IF effect \in Uncertain THEN "WAITING_USER" ELSE "FAILED_RECOVERABLE"

Executes(t) ==
  /\ verdict = "RUN"
  /\ t = NextTask(c.completed)
  /\ executed' = [executed EXCEPT ![t] = ~@]

StageSucceeds(t) ==
  /\ Executes(t)
  /\ \E effect \in EffectAfter(TRUE) :
     LET done == c.completed \cup {t}
     IN Record([c EXCEPT !.completed = done, !.active = NextTask(done),
                         !.effects[t] = effect,
                         !.status = IF NextTask(done) = "" THEN "COMPLETED" ELSE @])
  /\ verdict' = IF c'.status = "COMPLETED" THEN "none" ELSE "RUN"
  /\ UNCHANGED <<word, doubted>>

StageFails(t) ==
  /\ Executes(t)
  /\ \E effect \in EffectAfter(FALSE) :
       /\ Record([c EXCEPT !.active = t, !.effects[t] = effect,
                           !.status = StatusAfterFailure(effect)])
       /\ doubted' = IF effect \in Uncertain THEN [doubted EXCEPT ![t] = now'] ELSE doubted
  /\ verdict' = "none"
  /\ UNCHANGED word

(* The worker dies, an interruption is raised before the next stage, or an  *)
(* exception leaves the loop: nothing is recorded.  (A resumed stage whose  *)
(* input is missing is not such a case: it fails with an effect of NONE.)   *)
StopsShort ==
  /\ verdict = "RUN"
  /\ verdict' = "none"
  /\ UNCHANGED <<c, updated, word, now, executed, doubted>>

----------------------------------------------------------------------------
(* A request.  Its confirmation was checked at some time up to now.         *)

RequestFacts(x, checked) ==
  [x EXCEPT !.idempotent = c.active \in Idempotent,
            !.confirmation = IF @ = "bound"
                             THEN IF checked > updated THEN "fresh" ELSE "stale"
                             ELSE @]

(* CheckpointRecorder.resume goes back to RUNNING, by way of SUSPENDED;      *)
(* require_clarification refuses a checkpoint that is at its end.           *)
Resumed(action) == action \in {"EXACT", "REPLAY"}

Ask(x, checked) ==
  LET facts  == RequestFacts(x, checked)
      answer == validate_resume(c, facts)
      runs   == answer = "ALLOW" /\ Resumed(AllowedAction(c, facts))
      asks   == answer = "CLARIFY" /\ c.status \notin TerminalCheckpoints
  IN /\ verdict # "RUN"
     /\ word' = IF runs /\ x.confirmation = "bound" THEN checked ELSE 0
     /\ verdict' = IF runs THEN "RUN" ELSE answer
     /\ IF runs \/ asks
        THEN Record([c EXCEPT !.status = IF runs THEN "RUNNING" ELSE "WAITING_USER"])
        ELSE UNCHANGED <<c, updated, now>>
     /\ UNCHANGED <<executed, doubted>>

(* Time passes; one tick after the last checkpoint is as good as more.      *)
Tick ==
  /\ now = updated /\ now < MaxTime
  /\ now' = now + 1
  /\ UNCHANGED <<c, updated, word, verdict, executed, doubted>>

GateNext ==
  \/ \E t \in TaskSet : StageSucceeds(t) \/ StageFails(t)
  \/ StopsShort
  \/ \E x \in Requests, checked \in 0..now : Ask(x, checked)
  \/ Tick

GateSpec == GateInit /\ [][GateNext]_gateVars

----------------------------------------------------------------------------
(* Properties                                                               *)

Repeats(t) == executed'[t] # executed[t]

(* A task whose effect is in doubt is executed again only on a caller's     *)
(* word that it did not happen, and only if that word was given after the   *)
(* doubt was recorded: an old confirmation cannot be used a second time.    *)
(* (validator.py:610-705 and what the recorder writes in between.)          *)
DoubtNeedsFreshWord ==
  [][\A t \in TaskSet :
       (Repeats(t) /\ c.effects[t] \in Uncertain) =>
         word > doubted[t]]_gateVars

(* An effect that was recorded as committed is never executed again, by any *)
(* sequence of exact resumes, replays and confirmations.                    *)
CommittedNeverRepeated ==
  [][\A t \in TaskSet : Repeats(t) => c.effects[t] # "COMMITTED"]_gateVars
=============================================================================
