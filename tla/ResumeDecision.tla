--------------------------- MODULE ResumeDecision ---------------------------
(***************************************************************************)
(* The two deterministic tables a resume request passes before anything    *)
(* runs: RunResumeResolver.resolve (agent/run_resume/resolver.py), which   *)
(* looks at the Run index, and validate_resume                             *)
(* (agent/checkpoint/validator.py), which looks at the checkpoint and at   *)
(* the evidence the caller brings.                                         *)
(*                                                                         *)
(* A table is a list of refusals joined by ++ : the first one that applies *)
(* is the verdict.  The reason codes are left out; the caller acts on the  *)
(* disposition alone.                                                      *)
(***************************************************************************)
EXTENDS Naturals, Sequences, FiniteSets

Actions == {"EXACT", "REPLAY", "REPLAN", "ABANDON"}
Verdicts == {"ALLOW", "CLARIFY", "REJECT"}

EffectStates == {"NONE", "STARTED", "COMMITTED", "FAILED_AFTER_COMMIT", "UNKNOWN"}
Uncertain == {"UNKNOWN", "STARTED", "FAILED_AFTER_COMMIT"}
Replayable == EffectStates \ ({"COMMITTED"} \cup Uncertain)
TerminalCheckpoints == {"COMPLETED", "CANCELLED", "FAILED_TERMINAL"}

Refuse(condition, verdict) == IF condition THEN verdict ELSE "PASS"
first ++ next == IF first = "PASS" THEN next ELSE first

----------------------------------------------------------------------------
(* Evidence about external state.  An observation is named for what it      *)
(* says of the guard at its position: "missing" and "unknown" for its own   *)
(* status, "unasked" for a guard without an expected value, "stale" for a   *)
(* time that is not after the checkpoint's, "other" for a different         *)
(* expectation or value.                                                    *)

Unsettled == {"missing", "unknown", "unasked", "stale"}
Contradicting == {"mismatch", "other"}
Observations == {"verified"} \cup Unsettled \cup Contradicting

(* The guards are read in the checkpoint's order and the first that is not  *)
(* verified decides.                                                        *)
BoundGuards(observed) ==
  LET open == {i \in DOMAIN observed : observed[i] # "verified"}
      i    == CHOOSE j \in open : \A k \in open : j <= k
  IN IF open = {} THEN "PASS"
     ELSE IF observed[i] \in Contradicting THEN "REJECT" ELSE "CLARIFY"

(* A checkpoint without guards: any contradiction, then any doubt.          *)
LooseGuards(observed) ==
  LET said == {observed[i] : i \in DOMAIN observed}
  IN Refuse("mismatch" \in said, "REJECT") ++
     Refuse(said \cap {"missing", "unknown"} # {}, "CLARIFY")

GuardVerdict(c, x) ==
  IF c.guards = 0 THEN LooseGuards(x.observed)
  ELSE Refuse(x.observed = <<>>, "CLARIFY") ++
       Refuse(x.stray, "REJECT") ++
       BoundGuards(x.observed)

----------------------------------------------------------------------------
(* assess_compatibility: c.same says which of the checkpoint's versions     *)
(* are the current ones, c.migration that a workflow migration is known.    *)

PlanSame(c)      == {"workflow", "plan"} \subseteq c.same
ReplanAllowed(c) == "workflow" \in c.same \/ c.migration

(* The effects that block a resume, and the one no_effect_confirmation that *)
(* may lift one: it names the task, the key and the reference of the only   *)
(* uncertain effect, and was checked after the checkpoint was written.      *)
UncertainTasks(c) == {t \in DOMAIN c.effects : c.effects[t] \in Uncertain}

ConfirmationTakenOnTrust(c, x) ==
  Refuse(UncertainTasks(c) = {}, "REJECT") ++
  Refuse(UncertainTasks(c) # {c.active}, "CLARIFY") ++
  Refuse(c.active \notin c.bound, "CLARIFY") ++
  Refuse(x.confirmation = "other", "REJECT")
ConfirmationVerdict(c, x) ==
  Refuse(UncertainTasks(c) = {}, "REJECT") ++
  Refuse(UncertainTasks(c) # {c.active}, "CLARIFY") ++
  Refuse(c.active \notin c.bound, "CLARIFY") ++
  Refuse(x.confirmation = "other", "REJECT") ++
  Refuse(x.confirmation = "stale", "CLARIFY")

(* What each action has to pass once the checkpoint itself is in order.  An *)
(* absent action is EXACT when the versions allow it and REPLAN otherwise.  *)
ReplayVerdict(c, x) ==
  Refuse(~PlanSame(c), "REJECT") ++
  Refuse(~x.idempotent, "REJECT") ++
  Refuse(c.effects[c.active] \notin Replayable, "REJECT") ++
  "ALLOW"

ReplanVerdict(c) ==
  Refuse(~ReplanAllowed(c), "REJECT") ++
  Refuse(UncertainTasks(c) # {}, "CLARIFY") ++
  "ALLOW"

ContinueVerdict(c, x) ==
  Refuse(IF x.action = "EXACT" THEN ~PlanSame(c)
         ELSE ~PlanSame(c) /\ ~ReplanAllowed(c), "REJECT") ++
  (IF x.confirmation # "none" THEN ConfirmationVerdict(c, x)
   ELSE Refuse(UncertainTasks(c) # {}, "CLARIFY")) ++
  "ALLOW"

ActionVerdict(c, x) ==
  CASE x.action = "REPLAY" -> ReplayVerdict(c, x)
    [] x.action = "REPLAN" -> ReplanVerdict(c)
    [] OTHER               -> ContinueVerdict(c, x)

(* The request against the checkpoint's identity and standing.  x.versioned *)
(* says that the context names a workflow, its version and a plan version.  *)
(* A checkpoint without a stage or a target to go back to, which is         *)
(* rejected too, is never written by the recorder and is left out.          *)
StandingVerdict(c, x) ==
  Refuse(~x.versioned, "REJECT") ++
  Refuse(Cardinality(x.runs) > 1, "CLARIFY") ++
  Refuse(x.runs # {} /\ c.run \notin x.runs, "REJECT") ++
  Refuse(x.target \notin {"none", c.target}, "CLARIFY") ++
  Refuse(c.status \in TerminalCheckpoints, "REJECT") ++
  Refuse(c.invalidated, "REJECT") ++
  Refuse(~x.permitted, "REJECT")

(* A committed effect of a task that is not marked completed.               *)
CommittedNeverUnmarked(c) == FALSE
CommittedUnmarked(c) == c.effects[c.active] = "COMMITTED" /\ c.active \notin c.completed

validate_resume(c, x) ==
  StandingVerdict(c, x) ++
  GuardVerdict(c, x) ++
  Refuse(~({"schema", "contract"} \subseteq c.same), "REJECT") ++
  Refuse(x.confirmation # "none" /\ x.action # "EXACT", "REJECT") ++
  Refuse(x.action = "ABANDON", "ALLOW") ++
  Refuse(CommittedUnmarked(c), IF x.action = "REPLAY" THEN "REJECT" ELSE "CLARIFY") ++
  Refuse(~ReplanAllowed(c), "REJECT") ++
  Refuse(~(x.stages \subseteq {c.active}), "REJECT") ++
  ActionVerdict(c, x)

(* The action a positive verdict carries.                                   *)
AllowedAction(c, x) ==
  IF x.action \in Actions THEN x.action
  ELSE IF PlanSame(c) THEN "EXACT" ELSE "REPLAN"

----------------------------------------------------------------------------
(* RunResumeResolver.resolve over the Run index: ix.active is the active    *)
(* Workflow's summary; ix.upstream says what is wrong with the artifacts    *)
(* and Workflows it needs.                                                  *)

resolve(ix, x, deferEffects) ==
  Refuse(x.runs # {} /\ ix.run \notin x.runs, "REJECT") ++
  Refuse(Cardinality(x.runs) > 1, "CLARIFY") ++
  Refuse(ix.workflow = "none", "REJECT") ++
  Refuse(ix.checkpoint # ix.activeCheckpoint, "REJECT") ++
  Refuse(x.workflow \notin {"none", ix.workflow}, "CLARIFY") ++
  Refuse(x.checkpoint \notin {0, ix.checkpoint}, "REJECT") ++
  Refuse(~ix.versionCurrent, "REJECT") ++
  Refuse(ix.upstream # "ready", "REJECT") ++
  Refuse(/\ ix.effect \in Uncertain \cup {"COMMITTED"}
         /\ ~(deferEffects /\ ix.effect # "COMMITTED"), "CLARIFY") ++
  Refuse(x.action = "REPLAY" /\ ~ix.idempotent, "REJECT") ++
  "ALLOW"

(* RunResumeCoordinator.resume_active: a confirmation for an exact resume   *)
(* of the current checkpoint leaves the effects to the validator.           *)
DefersEffects(ix, x) ==
  /\ x.confirmation # "none"
  /\ x.action = "EXACT"
  /\ ix.checkpoint # 0
  /\ x.checkpoint \in {0, ix.checkpoint}
=============================================================================
