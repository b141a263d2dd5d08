-------------------------- MODULE ResumeGateProofs --------------------------
(***************************************************************************)
(* Proofs about ResumeGate, for every sequence of tasks and every set of    *)
(* requests: its types, DoubtNeedsFreshWord and CommittedNeverRepeated.     *)
(***************************************************************************)
EXTENDS ResumeGate, WellFoundedInduction, SequenceTheorems, TLAPS

Checkpoint ==
  [run: {"this"}, target: {"goal"},
   status: {"RUNNING", "SUSPENDED", "WAITING_USER", "FAILED_RECOVERABLE", "COMPLETED"},
   invalidated: {FALSE}, guards: 0..1, bound: SUBSET TaskSet,
   same: {{"schema", "contract", "workflow", "plan"}}, migration: {FALSE},
   active: TaskSet \cup {""}, completed: SUBSET TaskSet,
   effects: [TaskSet -> EffectStates]]

(* The lineage is written in order: the active task is the next one that is *)
(* not completed, and no task behind it has been touched.                   *)
InOrder ==
  /\ c.active = NextTask(c.completed)
  /\ \A t \in TaskSet : t \notin c.completed /\ t # c.active => c.effects[t] = "NONE"

(* What has let the Workflow run over the checkpoint: nothing committed is  *)
(* left to it, and a doubt only with a word given after it was recorded.    *)
Entitled ==
  verdict = "RUN" /\ c.active \in TaskSet =>
    /\ c.effects[c.active] # "COMMITTED"
    /\ c.effects[c.active] \in Uncertain => word > doubted[c.active]

GateInv ==
  /\ GateTypeOK
  /\ c \in Checkpoint
  /\ InOrder
  /\ Entitled
  /\ updated <= now /\ \A t \in TaskSet : doubted[t] <= updated

----------------------------------------------------------------------------
(* The tables *)

(* Neither the request's standing nor its evidence lets it through: what    *)
(* passes is what the action's own table allows.                            *)
LEMMA StandingNeverAllows == \A d, x : StandingVerdict(d, x) # "ALLOW"
BY DEF StandingVerdict, Refuse, ++

(* The guards of validate_resume only refuse.                               *)
LEMMA GuardsNeverAllow == \A d, x : GuardVerdict(d, x) # "ALLOW"
BY DEF GuardVerdict, LooseGuards, BoundGuards, Refuse, ++

(* What validate_resume has checked when it allows a resume.                *)
LEMMA ResumeAllowed ==
  ASSUME NEW d, NEW x, validate_resume(d, x) = "ALLOW", x.action # "ABANDON"
  PROVE  ~CommittedUnmarked(d) /\ ActionVerdict(d, x) = "ALLOW"
<1>1. (StandingVerdict(d, x) ++ GuardVerdict(d, x)) # "ALLOW"
  BY StandingNeverAllows, GuardsNeverAllow DEF ++
<1>2. CommittedUnmarked(d) \in BOOLEAN
  BY DEF CommittedUnmarked
<1> QED BY <1>1, <1>2 DEF validate_resume, Refuse, ++

(* A request is always answered, one way or another.                        *)
LEMMA AnswerTyped == \A d, x : validate_resume(d, x) \in Verdicts
<1> TAKE d, x
<1>1. StandingVerdict(d, x) \in Verdicts \cup {"PASS"}
  BY DEF StandingVerdict, Refuse, ++, Verdicts
<1>2. GuardVerdict(d, x) \in Verdicts \cup {"PASS"}
  BY DEF GuardVerdict, LooseGuards, BoundGuards, Refuse, ++, Verdicts
<1>3. ConfirmationVerdict(d, x) \in Verdicts \cup {"PASS"}
  BY DEF ConfirmationVerdict, Refuse, ++, Verdicts
<1>4. ContinueVerdict(d, x) \in Verdicts
  BY <1>3 DEF ContinueVerdict, Refuse, ++, Verdicts
<1>5. ActionVerdict(d, x) \in Verdicts
  BY <1>4 DEF ActionVerdict, ReplayVerdict, ReplanVerdict, Refuse, ++, Verdicts
<1> QED BY <1>1, <1>2, <1>5 DEF validate_resume, Refuse, ++, Verdicts

(* An effect in doubt is let through only by a fresh word about it.         *)
LEMMA DoubtAllowed ==
  ASSUME NEW d, NEW x, d.active \in DOMAIN d.effects, d.effects[d.active] \in Uncertain,
         validate_resume(d, x) = "ALLOW", Resumed(AllowedAction(d, x))
  PROVE  x.confirmation \notin {"none", "other", "stale"}
<1>1. d.active \in UncertainTasks(d)
  BY DEF UncertainTasks
<1>2. x.action \notin {"ABANDON", "REPLAN"}
  BY DEF Resumed, AllowedAction, Actions
<1>3. ActionVerdict(d, x) = "ALLOW"
  BY <1>2, ResumeAllowed
<1>4. CASE x.action = "REPLAY"
  <2>1. d.effects[d.active] \notin Replayable
    BY DEF Replayable
  <2> QED BY <1>3, <1>4, <2>1 DEF ActionVerdict, ReplayVerdict, Refuse, ++
<1>5. CASE x.action # "REPLAY"
  <2>1. ContinueVerdict(d, x) = "ALLOW"
    BY <1>2, <1>3, <1>5 DEF ActionVerdict
  <2>2. x.confirmation # "none"
    BY <1>1, <2>1 DEF ContinueVerdict, Refuse, ++
  <2>3. ConfirmationVerdict(d, x) \in {"PASS", "ALLOW"}
    BY <2>1, <2>2 DEF ContinueVerdict, Refuse, ++
  <2> QED BY <2>2, <2>3 DEF ConfirmationVerdict, Refuse, ++
<1> QED BY <1>4, <1>5

----------------------------------------------------------------------------
(* The order of the tasks *)

(* A set of numbers that is not empty has a least one.                      *)
LEMMA LeastExists ==
  ASSUME NEW S, S \subseteq Nat, S # {}
  PROVE  \E i \in S : \A j \in S : i <= j
<1> DEFINE R == OpToRel(<, Nat)
<1>1. IsWellFoundedOn(R, Nat)
  BY NatLessThanWellFounded
<1>2. PICK i \in S : \A j \in S : ~(<<j, i>> \in R)
  <2> HIDE DEF R
  <2> QED BY <1>1, WFMin
<1>3. \A j \in S : ~(j < i)
  BY <1>2 DEF OpToRel
<1> HIDE DEF R
<1> QED BY <1>3

(* The tasks are numbered from 1, and no task has the empty name.           *)
LEMMA TasksTyped ==
  /\ DOMAIN Tasks = 1..Len(Tasks) /\ Len(Tasks) \in Nat
  /\ 1 \in DOMAIN Tasks /\ Tasks[1] \in TaskSet
  /\ DOMAIN Tasks \subseteq Nat
  /\ "" \notin TaskSet
<1> DEFINE Names == STRING \ {""}
<1>1. Tasks \in Seq(Names) /\ Tasks # <<>> /\ "" \notin Names
  BY GateAssumption
<1> HIDE DEF Names
<1>2. DOMAIN Tasks = 1..Len(Tasks) /\ Len(Tasks) \in Nat \ {0}
  BY <1>1, LenProperties, EmptySeq
<1>3. 1 \in DOMAIN Tasks
  BY <1>2
<1>4. \A i \in DOMAIN Tasks : Tasks[i] # ""
  BY <1>1, <1>2, ElementOfSeq
<1>5. \A n \in Nat : 1..n \subseteq Nat
  OBVIOUS
<1> QED BY <1>2, <1>3, <1>4, <1>5 DEF TaskSet

(* The next task is one that is left, or there is none.                     *)
LEMMA NextIsLeft ==
  ASSUME NEW done
  PROVE  \/ NextTask(done) \in TaskSet \ done
         \/ NextTask(done) = "" /\ TaskSet \subseteq done
<1> DEFINE left == {i \in DOMAIN Tasks : Tasks[i] \notin done}
<1>1. CASE left = {}
  BY <1>1 DEF NextTask, TaskSet
<1>2. CASE left # {}
  <2> DEFINE P(i) == i \in left /\ \A j \in left : i <= j
  <2>1. left \subseteq Nat
    BY TasksTyped, Zenon
  <2>2. \E i : P(i)
    <3> HIDE DEF left
    <3> QED BY <1>2, <2>1, LeastExists
  <2>3. NextTask(done) = Tasks[CHOOSE i : P(i)]
    BY <1>2 DEF NextTask
  <2>4. P(CHOOSE i : P(i))
    <3> HIDE DEF P
    <3> QED BY <2>2, Zenon
  <2>5. (CHOOSE i : P(i)) \in left
    BY <2>4
  <2> QED BY <2>3, <2>5 DEF TaskSet
<1> QED BY <1>1, <1>2

----------------------------------------------------------------------------
(* The lineage *)

(* The recorder writes effect states only.                                  *)
LEMMA EffectsTyped ==
  EffectAfter(TRUE) \cup EffectAfter(FALSE) \subseteq EffectStates
BY DEF EffectAfter, EffectStates

(* What the steps below need of the types.                                  *)
LEMMA InvTyped ==
  ASSUME GateInv
  PROVE  /\ c \in Checkpoint /\ now \in Nat /\ updated \in Nat /\ word \in Nat
         /\ now <= MaxTime /\ updated <= MaxTime /\ word <= MaxTime /\ MaxTime \in Nat
         /\ doubted \in [TaskSet -> 0..MaxTime] /\ executed \in [TaskSet -> BOOLEAN]
         /\ verdict \in Verdicts \cup {"none", "RUN"}
<1>1. now \in 0..MaxTime /\ updated \in 0..MaxTime /\ word \in 0..MaxTime /\ MaxTime \in Nat
  BY GateAssumption DEF GateInv, GateTypeOK
<1>2. /\ now \in Nat /\ updated \in Nat /\ word \in Nat
      /\ now <= MaxTime /\ updated <= MaxTime /\ word <= MaxTime
  BY <1>1
<1>3. /\ c \in Checkpoint
      /\ doubted \in [TaskSet -> 0..MaxTime] /\ executed \in [TaskSet -> BOOLEAN]
      /\ verdict \in Verdicts \cup {"none", "RUN"}
  BY Zenon DEF GateInv, GateTypeOK
<1> QED BY <1>1, <1>2, <1>3

(* A stage that succeeds or fails keeps GateInv.                            *)
LEMMA StageSteps ==
  ASSUME GateInv, NEW t \in TaskSet, StageSucceeds(t) \/ StageFails(t)
  PROVE  GateInv'
<1>0. /\ t = NextTask(c.completed) /\ verdict = "RUN" /\ c.active = t
      /\ executed' = [executed EXCEPT ![t] = ~@]
      /\ t \notin c.completed
  <2>1. t = NextTask(c.completed) /\ verdict = "RUN" /\ executed' = [executed EXCEPT ![t] = ~@]
    BY DEF StageSucceeds, StageFails, Executes
  <2> QED BY <2>1, NextIsLeft, TasksTyped DEF GateInv, InOrder
<1>1. /\ c \in Checkpoint /\ executed' \in [TaskSet -> BOOLEAN]
      /\ c.completed \in SUBSET TaskSet /\ c.effects \in [TaskSet -> EffectStates]
  BY <1>0, InvTyped DEF Checkpoint
<1>2. CASE StageSucceeds(t)
  <2> DEFINE done == c.completed \cup {t}
  <2>1. PICK effect \in EffectAfter(TRUE) :
          Record([c EXCEPT !.completed = done, !.active = NextTask(done),
                           !.effects[t] = effect,
                           !.status = IF NextTask(done) = "" THEN "COMPLETED" ELSE @])
    BY <1>2 DEF StageSucceeds
  <2> DEFINE effects == [c.effects EXCEPT ![t] = effect]
  <2>2. effects \in [TaskSet -> EffectStates]
    BY <1>1, EffectsTyped
  <2>3. NextTask(done) \in TaskSet \cup {""} /\ done \in SUBSET TaskSet
    BY <1>1, NextIsLeft
  <2>4. /\ c' \in Checkpoint /\ c'.completed = done /\ c'.active = NextTask(done)
        /\ c'.effects = effects /\ now' = now + 1 /\ updated' = now'
    <3>1. c' = [c EXCEPT !.completed = done, !.active = NextTask(done), !.effects = effects,
                         !.status = IF NextTask(done) = "" THEN "COMPLETED" ELSE @]
      BY <2>1 DEF Record
    <3> HIDE DEF done, effects
    <3> QED BY <1>1, <2>1, <2>2, <2>3, <3>1 DEF Record, Checkpoint
  <2>5. now < MaxTime /\ verdict' \in {"none", "RUN"} /\ UNCHANGED <<word, doubted>>
    BY <1>2, <2>1 DEF StageSucceeds, Record
  <2>6. GateTypeOK'
    <3>1. {now', updated', word'} \subseteq 0..MaxTime
      BY <2>4, <2>5, InvTyped
    <3>2. verdict' \in Verdicts \cup {"none", "RUN"} /\ doubted' \in [TaskSet -> 0..MaxTime]
      BY <2>5, InvTyped
    <3> QED BY <1>1, <2>4, <3>1, <3>2 DEF GateTypeOK, Checkpoint
  <2>7. InOrder'
    <3>1. ASSUME NEW u \in TaskSet, u \notin done, u # NextTask(done)
          PROVE  effects[u] = "NONE"
      BY <1>0, <1>1, <3>1 DEF GateInv, InOrder
    <3> HIDE DEF done, effects
    <3> QED BY <2>4, <3>1 DEF InOrder
  <2>8. Entitled'
    <3>1. ASSUME NextTask(done) \in TaskSet
          PROVE  effects[NextTask(done)] = "NONE"
      <4>1. NextTask(done) \notin done
        BY <3>1, NextIsLeft, TasksTyped
      <4> QED BY <1>0, <1>1, <3>1, <4>1 DEF GateInv, InOrder
    <3>2. "NONE" # "COMMITTED" /\ "NONE" \notin Uncertain
      BY DEF Uncertain
    <3> HIDE DEF done, effects
    <3> QED BY <2>4, <3>1, <3>2 DEF Entitled
  <2>9. updated' <= now' /\ \A u \in TaskSet : doubted'[u] <= updated'
    <3>1. \A u \in TaskSet : doubted[u] \in Nat /\ doubted[u] <= updated /\ updated <= now
      BY InvTyped DEF GateInv
    <3> QED BY <2>4, <2>5, <3>1, InvTyped
  <2> QED BY <2>4, <2>6, <2>7, <2>8, <2>9 DEF GateInv
<1>3. CASE StageFails(t)
  <2>1. PICK effect \in EffectAfter(FALSE) :
          /\ Record([c EXCEPT !.active = t, !.effects[t] = effect,
                              !.status = StatusAfterFailure(effect)])
          /\ doubted' = IF effect \in Uncertain THEN [doubted EXCEPT ![t] = now'] ELSE doubted
    BY <1>3 DEF StageFails
  <2> DEFINE effects == [c.effects EXCEPT ![t] = effect]
  <2>2. effects \in [TaskSet -> EffectStates]
    BY <1>1, EffectsTyped
  <2>3. /\ c' \in Checkpoint /\ c'.completed = c.completed /\ c'.active = t
        /\ c'.effects = effects /\ now' = now + 1 /\ updated' = now'
    <3>1. c' = [c EXCEPT !.active = t, !.effects = effects, !.status = StatusAfterFailure(effect)]
      BY <2>1 DEF Record
    <3>2. StatusAfterFailure(effect) \in {"WAITING_USER", "FAILED_RECOVERABLE"}
      BY DEF StatusAfterFailure
    <3> HIDE DEF effects
    <3> QED BY <1>1, <2>1, <2>2, <3>1, <3>2 DEF Record, Checkpoint
  <2>4. now < MaxTime /\ verdict' = "none" /\ UNCHANGED word
    BY <1>3, <2>1 DEF StageFails, Record
  <2>5. doubted' \in [TaskSet -> 0..MaxTime] /\ updated' <= now'
        /\ \A u \in TaskSet : doubted'[u] <= now'
    <3>1. now' \in 0..MaxTime
      BY <2>3, <2>4, InvTyped
    <3>2. \A u \in TaskSet : doubted[u] \in Nat /\ doubted[u] <= updated /\ updated <= now
      BY InvTyped DEF GateInv
    <3>3. \A u \in TaskSet : doubted[u] <= now'
      BY <2>3, <3>2, InvTyped
    <3>4. doubted' \in [TaskSet -> 0..MaxTime]
      BY <2>1, <3>1, InvTyped
    <3>5. \A u \in TaskSet : doubted'[u] \in {doubted[u], now'}
      BY <2>1, InvTyped
    <3> QED BY <2>3, <3>1, <3>3, <3>4, <3>5
  <2>6. GateTypeOK'
    <3>1. {now', updated', word'} \subseteq 0..MaxTime
      BY <2>3, <2>4, InvTyped
    <3> QED BY <1>1, <2>3, <2>4, <2>5, <3>1 DEF GateTypeOK, Checkpoint
  <2>7. InOrder'
    <3>1. ASSUME NEW u \in TaskSet, u \notin c.completed, u # t
          PROVE  effects[u] = "NONE"
      BY <1>0, <1>1, <3>1 DEF GateInv, InOrder
    <3> HIDE DEF effects
    <3> QED BY <1>0, <2>3, <3>1 DEF InOrder
  <2> QED BY <2>3, <2>4, <2>5, <2>6, <2>7 DEF GateInv, Entitled
<1> QED BY <1>2, <1>3

(* A request changes nothing of the effects; it lets the Workflow run on    *)
(* only where that is not a repetition of what may have happened.           *)
LEMMA AskSteps ==
  ASSUME GateInv, NEW x \in Requests, NEW checked \in 0..now, Ask(x, checked)
  PROVE  GateInv'
<1> DEFINE facts == RequestFacts(x, checked)
           answer == validate_resume(c, facts)
           runs == answer = "ALLOW" /\ Resumed(AllowedAction(c, facts))
<1>1. /\ word' = (IF runs /\ x.confirmation = "bound" THEN checked ELSE 0)
      /\ verdict' = IF runs THEN "RUN" ELSE answer
      /\ UNCHANGED <<executed, doubted>>
  BY DEF Ask
<1>2. \/ ~runs /\ UNCHANGED <<c, updated, now>>
      \/ /\ now < MaxTime /\ now' = now + 1 /\ updated' = now'
         /\ \E s \in {"RUNNING", "WAITING_USER"} : c' = [c EXCEPT !.status = s]
  BY DEF Ask, Record
<1>3. answer \in Verdicts
  BY AnswerTyped
<1>4. /\ c \in Checkpoint /\ UNCHANGED <<executed, doubted>>
      /\ c' \in Checkpoint /\ c'.completed = c.completed /\ c'.active = c.active
      /\ c'.effects = c.effects
  <2>1. c \in Checkpoint
    BY InvTyped
  <2> QED BY <1>1, <1>2, <2>1 DEF Checkpoint
<1>5. /\ now' \in 0..MaxTime /\ updated' \in 0..MaxTime /\ word' \in 0..MaxTime
      /\ updated' <= now' /\ updated <= updated'
  <2>1. checked \in 0..MaxTime
    BY InvTyped
  <2> HIDE DEF runs, answer
  <2>2. word' \in 0..MaxTime
    BY <1>1, <2>1, InvTyped
  <2> QED BY <1>2, <2>2, InvTyped DEF GateInv
<1>6. GateTypeOK'
  <2>1. verdict' \in Verdicts \cup {"none", "RUN"}
    BY <1>1, <1>3
  <2> HIDE DEF runs, answer
  <2> QED BY <1>1, <1>4, <1>5, <2>1, InvTyped DEF GateTypeOK, Checkpoint
<1>7. InOrder'
  <2> HIDE DEF runs, answer
  <2> QED BY <1>4 DEF GateInv, InOrder
<1>8. Entitled'
  <2> SUFFICES ASSUME runs, c.active \in TaskSet
               PROVE  /\ c.effects[c.active] # "COMMITTED"
                      /\ c.effects[c.active] \in Uncertain => word' > doubted[c.active]
    BY <1>1, <1>3, <1>4 DEF Entitled, Verdicts
  <2>1. c.effects[c.active] # "COMMITTED"
    <3>1. facts.action # "ABANDON"
      BY DEF Resumed, AllowedAction, Actions
    <3>2. ~CommittedUnmarked(c)
      BY <3>1, ResumeAllowed
    <3>3. c.active \notin c.completed
      <4> HIDE DEF runs, answer, facts
      <4>1. c.active = NextTask(c.completed)
        BY DEF GateInv, InOrder
      <4> QED BY <4>1, NextIsLeft, TasksTyped
    <3> QED BY <3>2, <3>3 DEF CommittedUnmarked
  <2>2. ASSUME c.effects[c.active] \in Uncertain
        PROVE  word' > doubted[c.active]
    <3>1. c.active \in DOMAIN c.effects
      BY <1>4 DEF Checkpoint
    <3>2. facts.confirmation \notin {"none", "other", "stale"}
      BY <2>2, <3>1, DoubtAllowed
    <3>3. /\ x.confirmation \in {"none", "other", "bound"}
          /\ facts.confirmation = IF x.confirmation = "bound"
                                  THEN IF checked > updated THEN "fresh" ELSE "stale"
                                  ELSE x.confirmation
      <4> HIDE DEF runs, answer
      <4>1. /\ x.confirmation \in {"none", "other", "bound"}
            /\ DOMAIN x = {"versioned", "runs", "target", "stages", "permitted", "stray",
                           "idempotent", "observed", "action", "confirmation"}
        BY GateAssumption
      <4> QED BY <4>1 DEF RequestFacts
    <3>4. word' = checked /\ checked > updated
      BY <1>1, <3>2, <3>3
    <3> HIDE DEF runs, answer, facts
    <3> QED BY <3>4, InvTyped DEF GateInv
  <2> QED BY <2>1, <2>2
<1>9. \A t \in TaskSet : doubted'[t] <= updated'
  <2> HIDE DEF runs, answer
  <2>1. \A t \in TaskSet : doubted[t] \in Nat /\ doubted[t] <= updated
    BY InvTyped DEF GateInv
  <2> QED BY <1>4, <1>5, <2>1, InvTyped
<1> HIDE DEF runs, answer, facts
<1> QED BY <1>4, <1>5, <1>6, <1>7, <1>8, <1>9 DEF GateInv

(* GateInv is inductive.                                                    *)
LEMMA GateInvNext ==
  ASSUME GateInv, [GateNext]_gateVars
  PROVE  GateInv'
<1>1. CASE \E t \in TaskSet : StageSucceeds(t) \/ StageFails(t)
  BY <1>1, StageSteps
<1>2. CASE \E x \in Requests, checked \in 0..now : Ask(x, checked)
  BY <1>2, AskSteps
<1>3. CASE StopsShort \/ Tick \/ UNCHANGED gateVars
  <2>1. /\ UNCHANGED <<c, updated, word, executed, doubted>>
        /\ now' \in 0..MaxTime /\ updated <= now' /\ verdict' \in {verdict, "none"}
    BY <1>3, InvTyped DEF StopsShort, Tick, gateVars, GateInv
  <2> QED BY <2>1 DEF GateInv, GateTypeOK, InOrder, Entitled
<1> QED BY <1>1, <1>2, <1>3 DEF GateNext

(* GateInv holds before the first stage.                                    *)
LEMMA GateInvInit == GateInit => GateInv
<1> SUFFICES ASSUME GateInit
             PROVE  GateInv
  OBVIOUS
<1>1. PICK guards \in 0..1, bound \in {{}, TaskSet} :
        c = [run |-> "this", target |-> "goal", status |-> "RUNNING",
             invalidated |-> FALSE, guards |-> guards, bound |-> bound,
             same |-> {"schema", "contract", "workflow", "plan"}, migration |-> FALSE,
             active |-> Tasks[1], completed |-> {},
             effects |-> [t \in TaskSet |-> "NONE"]]
  BY DEF GateInit
<1>2. /\ c \in Checkpoint /\ c.active = Tasks[1] /\ c.completed = {}
      /\ \A t \in TaskSet : c.effects[t] = "NONE"
  BY <1>1, TasksTyped DEF Checkpoint, EffectStates
<1>3. /\ updated = 0 /\ now = 0 /\ word = 0 /\ verdict = "RUN"
      /\ executed = [t \in TaskSet |-> FALSE] /\ doubted = [t \in TaskSet |-> 0]
  BY DEF GateInit
<1>7. 0 \in 0..MaxTime
  <2>1. MaxTime \in Nat
    BY GateAssumption, Zenon
  <2> QED BY <2>1
<1>4. GateTypeOK
  BY <1>2, <1>3, <1>7 DEF GateTypeOK, Checkpoint
<1>5. NextTask({}) = Tasks[1]
  <2>1. NextTask({}) = Tasks[CHOOSE i \in DOMAIN Tasks : \A j \in DOMAIN Tasks : i <= j]
    <3>1. {i \in DOMAIN Tasks : Tasks[i] \notin {}} = DOMAIN Tasks
      OBVIOUS
    <3> QED BY <3>1, TasksTyped DEF NextTask
  <2> DEFINE P(i) == i \in DOMAIN Tasks /\ \A j \in DOMAIN Tasks : i <= j
  <2>2. P(1) /\ \A i : P(i) => i = 1
    <3>1. PICK n \in Nat : DOMAIN Tasks = 1..n /\ 1 \in DOMAIN Tasks
      BY TasksTyped
    <3>2. \A i \in 1..n : 1 <= i /\ (i <= 1 => i = 1)
      OBVIOUS
    <3> QED BY <3>1, <3>2
  <2>3. (CHOOSE i : P(i)) = 1
    <3> HIDE DEF P
    <3>1. P(CHOOSE i : P(i))
      BY <2>2, Zenon
    <3> QED BY <2>2, <3>1
  <2> QED BY <2>1, <2>3
<1>6. "NONE" # "COMMITTED" /\ "NONE" \notin Uncertain
  BY DEF Uncertain
<1> QED BY <1>2, <1>3, <1>4, <1>5, <1>6 DEF GateInv, InOrder, Entitled

(* GateInv holds in every reachable state.                                  *)
LEMMA GateInvariant == GateSpec => []GateInv
<1>1. GateInit => GateInv
  BY GateInvInit
<1>2. GateInv /\ [GateNext]_gateVars => GateInv'
  BY GateInvNext
<1> QED BY <1>1, <1>2, PTL DEF GateSpec

(* Only an execution flips the bit of a task, and only of the active one.   *)
LEMMA RepeatsIsExecution ==
  ASSUME GateInv, [GateNext]_gateVars, NEW t \in TaskSet, Repeats(t)
  PROVE  verdict = "RUN" /\ t = c.active
<1>1. PICK u \in TaskSet : StageSucceeds(u) \/ StageFails(u)
  BY DEF GateNext, StopsShort, Ask, Tick, gateVars, Repeats
<1>2. /\ verdict = "RUN" /\ u = NextTask(c.completed)
      /\ executed' = [executed EXCEPT ![u] = ~@]
  BY <1>1 DEF StageSucceeds, StageFails, Executes
<1>3. t = u
  BY <1>2, InvTyped DEF Repeats
<1> QED BY <1>2, <1>3 DEF GateInv, InOrder

----------------------------------------------------------------------------
(* Clock, checkpoint and verdict keep their types over any lineage of       *)
(* resumes.                                                                 *)
THEOREM GateTypeCorrect == GateSpec => []GateTypeOK
<1>1. GateInv => GateTypeOK
  BY DEF GateInv
<1> QED BY <1>1, GateInvariant, PTL

(* A task in doubt is executed again only on a word that was given after    *)
(* the doubt was recorded: for every list of tasks and whatever is asked.   *)
THEOREM DoubtNeedsFreshWordProved == GateSpec => DoubtNeedsFreshWord
<1>1. GateInv /\ [GateNext]_gateVars =>
        [\A t \in TaskSet :
           (Repeats(t) /\ c.effects[t] \in Uncertain) => word > doubted[t]]_gateVars
  BY RepeatsIsExecution DEF GateInv, Entitled
<1> QED BY <1>1, GateInvariant, PTL DEF GateSpec, DoubtNeedsFreshWord

(* An effect recorded as committed is never executed again.                 *)
THEOREM CommittedNeverRepeatedProved == GateSpec => CommittedNeverRepeated
<1>1. GateInv /\ [GateNext]_gateVars =>
        [\A t \in TaskSet : Repeats(t) => c.effects[t] # "COMMITTED"]_gateVars
  BY RepeatsIsExecution DEF GateInv, Entitled
<1> QED BY <1>1, GateInvariant, PTL DEF GateSpec, CommittedNeverRepeated
=============================================================================
