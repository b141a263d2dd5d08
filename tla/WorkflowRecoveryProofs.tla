----------------------- MODULE WorkflowRecoveryProofs -----------------------
(***************************************************************************)
(* Proofs about WorkflowRecovery, for every sequence of stages, every set   *)
(* of requests and every number of attempts, retries and calls: its types,  *)
(* DurableFactsAreSettled, FileNeverOverwritten, EffectUnderIntent and      *)
(* CompletionIsDurable.                                                     *)
(***************************************************************************)
EXTENDS WorkflowRecovery, SequenceTheorems, TLAPS

StageSet == DOMAIN Stages

Fact ==
  [status: {"RUNNING", "SUSPENDED", "WAITING_USER", "FAILED_RECOVERABLE", "COMPLETED"},
   stage: 0..Last, verified: BOOLEAN,
   effects: [StageSet -> {"NONE", "COMMITTED", "UNKNOWN"}], done: SUBSET StageSet]

Request ==
  [action: Actions \cup {"none"}, observed: Seq(Observations),
   confirmation: {"none", "other", "stale", "bound"}, checkpoint: Nat]

Job ==
  [pc: Points, first: BOOLEAN, request: Request \cup {"none"}, staged: Seq(Fact),
   stage: 0..Last, version: Versions \cup {"none"}, tries: Nat, calls: Nat,
   verdict: Verdicts \cup {"none", "RAISED", "FINISHED"}, success: BOOLEAN, raced: BOOLEAN]

Works == {"NONE", "PENDING", "RUNNING", "WAITING_USER", "COMPLETED"}

Typed ==
  /\ status \in {"CREATED", "COMPLETED", "FAILED_TERMINAL"} \cup Resumable
  /\ head \in Nat /\ attempts \in 0..MaxAttempts
  /\ index \in [work: Works, revision: Nat, checkpoint: Nat]
  /\ chain \in Seq(Fact)
  /\ ledger \in [Checkpoints -> [state: {"NONE", "PREPARED", "COMMITTED"},
                                 action: Actions \cup {"none", "NONE"}]]
  /\ file \in [FileStages -> Versions \cup {"absent", "theirs"}]
  /\ performed \in [EffectStages -> Nat]
  /\ job \in Job
  /\ job.pc # "idle" => job.request \in Request /\ status = "RUNNING"

(* A verified fact has no effect in doubt, and the effects a fact counts as *)
(* done have happened.                                                      *)
Sound(fact, did) ==
  /\ fact.verified => \A s \in StageSet : fact.effects[s] \notin Uncertain
  /\ \A s \in fact.done \cap EffectStages : did[s] > 0

Fresh(fact) ==
  fact.done = {} /\ fact.verified /\ fact.effects = Initial.effects

(* The durable lineage: verified facts, the last of which the index points  *)
(* to, and that one says either that nothing is done or that all is.        *)
Lineage ==
  /\ status = "CREATED" \/ job.pc = "bootstrap" => index.work = "NONE"
  /\ job.pc = "activate" => index.work = "PENDING"
  /\ index.work \in {"NONE", "PENDING"} <=> Len(chain) = 0
  /\ index.checkpoint = Len(chain)
  /\ \A k \in 1..Len(chain) : chain[k].verified /\ Sound(chain[k], performed)
  /\ Len(chain) > 0 =>
       /\ chain[Len(chain)].status = index.work
       /\ IF index.work = "COMPLETED" THEN chain[Len(chain)].done = StageSet
          ELSE Fresh(chain[Len(chain)])

(* An attempt runs the Workflow from a checkpoint of its own, under an      *)
(* intent that nobody has committed.                                        *)
Staging == {"stage", "executing", "recording", "complete", "finalize"}
Working == {"resolve", "prepare", "validate"} \cup Staging
Underway == job.pc \in Working \/ (job.pc = "tool" /\ job.verdict = "RAISED")

Intents ==
  /\ job.pc \in {"bootstrap", "activate"} => attempts >= 1
  /\ index.work # "COMPLETED" => Len(chain) <= attempts + 1
  /\ Underway => index.work # "COMPLETED" /\ Len(chain) \in 1..attempts
  /\ \A k \in Checkpoints :
       /\ k > Len(chain) => ledger[k].state = "NONE"
       /\ k = Len(chain) => ledger[k].state # "COMMITTED"
  /\ job.pc \in Staging \cup {"validate"} => ledger[Len(chain)].state = "PREPARED"

(* The staged facts: all sound, and all but the last verified; the last     *)
(* counts as done the stages before the one at work.                        *)
Top == job.staged[Len(job.staged)]
StagedFacts ==
  /\ job.pc \notin Staging => Len(job.staged) = 0
  /\ job.pc \in Staging \ {"finalize"} => Len(job.staged) > 0 /\ Top.verified
  /\ \A k \in 1..Len(job.staged) :
       Sound(job.staged[k], performed) /\ (k < Len(job.staged) => job.staged[k].verified)
  /\ Len(job.staged) > 0 => job.verdict \in {"ALLOW", "CLARIFY"}
  /\ job.pc \in {"stage", "executing", "recording"} =>
       job.stage \in StageSet /\ Top.done = 1..job.stage - 1
  /\ job.pc = "complete" => Top.done = StageSet
  /\ job.pc = "finalize" /\ Len(job.staged) > 0 /\ Top.verified =>
       \/ Top.status = "COMPLETED" /\ Top.done = StageSet
       \/ Top.status = "WAITING_USER" /\ Fresh(Top) /\ Len(job.staged) = 1

(* What the attempt holds: a version as soon as a pure stage has succeeded, *)
(* a file it may write, and a result that says what has happened.           *)
Holds ==
  /\ job.pc \in {"stage", "executing"} /\ (\E j \in Kinds("pure") : j < job.stage) =>
       job.version \in Versions
  /\ job.pc = "recording" /\ job.success =>
       /\ (\E j \in Kinds("pure") : j <= job.stage) => job.version \in Versions
       /\ job.stage \in EffectStages => performed[job.stage] > 0
  /\ job.pc = "executing" /\ job.stage \in FileStages /\ ~job.raced =>
       file[job.stage] \in {"absent", job.version}
  /\ job.success =>
       \/ job.pc = "recording"
       \/ job.pc = "finalize" /\ Len(job.staged) > 0 /\ Top.verified /\ Top.status = "COMPLETED"
       \/ job.pc \in {"tool", "deciding"} /\ index.work = "COMPLETED"
  /\ job.verdict = "FINISHED" => index.work = "COMPLETED"

RecoveryInv ==
  /\ Typed /\ Lineage /\ Intents
  /\ StagedFacts /\ Holds

----------------------------------------------------------------------------
(* Stages and facts *)

(* The stages are numbered from 1, each is of one kind, and a file is       *)
(* written by a stage behind a pure one.                                    *)
LEMMA ConstantsTyped ==
  /\ Last \in Nat \ {0} /\ StageSet = 1..Last
  /\ FileStages \subseteq StageSet /\ EffectStages \subseteq StageSet
  /\ Kinds("pure") \subseteq StageSet
  /\ \A i \in StageSet : i \in Nat /\ (i \in Kinds("pure") \/ i \in FileStages \/ i \in EffectStages)
  /\ \A i \in FileStages : i \notin EffectStages /\ i \notin Kinds("pure")
  /\ \A i \in EffectStages : i \notin Kinds("pure")
  /\ \A i \in FileStages : \E j \in Kinds("pure") : j < i
  /\ MaxAttempts \in Nat /\ MaxRetries \in Nat /\ MaxCalls \in Nat
  /\ Requests \subseteq Request
<1>1. /\ Stages \in Seq({"pure", "file", "effect"}) /\ Stages # <<>>
      /\ \A i \in FileStages : \E j \in Kinds("pure") : j < i
      /\ {MaxRetries, MaxAttempts, MaxCalls} \subseteq Nat
      /\ Requests \subseteq Request
  BY RecoveryAssumption, Zenon DEF Request
<1>2. Len(Stages) \in Nat \ {0} /\ DOMAIN Stages = 1..Len(Stages)
  BY <1>1, LenProperties, EmptySeq
<1>3. \A i \in DOMAIN Stages : Stages[i] \in {"pure", "file", "effect"}
  BY <1>1, <1>2, ElementOfSeq
<1>4. \A i \in StageSet : i \in Nat
  BY <1>2 DEF StageSet
<1>5. \A i \in StageSet : i \in Kinds("pure") \/ i \in FileStages \/ i \in EffectStages
  BY <1>3 DEF StageSet, Kinds, FileStages, EffectStages
<1> QED BY <1>1, <1>2, <1>4, <1>5 DEF StageSet, Last, Kinds, FileStages, EffectStages

(* When the first k stages are done, the next one is k + 1, or there is     *)
(* none.                                                                    *)
LEMMA NextInOrder ==
  ASSUME NEW k \in 0..Last
  PROVE  NextStage(1..k) = IF k = Last THEN 0 ELSE k + 1
<1> DEFINE left == DOMAIN Stages \ 1..k
<1>1. Last \in Nat /\ left = k + 1..Last
  <2>1. Last \in Nat /\ DOMAIN Stages = 1..Last
    BY ConstantsTyped DEF StageSet
  <2> QED BY <2>1
<1>2. CASE k = Last
  BY <1>1, <1>2 DEF NextStage
<1>3. CASE k # Last
  <2> DEFINE P(i) == i \in left /\ \A j \in left : i <= j
  <2>1. left # {} /\ NextStage(1..k) = CHOOSE i : P(i)
    BY <1>1, <1>3 DEF NextStage
  <2>2. P(k + 1)
    BY <1>1, <1>3
  <2>3. \A i : P(i) => i = k + 1
    BY <1>1, <1>3
  <2>4. P(CHOOSE i : P(i))
    <3> HIDE DEF P
    <3> QED BY <2>2, Zenon
  <2> HIDE DEF P
  <2> QED BY <1>3, <2>1, <2>3, <2>4
<1> QED BY <1>2, <1>3

(* validate_resume answers with a verdict.                                  *)
LEMMA AnswerTyped == \A d, x : validate_resume(d, x) \in Verdicts
<1> TAKE d, x
<1>1. StandingVerdict(d, x) \in Verdicts \cup {"PASS"}
  BY DEF StandingVerdict, Refuse, ++, Verdicts
<1>2. GuardVerdict(d, x) \in Verdicts \cup {"PASS"}
  BY DEF GuardVerdict, LooseGuards, BoundGuards, Refuse, ++, Verdicts
<1>3. ConfirmationVerdict(d, x) \in Verdicts \cup {"PASS"}
  BY DEF ConfirmationVerdict, Refuse, ++, Verdicts
<1>4. ContinueVerdict(d, x) \in Verdicts
  BY <1>3 DEF ContinueVerdict, Refuse, ++, Verdicts
<1>5. ActionVerdict(d, x) \in Verdicts
  BY <1>4 DEF ActionVerdict, ReplayVerdict, ReplanVerdict, Refuse, ++, Verdicts
<1> QED BY <1>1, <1>2, <1>5 DEF validate_resume, Refuse, ++, Verdicts

(* So does resolve.                                                         *)
LEMMA ResolutionTyped == \A ix, x, defer : resolve(ix, x, defer) \in Verdicts
<1> TAKE ix, x, defer
<1> DEFINE A == Verdicts \cup {"PASS"}
           Whole == Refuse(x.runs # {} /\ ix.run \notin x.runs, "REJECT") ++
                    Refuse(Cardinality(x.runs) > 1, "CLARIFY") ++
                    Refuse(ix.workflow = "none", "REJECT")
           Named == Whole ++
                    Refuse(ix.checkpoint # ix.activeCheckpoint, "REJECT") ++
                    Refuse(x.workflow \notin {"none", ix.workflow}, "CLARIFY") ++
                    Refuse(x.checkpoint \notin {0, ix.checkpoint}, "REJECT")
           Ready == Named ++
                    Refuse(~ix.versionCurrent, "REJECT") ++
                    Refuse(ix.upstream # "ready", "REJECT")
<1>1. Whole \in A
  BY DEF Refuse, ++, Verdicts
<1>2. Named \in A
  <2> HIDE DEF Whole
  <2> QED BY <1>1 DEF Refuse, ++, Verdicts
<1>3. Ready \in A
  <2> HIDE DEF Named
  <2> QED BY <1>2 DEF Refuse, ++, Verdicts
<1>4. resolve(ix, x, defer) =
        Ready ++
        Refuse(/\ ix.effect \in Uncertain \cup {"COMMITTED"}
               /\ ~(defer /\ ix.effect # "COMMITTED"), "CLARIFY") ++
        Refuse(x.action = "REPLAY" /\ ~ix.idempotent, "REJECT") ++
        "ALLOW"
  BY Zenon DEF resolve
<1> HIDE DEF Ready
<1> QED BY <1>3, <1>4 DEF Refuse, ++, Verdicts

(* What the steps below need of the types.                                  *)
LEMMA InvTyped ==
  ASSUME RecoveryInv
  PROVE  /\ Typed
         /\ job.pc \in Points /\ job.first \in BOOLEAN /\ job.request \in Request \cup {"none"}
         /\ job.staged \in Seq(Fact) /\ job.stage \in 0..Last
         /\ job.version \in Versions \cup {"none"} /\ job.tries \in Nat /\ job.calls \in Nat
         /\ job.verdict \in Verdicts \cup {"none", "RAISED", "FINISHED"}
         /\ job.success \in BOOLEAN
         /\ attempts \in Nat /\ attempts <= MaxAttempts
         /\ index.checkpoint = Len(chain) /\ Len(chain) \in Nat /\ Len(job.staged) \in Nat
<1>1. Typed /\ Lineage
  BY DEF RecoveryInv
<1>2. job \in Job /\ attempts \in 0..MaxAttempts /\ chain \in Seq(Fact)
  BY <1>1 DEF Typed
<1>3. job.staged \in Seq(Fact)
  BY <1>2 DEF Job
<1> QED BY <1>1, <1>2, <1>3, ConstantsTyped DEF Job, Lineage

(* The fact the executor works on is the last one staged.                   *)
LEMMA CurrentIsTop ==
  ASSUME RecoveryInv, Len(job.staged) > 0
  PROVE  Current = Top /\ Top \in Fact
BY InvTyped DEF Current, Top

(* An attempt that has staged nothing stands on the durable head of the     *)
(* chain, which is settled.                                                 *)
LEMMA CurrentIsFresh ==
  ASSUME RecoveryInv, Underway, Len(job.staged) = 0
  PROVE  Current = chain[Len(chain)] /\ Current \in Fact /\ Fresh(Current) /\ Sound(Current, performed)
<1>1. index.work # "COMPLETED" /\ Len(chain) \in 1..attempts
  BY DEF RecoveryInv, Intents
<1>2. Current = chain[Len(chain)]
  BY InvTyped DEF Current
<1>3. Len(chain) > 0 /\ Len(chain) \in 1..Len(chain)
  BY <1>1, InvTyped
<1>4. chain[Len(chain)] \in Fact
  BY <1>3, InvTyped DEF Typed
<1> QED BY <1>1, <1>2, <1>3, <1>4 DEF RecoveryInv, Lineage

----------------------------------------------------------------------------
(* Steps that leave the durable lineage alone *)

(* The durable half of the invariant and the half of the attempt meet in    *)
(* what an attempt must know of the lineage to be where it is.              *)
LEMMA JobSteps ==
  ASSUME RecoveryInv, UNCHANGED <<index, chain, ledger>>,
         status' = status \/ status' \in {"COMPLETED", "FAILED_TERMINAL"} \cup Resumable,
         head' \in Nat, attempts' \in 0..MaxAttempts, attempts' >= attempts,
         file' \in [FileStages -> Versions \cup {"absent", "theirs"}],
         performed' \in [EffectStages -> Nat],
         \A s \in EffectStages : performed'[s] >= performed[s],
         job' \in Job,
         job'.pc # "idle" => job'.request \in Request /\ status' = "RUNNING",
         job'.pc = "bootstrap" => index.work = "NONE" /\ attempts' >= 1,
         job'.pc = "activate" => index.work = "PENDING" /\ attempts' >= 1,
         Underway' => index.work # "COMPLETED" /\ Len(chain) \in 1..attempts',
         job'.pc \in Staging \cup {"validate"} => ledger[Len(chain)].state = "PREPARED",
         StagedFacts', Holds'
  PROVE  RecoveryInv'
<1>1. Typed'
  BY DEF RecoveryInv, Typed
<1>2. \A k \in 1..Len(chain) : Sound(chain[k], performed')
  <2>1. SUFFICES ASSUME NEW k \in 1..Len(chain) PROVE Sound(chain[k], performed')
    OBVIOUS
  <2>2. Sound(chain[k], performed) /\ chain' = chain
    BY DEF RecoveryInv, Lineage
  <2>3. \A s \in EffectStages : performed[s] > 0 => performed'[s] > 0
    <3>1. performed \in [EffectStages -> Nat]
      BY DEF RecoveryInv, Typed
    <3> QED BY <3>1
  <2> QED BY <2>2, <2>3 DEF Sound
<1>3. Lineage'
  BY <1>2 DEF RecoveryInv, Lineage, Fresh, Resumable
<1>4. Intents'
  <2>1. attempts \in Nat /\ attempts' \in Nat /\ Len(chain) \in Nat
    BY InvTyped, ConstantsTyped
  <2> QED BY <2>1 DEF RecoveryInv, Intents
<1> QED BY <1>1, <1>3, <1>4 DEF RecoveryInv

(* An attempt that has not begun has its type.                              *)
LEMMA IdleTyped ==
  /\ Idle \in Job /\ Idle.pc = "idle" /\ Len(Idle.staged) = 0 /\ Idle.success = FALSE
  /\ Idle.verdict = "none"
<1>1. 0 \in 0..Last /\ <<>> \in Seq(Fact)
  BY ConstantsTyped
<1> QED BY <1>1 DEF Idle, Job, Points

(* Without a Workflow at work there is nothing staged and nothing held.     *)
LEMMA NothingHeld ==
  ASSUME Len(job'.staged) = 0, job'.pc \notin Staging, job'.success = FALSE,
         job'.verdict = "FINISHED" => index'.work = "COMPLETED"
  PROVE  StagedFacts' /\ Holds'
<1>1. Len(job.staged)' = 0
  OBVIOUS
<1> QED BY <1>1 DEF StagedFacts, Holds, Staging

(* An attempt is begun by a start or a resume.                              *)
LEMMA BeginSteps ==
  ASSUME RecoveryInv, StartAttempt \/ \E request \in Requests : ResumeAttempt(request)
  PROVE  RecoveryInv'
<1>0. /\ head \in Nat /\ attempts \in Nat /\ attempts <= MaxAttempts /\ Len(chain) \in Nat
      /\ index.work \in Works
      /\ file \in [FileStages -> Versions \cup {"absent", "theirs"}]
      /\ performed \in [EffectStages -> Nat]
  BY InvTyped DEF Typed
<1>1. /\ UNCHANGED <<index, chain, ledger, file, performed>>
      /\ status' = "RUNNING" /\ head' = head + 1 /\ attempts' = attempts + 1
      /\ attempts < MaxAttempts
  BY DEF StartAttempt, ResumeAttempt, world
<1>2. /\ head' \in Nat /\ attempts' \in 0..MaxAttempts /\ attempts' >= attempts
      /\ attempts' >= 1
      /\ \A s \in EffectStages : performed'[s] >= performed[s]
  BY <1>0, <1>1, ConstantsTyped
<1> DEFINE Begun ==
      /\ job' \in Job /\ job'.request \in Request /\ Len(job'.staged) = 0
      /\ job'.success = FALSE
      /\ \/ job'.pc = "bootstrap" /\ index.work = "NONE" /\ job'.verdict = "none"
         \/ job'.pc = "activate" /\ index.work = "PENDING" /\ job'.verdict = "none"
         \/ job'.pc = "deciding" /\ job'.verdict = "REJECT"
         \/ job'.pc = "deciding" /\ job'.verdict = "FINISHED" /\ index.work = "COMPLETED"
         \/ /\ job'.pc = "resolve" /\ index.work \in {"RUNNING", "WAITING_USER"}
            /\ job'.verdict = "none"
<1>3. Begun
  <2>1. CASE StartAttempt
    <3> DEFINE q == [action |-> "EXACT", observed |-> <<>>, confirmation |-> "none",
                     checkpoint |-> 0]
    <3>1. q \in Request
      BY DEF Request, Actions
    <3>2. job' = [Idle EXCEPT !.pc = "bootstrap", !.first = TRUE, !.calls = 1, !.request = q]
      BY <2>1 DEF StartAttempt, Step
    <3>3. index.work = "NONE"
      BY <2>1 DEF StartAttempt, RecoveryInv, Lineage
    <3> HIDE DEF q
    <3> QED BY <3>1, <3>2, <3>3, IdleTyped DEF Job, Points
  <2>2. ASSUME NEW request \in Requests, ResumeAttempt(request)
        PROVE  Begun
    <3>1. request \in Request
      BY ConstantsTyped
    <3> DEFINE p == CASE index.work = "PENDING"   -> "activate"
                      [] index.work \in {"NONE", "COMPLETED"} -> "deciding"
                      [] OTHER -> "resolve"
               v == CASE index.work = "NONE"      -> "REJECT"
                      [] index.work = "COMPLETED" -> "FINISHED"
                      [] OTHER -> "none"
    <3>2. job' = [Idle EXCEPT !.pc = p, !.verdict = v, !.request = request]
      BY <2>2 DEF ResumeAttempt, Step
    <3>3. \/ p = "activate" /\ index.work = "PENDING" /\ v = "none"
          \/ p = "deciding" /\ v = "REJECT"
          \/ p = "deciding" /\ v = "FINISHED" /\ index.work = "COMPLETED"
          \/ p = "resolve" /\ index.work \in {"RUNNING", "WAITING_USER"} /\ v = "none"
      BY <1>0 DEF Works
    <3> HIDE DEF p, v
    <3>4. p \in Points /\ v \in Verdicts \cup {"none", "FINISHED"}
      BY <3>3 DEF Points, Verdicts
    <3>5. job' \in Job
      BY <3>1, <3>2, <3>4, IdleTyped DEF Job
    <3> QED BY <3>1, <3>2, <3>3, <3>5, IdleTyped DEF Job
  <2> QED BY <2>1, <2>2
<1>4. Underway' => index.work # "COMPLETED" /\ Len(chain) \in 1..attempts'
  <2>1. SUFFICES ASSUME job'.pc = "resolve", index.work \in {"RUNNING", "WAITING_USER"}
                 PROVE  Len(chain) \in 1..attempts + 1
    BY <1>1, <1>3 DEF Underway, Working, Staging
  <2>2. Len(chain) # 0 /\ Len(chain) <= attempts + 1
    BY <2>1 DEF RecoveryInv, Lineage, Intents
  <2> QED BY <1>0, <2>2
<1>5. StagedFacts' /\ Holds'
  BY <1>1, <1>3, NothingHeld DEF Staging
<1>6. /\ job' \in Job /\ job'.request \in Request
      /\ job'.pc = "bootstrap" => index.work = "NONE"
      /\ job'.pc = "activate" => index.work = "PENDING"
      /\ job'.pc \notin Staging \cup {"validate"}
  BY <1>3 DEF Staging
<1> HIDE DEF Begun
<1>7. /\ UNCHANGED <<index, chain, ledger>> /\ status' \in Resumable
      /\ file' \in [FileStages -> Versions \cup {"absent", "theirs"}]
      /\ performed' \in [EffectStages -> Nat]
  BY <1>0, <1>1 DEF Resumable
<1> QED BY <1>1, <1>2, <1>4, <1>5, <1>6, <1>7, JobSteps

(* A step that only moves the attempt keeps RecoveryInv when the intent     *)
(* it needs is prepared and its stage and facts hold.                       *)
LEMMA PlainSteps ==
  ASSUME RecoveryInv, UNCHANGED <<durable, world, attempts>>,
         job' \in Job,
         job'.pc # "idle" => job.pc # "idle" /\ job'.request = job.request,
         job'.pc \notin {"bootstrap", "activate"},
         Underway' => Underway,
         job'.pc \in Staging \cup {"validate"} => ledger[Len(chain)].state = "PREPARED",
         StagedFacts', Holds'
  PROVE  RecoveryInv'
<1>1. UNCHANGED <<status, head, index, chain, ledger, file, performed, attempts>>
  BY DEF durable, world
<1>2. /\ head \in Nat /\ attempts \in 0..MaxAttempts
      /\ file \in [FileStages -> Versions \cup {"absent", "theirs"}]
      /\ performed \in [EffectStages -> Nat]
      /\ job.pc # "idle" => job.request \in Request /\ status = "RUNNING"
  BY DEF RecoveryInv, Typed
<1>3. /\ \A s \in EffectStages : performed'[s] >= performed[s]
      /\ attempts' >= attempts
  BY <1>1, <1>2, ConstantsTyped
<1>4. Underway' => index.work # "COMPLETED" /\ Len(chain) \in 1..attempts'
  BY <1>1 DEF RecoveryInv, Intents
<1> QED BY <1>1, <1>2, <1>3, <1>4, JobSteps

(* A decision or an exception leaves the attempt with nothing but its       *)
(* verdict.                                                                 *)
LEMMA DecidedTyped ==
  ASSUME RecoveryInv, NEW v \in Verdicts \cup {"RAISED"}
  PROVE  /\ Decided(v) \in Job /\ Decided(v).pc \in {"tool", "deciding"}
         /\ Decided(v).staged = job.staged /\ Decided(v).success = FALSE
         /\ Decided(v).verdict = v /\ Decided(v).request = job.request
<1>1. job \in Job
  BY InvTyped DEF Typed
<1> QED BY <1>1 DEF Decided, Job, Points

(* A crash takes the attempt with it and leaves the durable facts           *)
(* settled.                                                                 *)
LEMMA CrashSteps ==
  ASSUME RecoveryInv, Crash
  PROVE  RecoveryInv'
<1>1. job' = Idle /\ UNCHANGED <<durable, world, attempts>>
  BY DEF Crash, Step
<1>2. StagedFacts' /\ Holds'
  BY <1>1, IdleTyped, NothingHeld DEF Staging
<1>3. ~Underway'
  BY <1>1, IdleTyped DEF Underway, Working, Staging
<1> QED BY <1>1, <1>2, <1>3, IdleTyped, PlainSteps DEF Staging

(* A resume request is resolved against the durable index.                  *)
LEMMA ResolveSteps ==
  ASSUME RecoveryInv, Resolve
  PROVE  RecoveryInv'
<1> DEFINE v == resolve(IndexFacts, RequestFacts, DefersEffects(IndexFacts, RequestFacts))
<1>0. /\ job.pc = "resolve" /\ Underway /\ UNCHANGED <<durable, world, attempts>>
      /\ Len(job.staged) = 0 /\ job.success = FALSE /\ job.verdict # "FINISHED"
      /\ job \in Job
  <2>1. job.pc = "resolve" /\ UNCHANGED <<durable, world, attempts>>
    BY DEF Resolve, At
  <2>2. Underway
    BY <2>1 DEF Underway, Working
  <2> QED BY <2>1, <2>2, InvTyped DEF RecoveryInv, StagedFacts, Holds, Intents, Staging, Typed
<1>1. v \in Verdicts
  BY ResolutionTyped
<1>2. \/ job' = [job EXCEPT !.pc = "prepare"]
      \/ job' = Decided(v)
  BY DEF Resolve, Step, Go
<1> HIDE DEF v
<1>3. /\ job' \in Job /\ job'.pc \in {"prepare", "tool", "deciding"} /\ job'.staged = job.staged
      /\ job'.success = FALSE /\ job'.verdict # "FINISHED" /\ job'.request = job.request
  <2>1. CASE job' = [job EXCEPT !.pc = "prepare"]
    BY <1>0, <2>1 DEF Job, Points
  <2>2. CASE job' = Decided(v)
    BY <1>1, <2>2, DecidedTyped DEF Verdicts
  <2> QED BY <1>2, <2>1, <2>2
<1>4. StagedFacts' /\ Holds'
  BY <1>0, <1>3, NothingHeld DEF Staging
<1> QED BY <1>0, <1>3, <1>4, PlainSteps DEF Staging

(* The model calls the Workflow tool again.                                 *)
LEMMA CallAgainSteps ==
  ASSUME RecoveryInv, CallAgain
  PROVE  RecoveryInv'
<1>0. /\ job.pc = "tool" /\ Underway /\ UNCHANGED <<durable, world, attempts>>
      /\ Len(job.staged) = 0 /\ job.success = FALSE /\ job \in Job
  <2>1. job.pc = "tool" /\ job.verdict = "RAISED" /\ UNCHANGED <<durable, world, attempts>>
    BY DEF CallAgain, At
  <2>2. Underway
    BY <2>1 DEF Underway
  <2>3. job.success \in BOOLEAN
    BY InvTyped
  <2> QED BY <2>1, <2>2, <2>3, InvTyped DEF RecoveryInv, StagedFacts, Holds, Intents, Staging, Typed
<1>1. job' = [job EXCEPT !.pc = "resolve", !.calls = @ + 1, !.verdict = "none",
                         !.version = "none", !.stage = 0]
  BY DEF CallAgain, Step
<1>2. /\ job' \in Job /\ job'.pc = "resolve" /\ job'.staged = job.staged
      /\ job'.success = FALSE /\ job'.verdict = "none" /\ job'.request = job.request
  <2>1. 0 \in 0..Last /\ job.calls + 1 \in Nat
    BY ConstantsTyped, InvTyped
  <2> QED BY <1>0, <1>1, <2>1 DEF Job, Points
<1>3. StagedFacts' /\ Holds'
  BY <1>0, <1>2, NothingHeld DEF Staging
<1> QED BY <1>0, <1>2, <1>3, PlainSteps DEF Staging

(* The end of an attempt decides the Run's status and no more.              *)
LEMMA EndSteps ==
  ASSUME RecoveryInv, FirstAttemptEnds \/ ResumeEnds
  PROVE  RecoveryInv'
<1>1. /\ job' = Idle /\ UNCHANGED <<head, index, chain, ledger, file, performed, attempts>>
      /\ status' \in {"COMPLETED", "FAILED_TERMINAL"} \cup Resumable
  BY DEF FirstAttemptEnds, ResumeEnds, Step, world, ResumeOutcome, Resumable
<1>2. StagedFacts' /\ Holds' /\ ~Underway'
  <2>1. ~Underway'
    BY <1>1, IdleTyped DEF Underway, Working, Staging
  <2> QED BY <1>1, <2>1, IdleTyped, NothingHeld DEF Staging
<1>3. /\ head \in Nat /\ attempts \in 0..MaxAttempts
      /\ file \in [FileStages -> Versions \cup {"absent", "theirs"}]
      /\ performed \in [EffectStages -> Nat]
  BY DEF RecoveryInv, Typed
<1>4. \A s \in EffectStages : performed'[s] >= performed[s]
  BY <1>1, <1>3
<1>5. attempts' >= attempts
  BY <1>1, <1>3, ConstantsTyped
<1> QED BY <1>1, <1>2, <1>3, <1>4, <1>5, IdleTyped, JobSteps DEF Staging

(* The owner of the workspace works while an attempt does, or between two.  *)
LEMMA OwnerSteps ==
  ASSUME RecoveryInv, NEW s \in FileStages, OwnerEdits(s)
  PROVE  RecoveryInv'
<1> DEFINE raced == job.raced \/ (job.pc = "executing" /\ job.stage = s)
<1>1. /\ UNCHANGED <<status, head, index, chain, ledger, performed, attempts>>
      /\ \E content \in {"absent", "theirs"} : file' = [file EXCEPT ![s] = content]
      /\ job' = [job EXCEPT !.raced = raced]
  BY DEF OwnerEdits, At, Step, durable
<1>2. /\ head \in Nat /\ attempts \in 0..MaxAttempts /\ job \in Job
      /\ file \in [FileStages -> Versions \cup {"absent", "theirs"}]
      /\ performed \in [EffectStages -> Nat]
  BY DEF RecoveryInv, Typed
<1>3. file' \in [FileStages -> Versions \cup {"absent", "theirs"}]
  BY <1>1, <1>2
<1>4. \A t \in EffectStages : performed'[t] >= performed[t]
  BY <1>1, <1>2
<1>5. attempts' >= attempts
  BY <1>1, <1>2, ConstantsTyped
<1>6. /\ job' \in Job /\ job'.raced = raced
      /\ job'.pc = job.pc /\ job'.request = job.request /\ job'.staged = job.staged
      /\ job'.stage = job.stage /\ job'.version = job.version
      /\ job'.verdict = job.verdict /\ job'.success = job.success
  <2>1. raced \in BOOLEAN
    BY <1>2 DEF Job
  <2> HIDE DEF raced
  <2> QED BY <1>1, <1>2, <2>1 DEF Job
<1>7. StagedFacts'
  <2>1. Top' = Top /\ Len(job.staged)' = Len(job.staged)
    BY <1>6 DEF Top
  <2> QED BY <1>1, <1>6, <2>1 DEF RecoveryInv, StagedFacts, Sound, Fresh
<1>8. Holds'
  <2>1. job'.pc = "executing" /\ ~job'.raced /\ job.stage \in FileStages =>
          file'[job.stage] = file[job.stage] /\ ~job.raced
    BY <1>1, <1>2, <1>6
  <2>2. Top' = Top /\ Len(job.staged)' = Len(job.staged)
    BY <1>6 DEF Top
  <2> HIDE DEF raced
  <2> QED BY <1>1, <1>6, <2>1, <2>2 DEF RecoveryInv, Holds
<1>9. Underway' <=> Underway
  BY <1>6 DEF Underway
<1>10. /\ job.pc # "idle" => job.request \in Request /\ status = "RUNNING"
       /\ job.pc = "bootstrap" => index.work = "NONE" /\ attempts >= 1
       /\ job.pc = "activate" => index.work = "PENDING" /\ attempts >= 1
       /\ Underway => index.work # "COMPLETED" /\ Len(chain) \in 1..attempts
       /\ job.pc \in Staging \cup {"validate"} => ledger[Len(chain)].state = "PREPARED"
  BY DEF RecoveryInv, Typed, Lineage, Intents
<1> HIDE DEF raced
<1> QED BY <1>1, <1>2, <1>3, <1>4, <1>5, <1>6, <1>7, <1>8, <1>9, <1>10, JobSteps

----------------------------------------------------------------------------
(* Activation, intent and validation *)

(* The first checkpoint of a Workflow is settled.                           *)
LEMMA InitialTyped ==
  /\ Initial \in Fact /\ Fresh(Initial) /\ Initial.status = "RUNNING"
  /\ \A s \in StageSet : Initial.effects[s] \notin Uncertain
<1>1. 1 \in 0..Last
  BY ConstantsTyped
<1> QED BY <1>1 DEF Initial, Fact, Fresh, StageSet, Uncertain

(* A start writes the index of a Workflow that is still to be activated.    *)
LEMMA BootstrapSteps ==
  ASSUME RecoveryInv, Bootstrap
  PROVE  RecoveryInv'
<1>0. /\ job.pc = "bootstrap" /\ head' = head + 1 /\ head = 1
      /\ index' = [NoIndex EXCEPT !.work = "PENDING", !.revision = head']
      /\ job' = [job EXCEPT !.pc = "activate"]
      /\ UNCHANGED <<status, chain, ledger, file, performed, attempts>>
  BY DEF Bootstrap, At, Go, Step, world
<1>1. /\ Typed /\ index.work = "NONE" /\ job \in Job /\ Len(job.staged) = 0
      /\ Len(chain) = 0 /\ attempts >= 1 /\ attempts \in Nat
      /\ job.success = FALSE /\ job.verdict # "FINISHED"
      /\ job.request \in Request /\ status = "RUNNING"
  BY <1>0, InvTyped DEF RecoveryInv, Typed, Lineage, Intents, StagedFacts, Holds, Staging
<1>2. /\ job' \in Job /\ job'.pc = "activate" /\ job'.staged = job.staged
      /\ job'.request = job.request /\ job'.success = FALSE /\ job'.verdict # "FINISHED"
  BY <1>0, <1>1 DEF Job, Points
<1>3. /\ index' \in [work: Works, revision: Nat, checkpoint: Nat]
      /\ index'.work = "PENDING" /\ index'.checkpoint = 0
  <2>1. index' = [work |-> "PENDING", revision |-> head', checkpoint |-> 0]
    BY <1>0 DEF NoIndex
  <2>2. head' \in Nat
    BY <1>0
  <2> QED BY <2>1, <2>2 DEF Works
<1>4. Typed'
  <2>1. head' \in Nat
    BY <1>0
  <2> QED BY <1>0, <1>1, <1>2, <1>3, <2>1 DEF Typed
<1>5. Lineage'
  <2>1. Len(chain)' = 0 /\ status' # "CREATED"
    BY <1>0, <1>1
  <2> QED BY <1>2, <1>3, <2>1 DEF Lineage
<1>6. Intents'
  <2>1. Len(chain)' = 0 /\ attempts' = attempts /\ ledger' = ledger
    BY <1>0, <1>1
  <2>2. ~Underway'
    BY <1>2 DEF Underway, Working, Staging
  <2> QED BY <1>1, <1>2, <2>1, <2>2 DEF RecoveryInv, Intents, Staging
<1>7. StagedFacts' /\ Holds'
  BY <1>1, <1>2, NothingHeld DEF Staging
<1> QED BY <1>4, <1>5, <1>6, <1>7 DEF RecoveryInv

(* An activation starts the chain, at the head the index was written at.    *)
LEMMA ActivateSteps ==
  ASSUME RecoveryInv, Activate
  PROVE  RecoveryInv'
<1>0. /\ job.pc = "activate"
      /\ UNCHANGED <<status, ledger, file, performed, attempts>>
  BY DEF Activate, At, world
<1>1. /\ Typed /\ index.work = "PENDING" /\ job \in Job /\ Len(job.staged) = 0
      /\ Len(chain) = 0 /\ attempts >= 1 /\ attempts \in Nat /\ head \in Nat
      /\ job.success = FALSE /\ job.verdict # "FINISHED"
      /\ job.request \in Request /\ status = "RUNNING" /\ chain \in Seq(Fact)
  BY <1>0, InvTyped DEF RecoveryInv, Typed, Lineage, Intents, StagedFacts, Holds, Staging
<1>2. CASE MayActivate
  <2>1. /\ chain' = Append(chain, Initial) /\ head' = head + 1
        /\ index' = [work |-> "RUNNING", revision |-> head', checkpoint |-> Len(chain')]
        /\ job' = [job EXCEPT !.pc = "resolve"]
    BY <1>2 DEF Activate, Go, Step
  <2>2. chain' \in Seq(Fact) /\ Len(chain') = 1 /\ chain'[1] = Initial
    BY <1>1, <2>1, InitialTyped
  <2>3. /\ job' \in Job /\ job'.pc = "resolve" /\ job'.staged = job.staged
        /\ job'.request = job.request /\ job'.success = FALSE /\ job'.verdict # "FINISHED"
    BY <1>1, <2>1 DEF Job, Points
  <2>4. /\ index' \in [work: Works, revision: Nat, checkpoint: Nat]
        /\ index'.work = "RUNNING" /\ index'.checkpoint = 1 /\ head' \in Nat
    BY <1>1, <2>1, <2>2 DEF Works
  <2>5. Typed'
    BY <1>0, <1>1, <2>2, <2>3, <2>4 DEF Typed
  <2>6. Sound(Initial, performed')
    BY InitialTyped DEF Sound, Fresh
  <2>7. Lineage'
    <3>1. \A k \in 1..Len(chain') : chain'[k].verified /\ Sound(chain'[k], performed')
      BY <2>2, <2>6, InitialTyped DEF Fresh
    <3>2. status' # "CREATED"
      BY <1>0, <1>1
    <3>3. chain'[Len(chain')].status = index'.work /\ Fresh(chain'[Len(chain')])
      BY <2>2, <2>4, InitialTyped
    <3> QED BY <2>2, <2>3, <2>4, <3>1, <3>2, <3>3 DEF Lineage
  <2>8. Intents'
    <3>1. \A k \in Checkpoints : k > 0 /\ k \in Nat
      BY ConstantsTyped DEF Checkpoints
    <3>2. \A k \in Checkpoints : ledger[k].state = "NONE"
      BY <1>1, <3>1 DEF RecoveryInv, Intents
    <3>3. Len(chain)' = 1 /\ attempts' = attempts /\ ledger' = ledger
      BY <1>0, <2>2
    <3> QED BY <1>1, <2>3, <2>4, <3>2, <3>3 DEF Intents, Staging
  <2>9. StagedFacts' /\ Holds'
    BY <1>1, <2>3, NothingHeld DEF Staging
  <2> QED BY <2>5, <2>7, <2>8, <2>9 DEF RecoveryInv
<1>3. CASE ~MayActivate
  <2>1. job' = Decided("REJECT") /\ UNCHANGED <<durable, world, attempts>>
    BY <1>0, <1>3 DEF Activate, Step, durable, world
  <2>2. /\ job' \in Job /\ job'.pc \in {"tool", "deciding"} /\ job'.staged = job.staged
        /\ job'.success = FALSE /\ job'.verdict = "REJECT" /\ job'.request = job.request
    BY <2>1, DecidedTyped DEF Verdicts
  <2>3. StagedFacts' /\ Holds'
    BY <1>1, <2>2, NothingHeld DEF Staging
  <2>4. ~Underway'
    BY <2>2 DEF Underway, Working, Staging
  <2> QED BY <1>0, <2>1, <2>2, <2>3, <2>4, PlainSteps DEF Staging
<1> QED BY <1>2, <1>3

(* An operation that is already there for this checkpoint is prepared, not  *)
(* committed: a commit moves the index to a later checkpoint.               *)
LEMMA PrepareSteps ==
  ASSUME RecoveryInv, Prepare
  PROVE  RecoveryInv'
<1>0. /\ job.pc = "prepare" /\ UNCHANGED <<status, index, chain, file, performed, attempts>>
  BY DEF Prepare, At, world
<1>1. /\ Typed /\ job \in Job /\ Len(job.staged) = 0 /\ Underway
      /\ index.work # "COMPLETED" /\ Len(chain) \in 1..attempts
      /\ attempts \in Nat /\ head \in Nat
      /\ job.success = FALSE /\ job.verdict # "FINISHED"
      /\ job.request \in Request /\ status = "RUNNING"
  <2>1. Underway
    BY <1>0 DEF Underway, Working
  <2> QED BY <1>0, <2>1, InvTyped
          DEF RecoveryInv, Typed, Lineage, Intents, StagedFacts, Holds, Staging
<1>2. /\ Len(chain) \in Checkpoints /\ index.checkpoint = Len(chain)
      /\ Operation = ledger[Len(chain)]
      /\ Operation.state \in {"NONE", "PREPARED"}
      /\ ledger \in [Checkpoints -> [state: {"NONE", "PREPARED", "COMMITTED"},
                                     action: Actions \cup {"none", "NONE"}]]
  <2>1. index.checkpoint = Len(chain) /\ Operation = ledger[Len(chain)]
    BY InvTyped DEF Operation
  <2>2. Len(chain) \in Checkpoints
    BY <1>1, InvTyped, ConstantsTyped DEF Checkpoints
  <2>3. ledger[Len(chain)].state # "COMMITTED"
    BY <2>2 DEF RecoveryInv, Intents
  <2> QED BY <1>1, <2>1, <2>2, <2>3 DEF Typed
<1>3. CASE job' = [job EXCEPT !.pc = "validate"]
  <2>1. /\ job' \in Job /\ job'.pc = "validate" /\ job'.staged = job.staged
        /\ job'.request = job.request /\ job'.success = FALSE /\ job'.verdict # "FINISHED"
    BY <1>1, <1>3 DEF Job, Points
  <2>2. StagedFacts' /\ Holds'
    BY <1>1, <2>1, NothingHeld DEF Staging
  <2>3. CASE Operation.state = "NONE"
    <3>1. /\ ledger' = [ledger EXCEPT ![Len(chain)] =
                          [state |-> "PREPARED", action |-> job.request.action]]
          /\ head' = head + 1
      BY <1>2, <2>3 DEF Prepare
    <3>2. job.request.action \in Actions \cup {"none", "NONE"}
      BY <1>1 DEF Request
    <3>3. /\ ledger' \in [Checkpoints -> [state: {"NONE", "PREPARED", "COMMITTED"},
                                          action: Actions \cup {"none", "NONE"}]]
          /\ ledger'[Len(chain)].state = "PREPARED"
          /\ \A k \in Checkpoints : k # Len(chain) => ledger'[k] = ledger[k]
      BY <1>2, <3>1, <3>2
    <3>4. Typed' /\ Lineage'
      <4>1. Typed'
        BY <1>0, <1>1, <2>1, <3>1, <3>3 DEF Typed
      <4>2. Lineage'
        BY <1>0, <2>1 DEF RecoveryInv, Lineage, Sound, Fresh
      <4> QED BY <4>1, <4>2
    <3>5. Intents'
      BY <1>0, <1>1, <2>1, <3>3 DEF RecoveryInv, Intents, Staging
    <3> QED BY <2>2, <3>4, <3>5 DEF RecoveryInv
  <2>4. CASE Operation.state = "PREPARED"
    <3>1. UNCHANGED <<ledger, head>>
      BY <1>2, <2>4 DEF Prepare
    <3>2. UNCHANGED <<durable, world, attempts>> /\ ledger[Len(chain)].state = "PREPARED"
      BY <1>0, <1>2, <2>4, <3>1 DEF durable, world
    <3> QED BY <1>0, <1>1, <2>1, <2>2, <3>2, PlainSteps DEF Staging
  <2> QED BY <1>2, <2>3, <2>4
<1>4. CASE job' # [job EXCEPT !.pc = "validate"]
  <2>1. job' = Raised /\ UNCHANGED <<ledger, head>>
    BY <1>4 DEF Prepare, Step, Go
  <2>2. /\ job' \in Job /\ job'.pc \in {"tool", "deciding"} /\ job'.staged = job.staged
        /\ job'.success = FALSE /\ job'.verdict = "RAISED" /\ job'.request = job.request
    BY <2>1, DecidedTyped DEF Raised
  <2>3. StagedFacts' /\ Holds'
    BY <1>1, <2>2, NothingHeld DEF Staging
  <2> QED BY <1>0, <1>1, <2>1, <2>2, <2>3, PlainSteps DEF Staging, durable, world
<1> QED BY <1>3, <1>4

(* The Workflow starts over a fresh fact, reopened; a question is staged as *)
(* the one fact that asks it; nothing else is staged.                       *)
LEMMA ReopenedTyped ==
  ASSUME NEW fact \in Fact, NEW did, Fresh(fact), Sound(fact, did)
  PROVE  /\ Reopened(fact) \in Seq(Fact) /\ Len(Reopened(fact)) \in {1, 2}
         /\ \A k \in 1..Len(Reopened(fact)) :
              Sound(Reopened(fact)[k], did) /\ Fresh(Reopened(fact)[k])
<1> DEFINE running == [fact EXCEPT !.status = "RUNNING"]
           paused == [fact EXCEPT !.status = "SUSPENDED"]
<1>1. running \in Fact /\ Fresh(running) /\ Sound(running, did)
  BY DEF Fact, Fresh, Sound
<1>2. paused \in Fact /\ Fresh(paused) /\ Sound(paused, did)
  BY DEF Fact, Fresh, Sound
<1>3. Reopened(fact) = <<paused, running>> \/ Reopened(fact) = <<running>>
  BY DEF Reopened
<1> HIDE DEF running, paused
<1>4. CASE Reopened(fact) = <<paused, running>>
  <2> DEFINE two == <<paused, running>>
  <2>1. two \in Seq(Fact) /\ Len(two) = 2 /\ two[1] = paused /\ two[2] = running
    BY <1>1, <1>2
  <2>2. \A k \in 1..2 : k = 1 \/ k = 2
    OBVIOUS
  <2> HIDE DEF two
  <2>3. \A k \in 1..Len(two) : Sound(two[k], did) /\ Fresh(two[k])
    BY <1>1, <1>2, <2>1, <2>2
  <2> QED BY <1>4, <2>1, <2>3 DEF two
<1>5. CASE Reopened(fact) = <<running>>
  <2> DEFINE one == <<running>>
  <2>1. one \in Seq(Fact) /\ Len(one) = 1 /\ one[1] = running
    BY <1>1
  <2> HIDE DEF one
  <2>2. \A k \in 1..Len(one) : Sound(one[k], did) /\ Fresh(one[k])
    BY <1>1, <2>1
  <2> QED BY <1>5, <2>1, <2>2 DEF one
<1> QED BY <1>3, <1>4, <1>5

(* A resume that the table allows stages the reopened checkpoint; a doubt   *)
(* is staged as a question.                                                 *)
LEMMA ValidateSteps ==
  ASSUME RecoveryInv, Validate
  PROVE  RecoveryInv'
<1> DEFINE v == validate_resume(CheckpointFacts, RequestFacts)
<1>0. job.pc = "validate" /\ UNCHANGED <<durable, world, attempts>>
  BY DEF Validate, At
<1>1. /\ job \in Job /\ Len(job.staged) = 0 /\ Underway
      /\ job.success = FALSE /\ ledger[Len(chain)].state = "PREPARED"
  <2>1. Underway
    BY <1>0 DEF Underway, Working
  <2> QED BY <1>0, <2>1, InvTyped
          DEF RecoveryInv, Typed, Intents, StagedFacts, Holds, Staging
<1>2. PICK fact \in Fact : fact = Current /\ Fresh(fact) /\ Sound(fact, performed)
  BY <1>1, CurrentIsFresh
<1> DEFINE asking == [fact EXCEPT !.status = "WAITING_USER"]
           new == Reopened(fact)
<1>3. v \in Verdicts
  BY AnswerTyped
<1>4. \/ /\ v = "ALLOW"
         /\ job' = [job EXCEPT !.pc = "stage", !.verdict = v, !.staged = new,
                               !.stage = NextStage(fact.done)]
      \/ /\ v = "CLARIFY"
         /\ job' = [job EXCEPT !.pc = "finalize", !.verdict = v, !.staged = <<asking>>]
      \/ job' = [job EXCEPT !.pc = "finalize", !.verdict = v]
  BY <1>2 DEF Validate, Step
<1>5. asking \in Fact /\ Fresh(asking) /\ Sound(asking, performed) /\ asking.status = "WAITING_USER"
  BY <1>2 DEF Fact, Fresh, Sound
<1>6. UNCHANGED <<performed, file, index>>
  BY <1>0 DEF world, durable
<1> HIDE DEF v, asking, new
<1>8. CASE /\ v = "ALLOW"
           /\ job' = [job EXCEPT !.pc = "stage", !.verdict = v, !.staged = new,
                                 !.stage = NextStage(fact.done)]
  <2>1. /\ new \in Seq(Fact) /\ Len(new) \in {1, 2}
        /\ \A k \in 1..Len(new) : new[k] \in Fact /\ Sound(new[k], performed) /\ Fresh(new[k])
    BY <1>2, ReopenedTyped DEF new
  <2>2. NextStage(fact.done) = 1 /\ 1 \in 0..Last /\ 1 \in StageSet
    <3>1. fact.done = 1..0
      BY <1>2 DEF Fresh
    <3> QED BY <3>1, NextInOrder, ConstantsTyped
  <2>3. /\ job' \in Job /\ job'.pc = "stage" /\ job'.staged = new /\ job'.stage = 1
        /\ job'.request = job.request /\ job'.success = FALSE /\ job'.verdict = "ALLOW"
    BY <1>1, <1>3, <1>8, <2>1, <2>2 DEF Job, Points
  <2>4. Len(new) \in 1..Len(new) /\ Top' = new[Len(new)]
    <3>1. Len(new) \in 1..Len(new)
      <4>1. \A n \in {1, 2} : n \in 1..n
        OBVIOUS
      <4> QED BY <2>1, <4>1, Zenon
    <3>2. Top' = new[Len(new)]
      BY <2>3, Zenon DEF Top
    <3> QED BY <3>1, <3>2
  <2>5. Top'.verified /\ Top'.done = 1..1 - 1
    BY <2>1, <2>4 DEF Fresh
  <2>6. StagedFacts'
    <3>1. \A k \in 1..Len(new) : Sound(new[k], performed') /\ new[k].verified
      BY <1>6, <2>1 DEF Fresh
    <3>2. /\ Len(job.staged)' > 0
          /\ \A k \in 1..Len(job.staged)' :
               Sound(job.staged[k], performed)' /\ job.staged[k].verified'
      <4>1. Len(new) > 0
        <5>1. \A n \in {1, 2} : n > 0
          OBVIOUS
        <5> QED BY <2>1, <5>1, Zenon
      <4>2. job'.staged = new
        BY <2>3
      <4> QED BY <3>1, <4>1, <4>2, Zenon
    <3> QED BY <2>2, <2>3, <2>5, <3>2 DEF StagedFacts, Staging
  <2>7. Holds'
    <3>1. \A j \in Kinds("pure") : ~(j < 1)
      <4>1. \A n \in Nat \ {0} : \A j \in 1..n : ~(j < 1)
        OBVIOUS
      <4> QED BY <4>1, ConstantsTyped
    <3> QED BY <2>3, <3>1 DEF Holds
  <2> QED BY <1>0, <1>1, <2>3, <2>6, <2>7, PlainSteps DEF Staging
<1>9. CASE /\ v = "CLARIFY"
           /\ job' = [job EXCEPT !.pc = "finalize", !.verdict = v, !.staged = <<asking>>]
  <2>1. <<asking>> \in Seq(Fact) /\ Len(<<asking>>) = 1 /\ <<asking>>[1] = asking
    BY <1>5
  <2>2. /\ job' \in Job /\ job'.pc = "finalize" /\ job'.staged = <<asking>>
        /\ job'.request = job.request /\ job'.success = FALSE /\ job'.verdict = "CLARIFY"
    BY <1>1, <1>3, <1>9, <2>1 DEF Job, Points
  <2>3. Top' = asking
    BY <2>1, <2>2 DEF Top
  <2>4. StagedFacts'
    <3>1. Sound(asking, performed')
      BY <1>5, <1>6
    <3> QED BY <1>5, <2>1, <2>2, <2>3, <3>1 DEF StagedFacts, Staging
  <2>5. Holds'
    BY <2>2 DEF Holds
  <2> QED BY <1>0, <1>1, <2>2, <2>4, <2>5, PlainSteps DEF Staging
<1>10. CASE job' = [job EXCEPT !.pc = "finalize", !.verdict = v]
  <2>1. /\ job' \in Job /\ job'.pc = "finalize" /\ job'.staged = job.staged
        /\ job'.request = job.request /\ job'.success = FALSE /\ job'.verdict # "FINISHED"
    BY <1>1, <1>3, <1>10 DEF Job, Points, Verdicts
  <2>2. Len(job.staged)' = 0
    BY <1>1, <2>1
  <2>3. StagedFacts' /\ Holds'
    BY <2>1, <2>2 DEF StagedFacts, Holds, Staging
  <2> QED BY <1>0, <1>1, <2>1, <2>3, PlainSteps DEF Staging
<1> QED BY <1>4, <1>8, <1>9, <1>10

----------------------------------------------------------------------------
(* The stage loop *)

(* A staged fact is added behind facts that are all verified.               *)
LEMMA StagedGrows ==
  ASSUME RecoveryInv, job.pc \in Staging \ {"finalize"}, NEW fact \in Fact,
         Sound(fact, performed), performed' = performed,
         job'.staged = Append(job.staged, fact)
  PROVE  /\ job'.staged \in Seq(Fact) /\ Len(job.staged)' > 0 /\ Top' = fact
         /\ \A k \in 1..Len(job.staged)' :
              /\ Sound(job.staged[k], performed)'
              /\ k < Len(job.staged)' => job.staged[k].verified'
<1> DEFINE n == Len(job.staged)
<1>1. /\ job.staged \in Seq(Fact) /\ n \in Nat /\ n > 0
      /\ \A k \in 1..n : /\ Sound(job.staged[k], performed)
                         /\ k < n => job.staged[k].verified
      /\ job.staged[n].verified
  BY InvTyped DEF RecoveryInv, StagedFacts, Top
<1>2. /\ job'.staged \in Seq(Fact) /\ Len(job'.staged) = n + 1
      /\ job'.staged[n + 1] = fact
      /\ \A k \in 1..n : job'.staged[k] = job.staged[k]
  BY <1>1, AppendProperties
<1>3. ASSUME NEW k \in 1..n + 1
      PROVE  /\ Sound(job'.staged[k], performed')
             /\ k < n + 1 => job'.staged[k].verified
  <2>1. CASE k = n + 1
    BY <1>1, <1>2, <2>1
  <2>2. CASE k # n + 1
    <3>1. k \in 1..n /\ (k < n \/ k = n)
      BY <1>1, <2>2
    <3> QED BY <1>1, <1>2, <3>1
  <2> QED BY <2>1, <2>2
<1>4. Top' = fact
  BY <1>2 DEF Top
<1> HIDE DEF n
<1> QED BY <1>1, <1>2, <1>3, <1>4

(* What has been staged says that the stages up to this one are done, or it *)
(* is a failure, which nothing is staged behind.                            *)
LEMMA RecordSteps ==
  ASSUME RecoveryInv, job.pc \in {"stage", "recording"}, NEW fact \in Fact, NEW pc \in Points,
         Record(fact, pc), UNCHANGED <<durable, world, attempts>>, Sound(fact, performed),
         \/ pc = "finalize" /\ ~fact.verified
         \/ /\ fact.verified /\ fact.done = 1..job.stage
            /\ pc = IF job.stage = Last THEN "complete" ELSE "stage"
            /\ (\E j \in Kinds("pure") : j <= job.stage) => job.version \in Versions
  PROVE  RecoveryInv'
<1>0. /\ job \in Job /\ job.stage \in 1..Last /\ job.verdict \in {"ALLOW", "CLARIFY"}
      /\ job.staged \in Seq(Fact) /\ job.pc \in Staging \ {"finalize"} /\ Underway
      /\ ledger[Len(chain)].state = "PREPARED"
  <2>1. job.pc \in Staging \ {"finalize"} /\ Underway
    BY DEF Staging, Underway, Working
  <2>2. job.stage \in StageSet /\ Len(job.staged) > 0
    BY <2>1 DEF RecoveryInv, StagedFacts
  <2> QED BY <2>1, <2>2, InvTyped, ConstantsTyped DEF RecoveryInv, Typed, StagedFacts, Intents
<1> DEFINE s == IF fact.verified THEN NextStage(fact.done) ELSE job.stage
<1>1. /\ s \in 0..Last
      /\ fact.verified /\ pc = "stage" => s = job.stage + 1 /\ s \in 1..Last
  <2>1. fact.verified => s = IF job.stage = Last THEN 0 ELSE job.stage + 1
    <3>1. job.stage \in 0..Last
      BY <1>0
    <3> QED BY <3>1, NextInOrder DEF Points
  <2>2. Last \in Nat
    BY ConstantsTyped
  <2>3. ~fact.verified => s = job.stage
    OBVIOUS
  <2> HIDE DEF s
  <2> QED BY <1>0, <2>1, <2>2, <2>3
<1>2. job' = [job EXCEPT !.staged = Append(job.staged, fact), !.tries = 0, !.pc = pc,
                         !.stage = s, !.success = FALSE]
  BY DEF Record, Step
<1>3. Append(job.staged, fact) \in Seq(Fact)
  BY <1>0
<1> HIDE DEF s
<1>4. /\ job' \in Job /\ job'.staged = Append(job.staged, fact) /\ job'.pc = pc
      /\ job'.stage = s /\ job'.success = FALSE /\ job'.verdict = job.verdict
      /\ job'.request = job.request /\ job'.version = job.version
  <2> DEFINE new == Append(job.staged, fact)
  <2>1. new \in Seq(Fact)
    BY <1>3
  <2> HIDE DEF new
  <2>2. job' = [job EXCEPT !.staged = new, !.tries = 0, !.pc = pc,
                           !.stage = s, !.success = FALSE]
    BY <1>2 DEF new
  <2>3. /\ job' \in Job /\ job'.staged = new /\ job'.pc = pc
        /\ job'.stage = s /\ job'.success = FALSE /\ job'.verdict = job.verdict
        /\ job'.request = job.request /\ job'.version = job.version
    BY <1>0, <1>1, <2>1, <2>2 DEF Job
  <2> QED BY <2>3 DEF new
<1>5. performed' = performed
  BY DEF world
<1>6. /\ Len(job.staged)' > 0 /\ Top' = fact
      /\ \A k \in 1..Len(job.staged)' :
           /\ Sound(job.staged[k], performed)'
           /\ k < Len(job.staged)' => job.staged[k].verified'
  BY <1>0, <1>4, <1>5, StagedGrows
<1>7. CASE pc = "finalize" /\ ~fact.verified
  <2>1. StagedFacts'
    BY <1>0, <1>4, <1>6, <1>7 DEF StagedFacts, Staging
  <2>2. Holds'
    BY <1>0, <1>4, <1>7 DEF Holds
  <2> QED BY <1>0, <1>4, <1>7, <2>1, <2>2, PlainSteps DEF Staging
<1>8. CASE /\ fact.verified /\ fact.done = 1..job.stage
           /\ pc = IF job.stage = Last THEN "complete" ELSE "stage"
           /\ (\E j \in Kinds("pure") : j <= job.stage) => job.version \in Versions
  <2>1. pc = "complete" => fact.done = StageSet
    BY <1>8, ConstantsTyped
  <2>2. pc = "stage" => s \in StageSet /\ fact.done = 1..s - 1
    <3>1. job.stage + 1 - 1 = job.stage
      BY <1>0
    <3>2. ASSUME pc = "stage"
          PROVE  s \in StageSet /\ s - 1 = job.stage
      BY <1>0, <1>1, <1>8, <3>1, <3>2, ConstantsTyped
    <3> QED BY <1>8, <3>2
  <2>3. pc \in {"stage", "complete"} /\ pc \in Staging
    BY <1>8 DEF Staging
  <2>4. StagedFacts'
    BY <1>0, <1>4, <1>6, <1>8, <2>1, <2>2, <2>3 DEF StagedFacts
  <2>5. Holds'
    <3>1. pc = "stage" /\ (\E j \in Kinds("pure") : j < s) => job.version \in Versions
      <4>1. \A j \in Kinds("pure") : j \in Nat
        BY ConstantsTyped
      <4>2. pc = "stage" => \A j \in Kinds("pure") : j < s => j <= job.stage
        BY <1>0, <1>1, <1>8, <4>1
      <4> QED BY <1>8, <4>2
    <3> QED BY <1>0, <1>4, <2>3, <3>1 DEF Holds
  <2> QED BY <1>0, <1>4, <2>3, <2>4, <2>5, PlainSteps
<1> QED BY <1>7, <1>8

(* What a stage's success or failure says, as a fact.                       *)
LEMMA OutcomesTyped ==
  ASSUME RecoveryInv, job.pc \in {"stage", "executing", "recording"}
  PROVE  /\ \A effect \in {"NONE", "COMMITTED"} :
              LET fact == Succeeded(job.stage, effect) IN
              /\ fact \in Fact /\ fact.verified /\ fact.done = 1..job.stage
              /\ (job.stage \in EffectStages => performed[job.stage] > 0) => Sound(fact, performed)
         /\ \A effect \in {"NONE", "UNKNOWN"} :
              LET fact == Failed(job.stage, effect) IN
              fact \in Fact /\ ~fact.verified /\ Sound(fact, performed)
         /\ AfterStage(job.stage) = IF job.stage = Last THEN "complete" ELSE "stage"
<1>1. /\ job.stage \in StageSet /\ job.stage \in 1..Last /\ Last \in Nat
      /\ StageSet = 1..Last /\ job.stage \in 0..Last
  BY ConstantsTyped DEF RecoveryInv, StagedFacts
<1>2. PICK fact \in Fact : /\ fact = Current /\ fact.verified /\ Sound(fact, performed)
                           /\ fact.done = 1..job.stage - 1
  <2>1. Len(job.staged) > 0 /\ Len(job.staged) \in 1..Len(job.staged) /\ Top.verified
    BY InvTyped DEF RecoveryInv, StagedFacts, Staging
  <2>2. Sound(Top, performed)
    BY <2>1 DEF RecoveryInv, StagedFacts, Top
  <2> QED BY <2>1, <2>2, CurrentIsTop DEF RecoveryInv, StagedFacts
<1>3. 1..(job.stage - 1) \cup {job.stage} = 1..job.stage
  BY <1>1
<1>4. fact.done \cup {job.stage} = 1..job.stage
  BY <1>2, <1>3
<1>5. /\ NextStage(1..job.stage) \in 0..Last
      /\ AfterStage(job.stage) = IF job.stage = Last THEN "complete" ELSE "stage"
  <2>1. NextStage(1..job.stage) = IF job.stage = Last THEN 0 ELSE job.stage + 1
    BY <1>1, NextInOrder
  <2>2. AfterStage(job.stage) = IF NextStage(1..job.stage) = 0 THEN "complete" ELSE "stage"
    BY <1>2, <1>4 DEF AfterStage
  <2> QED BY <1>1, <2>1, <2>2
<1>6. 1..job.stage \subseteq StageSet
  BY <1>1
<1>7. ASSUME NEW effect \in {"NONE", "COMMITTED"}
      PROVE  LET new == Succeeded(job.stage, effect) IN
             /\ new \in Fact /\ new.verified /\ new.done = 1..job.stage
             /\ (job.stage \in EffectStages => performed[job.stage] > 0) => Sound(new, performed)
  <2> DEFINE effects == [fact.effects EXCEPT ![job.stage] = effect]
             new == Succeeded(job.stage, effect)
  <2>1. new = [fact EXCEPT !.done = 1..job.stage, !.effects = effects, !.verified = TRUE,
                           !.stage = NextStage(1..job.stage)]
    BY <1>2, <1>4 DEF Succeeded
  <2>2. effects \in [StageSet -> {"NONE", "COMMITTED", "UNKNOWN"}]
    BY <1>1 DEF Fact
  <2>3. \A t \in StageSet : effects[t] \notin Uncertain
    BY <1>1, <1>2 DEF Fact, Sound, Uncertain
  <2> HIDE DEF effects, new
  <2>4. new \in Fact /\ new.verified /\ new.done = 1..job.stage /\ new.effects = effects
    BY <1>5, <1>6, <2>1, <2>2 DEF Fact
  <2>5. ASSUME job.stage \in EffectStages => performed[job.stage] > 0
        PROVE  \A t \in 1..job.stage \cap EffectStages : performed[t] > 0
    BY <1>2, <1>4, <2>5 DEF Sound
  <2>6. (job.stage \in EffectStages => performed[job.stage] > 0) => Sound(new, performed)
    BY <2>3, <2>4, <2>5 DEF Sound
  <2> QED BY <2>4, <2>6 DEF new
<1>8. ASSUME NEW effect \in {"NONE", "UNKNOWN"}
      PROVE  LET new == Failed(job.stage, effect) IN
             new \in Fact /\ ~new.verified /\ Sound(new, performed)
  <2> DEFINE effects == [fact.effects EXCEPT ![job.stage] = effect]
             standing == IF effect \in Uncertain THEN "WAITING_USER" ELSE "FAILED_RECOVERABLE"
             new == Failed(job.stage, effect)
  <2>1. new = [fact EXCEPT !.effects = effects, !.verified = FALSE, !.stage = job.stage,
                           !.status = standing]
    BY <1>2 DEF Failed
  <2>2. /\ effects \in [StageSet -> {"NONE", "COMMITTED", "UNKNOWN"}]
        /\ standing \in {"WAITING_USER", "FAILED_RECOVERABLE"}
    BY <1>1 DEF Fact
  <2> HIDE DEF effects, standing, new
  <2>3. new \in Fact /\ ~new.verified /\ new.done = fact.done
    BY <1>1, <2>1, <2>2 DEF Fact
  <2> QED BY <1>2, <2>3 DEF Sound, new
<1> QED BY <1>5, <1>7, <1>8

(* A stage at work has not staged anything yet.                             *)
LEMMA NothingStaged ==
  ASSUME RecoveryInv, job.pc \in {"stage", "executing"}, job'.pc \in {"executing", "recording"},
         job'.staged = job.staged, job'.stage = job.stage, job'.verdict = job.verdict,
         \A s \in EffectStages : performed[s] > 0 => performed'[s] > 0
  PROVE  StagedFacts'
<1>1. \A fact : Sound(fact, performed) => Sound(fact, performed')
  BY DEF Sound
<1>2. /\ Len(job.staged) > 0 /\ Top.verified
      /\ \A k \in 1..Len(job.staged) : /\ Sound(job.staged[k], performed)
                                       /\ k < Len(job.staged) => job.staged[k].verified
      /\ job.verdict \in {"ALLOW", "CLARIFY"}
      /\ job.stage \in StageSet /\ Top.done = 1..job.stage - 1
  BY DEF RecoveryInv, StagedFacts, Staging
<1>3. Top' = Top
  BY DEF Top
<1>4. \A k \in 1..Len(job.staged) : Sound(job'.staged[k], performed')
  BY <1>1, <1>2
<1> QED BY <1>2, <1>3, <1>4 DEF StagedFacts, Staging

(* A stage is worked on under a prepared intent only.                       *)
LEMMA StageUnderway ==
  ASSUME RecoveryInv, job.pc \in Staging
  PROVE  /\ Underway /\ ledger[Len(chain)].state = "PREPARED" /\ job \in Job
         /\ job.request \in Request /\ status = "RUNNING"
         /\ index.work # "COMPLETED" /\ Len(chain) \in 1..attempts
<1>1. Underway
  BY DEF Underway, Working
<1> QED BY <1>1 DEF RecoveryInv, Intents, Typed, Staging

(* A stage that finds a file reconciles it, any other is executed.          *)
LEMMA BeginStageSteps ==
  ASSUME RecoveryInv, NEW s \in StageSet, BeginStage(s)
  PROVE  RecoveryInv'
<1>0. /\ job.pc = "stage" /\ s = job.stage /\ UNCHANGED <<durable, world, attempts>>
      /\ job.pc \in Staging
  BY DEF BeginStage, At, Staging
<1>1. CASE s \in FileStages /\ Reconciled(s) = "COMMITTED"
  <2>1. Record(Succeeded(job.stage, "COMMITTED"), AfterStage(job.stage))
    BY <1>0, <1>1 DEF BeginStage
  <2>2. (\E j \in Kinds("pure") : j <= job.stage) => job.version \in Versions
    <3>1. \A j \in Kinds("pure") : j <= job.stage => j < job.stage
      BY <1>0, <1>1, ConstantsTyped
    <3> QED BY <1>0, <3>1 DEF RecoveryInv, Holds
  <2>3. job.stage \notin EffectStages
    BY <1>0, <1>1, ConstantsTyped
  <2>4. PICK fact \in Fact :
          /\ fact = Succeeded(job.stage, "COMMITTED")
          /\ fact.verified /\ fact.done = 1..job.stage /\ Sound(fact, performed)
    BY <1>0, <2>3, OutcomesTyped
  <2>5. PICK pc \in Points : pc = AfterStage(job.stage)
    BY DEF AfterStage, Points
  <2>6. pc = IF job.stage = Last THEN "complete" ELSE "stage"
    BY <1>0, <2>5, OutcomesTyped
  <2> QED BY <1>0, <2>1, <2>2, <2>4, <2>5, <2>6, RecordSteps
<1>2. CASE s \in FileStages /\ Reconciled(s) \notin {"COMMITTED", "NONE"}
  <2>1. Record(Failed(job.stage, "UNKNOWN"), "finalize")
    BY <1>0, <1>2 DEF BeginStage
  <2>2. PICK fact \in Fact :
          fact = Failed(job.stage, "UNKNOWN") /\ ~fact.verified /\ Sound(fact, performed)
    BY <1>0, OutcomesTyped
  <2>3. "finalize" \in Points
    BY DEF Points
  <2> QED BY <1>0, <2>1, <2>2, <2>3, RecordSteps
<1>3. CASE ~(s \in FileStages /\ Reconciled(s) # "NONE")
  <2>1. /\ job' = [job EXCEPT !.pc = "executing", !.raced = FALSE]
        /\ performed' = performed /\ file' = file
    BY <1>0, <1>3 DEF BeginStage, Step, world
  <2>2. /\ job' \in Job /\ job'.pc = "executing" /\ job'.staged = job.staged
        /\ job'.request = job.request /\ job'.success = job.success
        /\ job'.verdict = job.verdict /\ job'.stage = job.stage /\ job'.version = job.version
    BY <1>0, <2>1, StageUnderway DEF Job, Points
  <2>3. StagedFacts'
    BY <1>0, <2>1, <2>2, NothingStaged
  <2>4. job.stage \in FileStages => file[job.stage] = "absent"
    BY <1>0, <1>3 DEF Reconciled
  <2>5. job.success = FALSE /\ job.verdict # "FINISHED"
    BY <1>0, InvTyped DEF RecoveryInv, Holds, StagedFacts, Staging
  <2>6. Holds'
    BY <1>0, <2>1, <2>2, <2>4, <2>5 DEF RecoveryInv, Holds
  <2> QED BY <1>0, <2>2, <2>3, <2>6, StageUnderway, PlainSteps
<1> QED BY <1>1, <1>2, <1>3

(* The result of a stage is staged as the next checkpoint.                  *)
LEMMA RecordStageSteps ==
  ASSUME RecoveryInv, NEW s \in StageSet, RecordStage(s)
  PROVE  RecoveryInv'
<1>0. /\ job.pc = "recording" /\ s = job.stage /\ UNCHANGED <<durable, world, attempts>>
      /\ job.stage \in StageSet
  BY DEF RecordStage, At
<1>1. CASE job.success
  <2>1. Record(Succeeded(job.stage, EffectOf(job.stage, TRUE)), AfterStage(job.stage))
    BY <1>0, <1>1 DEF RecordStage
  <2>2. EffectOf(job.stage, TRUE) \in {"NONE", "COMMITTED"}
    BY DEF EffectOf
  <2>3. /\ (\E j \in Kinds("pure") : j <= job.stage) => job.version \in Versions
        /\ job.stage \in EffectStages => performed[job.stage] > 0
    BY <1>0, <1>1 DEF RecoveryInv, Holds
  <2>4. PICK fact \in Fact :
          /\ fact = Succeeded(job.stage, EffectOf(job.stage, TRUE))
          /\ fact.verified /\ fact.done = 1..job.stage /\ Sound(fact, performed)
    BY <1>0, <2>2, <2>3, OutcomesTyped
  <2>5. PICK pc \in Points : pc = AfterStage(job.stage)
    BY DEF AfterStage, Points
  <2>6. pc = IF job.stage = Last THEN "complete" ELSE "stage"
    BY <1>0, <2>5, OutcomesTyped
  <2> QED BY <1>0, <2>1, <2>3, <2>4, <2>5, <2>6, RecordSteps
<1>2. CASE ~job.success
  <2>1. Record(Failed(job.stage, EffectOf(job.stage, FALSE)), "finalize")
    BY <1>0, <1>2 DEF RecordStage
  <2>2. EffectOf(job.stage, FALSE) \in {"NONE", "UNKNOWN"}
    BY DEF EffectOf
  <2>3. PICK fact \in Fact : /\ fact = Failed(job.stage, EffectOf(job.stage, FALSE))
                             /\ ~fact.verified /\ Sound(fact, performed)
    BY <1>0, <2>2, OutcomesTyped
  <2>4. "finalize" \in Points
    BY DEF Points
  <2> QED BY <1>0, <2>1, <2>3, <2>4, RecordSteps
<1> QED BY <1>1, <1>2

(* What the executor does to the world: unless the owner has been there     *)
(* meanwhile, a file is written only where there is none or what this       *)
(* attempt wrote; an effect is counted.                                     *)
LEMMA ActsTyped ==
  ASSUME RecoveryInv, job.pc = "executing", Acts(job.stage) \/ UNCHANGED world
  PROVE  /\ file' \in [FileStages -> Versions \cup {"absent", "theirs"}]
         /\ performed' \in [EffectStages -> Nat]
         /\ \A s \in EffectStages : performed'[s] >= performed[s]
         /\ job.stage \in EffectStages /\ Acts(job.stage) => performed'[job.stage] > 0
         /\ job.stage \in FileStages /\ ~job.raced =>
              file'[job.stage] \in {"absent", job.version}
         /\ \A s \in FileStages : \/ file'[s] = file[s] \/ file[s] = "absent"
                                  \/ job.raced /\ job.stage = s
<1>0. /\ file \in [FileStages -> Versions \cup {"absent", "theirs"}]
      /\ performed \in [EffectStages -> Nat]
      /\ job.stage \in StageSet
      /\ job.stage \in FileStages /\ ~job.raced =>
           file[job.stage] \in {"absent", job.version}
  BY DEF RecoveryInv, Typed, StagedFacts, Holds
<1>1. job.stage \in FileStages => job.version \in Versions
  BY ConstantsTyped DEF RecoveryInv, Holds
<1>2. CASE UNCHANGED world /\ ~Acts(job.stage)
  BY <1>0, <1>2 DEF world
<1>3. CASE Acts(job.stage)
  <2>1. /\ file' \in [FileStages -> Versions \cup {"absent", "theirs"}]
        /\ job.stage \in FileStages => file'[job.stage] = job.version
        /\ \A s \in FileStages : \/ file'[s] = file[s] \/ file[s] = "absent"
                                 \/ job.raced /\ job.stage = s
    <3>1. file' = IF job.stage \in FileStages THEN [file EXCEPT ![job.stage] = job.version]
                  ELSE file
      BY <1>3 DEF Acts
    <3> QED BY <1>0, <1>1, <3>1
  <2>2. /\ performed' \in [EffectStages -> Nat]
        /\ \A s \in EffectStages : performed'[s] >= performed[s]
        /\ job.stage \in EffectStages => performed'[job.stage] > 0
    <3>1. performed' = IF job.stage \in EffectStages
                       THEN [performed EXCEPT ![job.stage] = @ + 1] ELSE performed
      BY <1>3 DEF Acts
    <3> QED BY <1>0, <3>1
  <2> QED BY <2>1, <2>2
<1> QED BY <1>2, <1>3

(* A stage acts on the outside, and is tried again or goes to be            *)
(* recorded.                                                                *)
LEMMA ExecutingSteps ==
  ASSUME RecoveryInv, NEW s \in StageSet, StageSucceeds(s) \/ StageFails(s)
  PROVE  RecoveryInv'
<1>0. /\ job.pc = "executing" /\ s = job.stage
      /\ UNCHANGED <<status, head, index, chain, ledger, attempts>>
      /\ Acts(job.stage) \/ UNCHANGED world
      /\ job.pc \in Staging
  BY DEF StageSucceeds, StageFails, At, durable, Staging
<1>1. /\ job.success = FALSE /\ job.verdict # "FINISHED"
      /\ (\E j \in Kinds("pure") : j < job.stage) => job.version \in Versions
      /\ head \in Nat /\ attempts \in 0..MaxAttempts /\ job.stage \in StageSet
      /\ job.tries \in Nat
  BY <1>0, InvTyped DEF RecoveryInv, Holds, StagedFacts, Staging, Typed
<1>2. /\ job' \in Job /\ job'.staged = job.staged /\ job'.stage = job.stage
      /\ job'.verdict = job.verdict /\ job'.request = job.request
      /\ job'.raced = job.raced
      /\ \/ /\ job'.pc = "executing" /\ job'.success = FALSE /\ job'.version = job.version
         \/ /\ job'.pc = "recording" /\ job'.success = FALSE
         \/ /\ job'.pc = "recording" /\ job'.success = TRUE /\ Acts(job.stage)
            /\ \/ job.stage \in Kinds("pure") /\ job'.version \in Versions
               \/ job.stage \notin Kinds("pure") /\ job'.version = job.version
  <2>1. CASE StageSucceeds(s)
    <3>1. PICK v \in (IF s \in Kinds("pure") THEN Versions ELSE {job.version}) :
            job' = [job EXCEPT !.version = v, !.success = TRUE, !.pc = "recording"]
      BY <2>1 DEF StageSucceeds, Step
    <3>2. v \in Versions \cup {"none"}
      BY <3>1, InvTyped
    <3>3. job' \in Job
      BY <1>0, <3>1, <3>2, StageUnderway DEF Job, Points
    <3>4. /\ job'.staged = job.staged /\ job'.stage = job.stage /\ job'.pc = "recording"
          /\ job'.verdict = job.verdict /\ job'.request = job.request
          /\ job'.success = TRUE /\ job'.version = v /\ job'.raced = job.raced
      BY <1>0, <3>1, StageUnderway DEF Job
    <3> QED BY <1>0, <2>1, <3>1, <3>3, <3>4 DEF StageSucceeds
  <2>2. CASE StageFails(s)
    <3>1. \/ job' = [job EXCEPT !.tries = job.tries + 1]
          \/ job' = [job EXCEPT !.success = FALSE, !.pc = "recording"]
      BY <2>2 DEF StageFails, Step
    <3>2. job.tries + 1 \in Nat
      BY <1>1
    <3> QED BY <1>0, <1>1, <3>1, <3>2, StageUnderway DEF Job, Points
  <2> QED BY <2>1, <2>2
<1>3. /\ file' \in [FileStages -> Versions \cup {"absent", "theirs"}]
      /\ performed' \in [EffectStages -> Nat]
      /\ \A t \in EffectStages : performed'[t] >= performed[t]
      /\ job.stage \in EffectStages /\ Acts(job.stage) => performed'[job.stage] > 0
      /\ job.stage \in FileStages /\ ~job.raced =>
           file'[job.stage] \in {"absent", job.version}
  BY <1>0, ActsTyped
<1>4. StagedFacts'
  <2>1. \A t \in EffectStages : performed[t] > 0 => performed'[t] > 0
    <3>1. performed \in [EffectStages -> Nat]
      BY DEF RecoveryInv, Typed
    <3> QED BY <1>3, <3>1
  <2>2. job'.pc \in {"executing", "recording"}
    BY <1>2
  <2> QED BY <1>0, <1>2, <2>1, <2>2, NothingStaged
<1>5. Holds'
  <2>1. ASSUME job'.pc = "recording", job'.success = TRUE
        PROVE  /\ (\E j \in Kinds("pure") : j <= job.stage) => job'.version \in Versions
               /\ job.stage \in EffectStages => performed'[job.stage] > 0
    <3>1. \A j \in Kinds("pure") : j <= job.stage => j < job.stage \/ job.stage \in Kinds("pure")
      BY <1>1, ConstantsTyped
    <3> QED BY <1>1, <1>2, <1>3, <2>1, <3>1
  <2> QED BY <1>1, <1>2, <1>3, <2>1 DEF Holds
<1>6. /\ job'.pc \in Staging \ {"finalize"} /\ ~(job'.pc \in {"idle", "bootstrap", "activate"})
  BY <1>2 DEF Staging
<1>7. attempts' >= attempts
  BY <1>0, <1>1, ConstantsTyped
<1> QED BY <1>0, <1>1, <1>2, <1>3, <1>4, <1>5, <1>6, <1>7, StageUnderway, JobSteps

(* An exception drops what was staged and leaves the intent prepared.       *)
LEMMA RaisesSteps ==
  ASSUME RecoveryInv, StageRaises \/ FinalizeRaises
  PROVE  RecoveryInv'
<1>0. /\ job.pc \in Staging
      /\ UNCHANGED <<status, head, index, chain, ledger, attempts>>
      /\ job' = [Raised EXCEPT !.staged = <<>>] \/ job' = [Raised EXCEPT !.staged = <<>>, !.tries = 0]
  BY DEF StageRaises, FinalizeRaises, At, durable, Staging, Step
<1>1. /\ job' \in Job /\ job'.pc \in {"tool", "deciding"} /\ Len(job'.staged) = 0
      /\ job'.success = FALSE /\ job'.verdict = "RAISED" /\ job'.request = job.request
  <2>1. /\ Raised \in Job /\ Raised.pc \in {"tool", "deciding"} /\ Raised.success = FALSE
        /\ Raised.verdict = "RAISED" /\ Raised.request = job.request
    BY DecidedTyped DEF Raised
  <2>2. <<>> \in Seq(Fact) /\ Len(<<>>) = 0
    OBVIOUS
  <2>3. ASSUME NEW j \in Job, NEW e \in Seq(Fact),
               job' = [j EXCEPT !.staged = e] \/ job' = [j EXCEPT !.staged = e, !.tries = 0]
        PROVE  /\ job' \in Job /\ job'.pc = j.pc /\ job'.staged = e
               /\ job'.success = j.success /\ job'.verdict = j.verdict
               /\ job'.request = j.request
    <3>1. CASE job' = [j EXCEPT !.staged = e]
      BY <3>1 DEF Job
    <3>2. CASE job' = [j EXCEPT !.staged = e, !.tries = 0]
      BY <3>2 DEF Job
    <3> QED BY <2>3, <3>1, <3>2
  <2> QED BY <1>0, <2>1, <2>2, <2>3
<1>2. /\ head \in Nat /\ attempts \in 0..MaxAttempts
  BY DEF RecoveryInv, Typed
<1>3. /\ file' \in [FileStages -> Versions \cup {"absent", "theirs"}]
      /\ performed' \in [EffectStages -> Nat]
      /\ \A t \in EffectStages : performed'[t] >= performed[t]
  <2>1. CASE StageRaises
    BY <2>1, ActsTyped DEF StageRaises, At
  <2>2. CASE FinalizeRaises
    <3>1. /\ file \in [FileStages -> Versions \cup {"absent", "theirs"}]
          /\ performed \in [EffectStages -> Nat] /\ UNCHANGED <<file, performed>>
      BY <2>2 DEF FinalizeRaises, world, RecoveryInv, Typed
    <3> QED BY <3>1
  <2> QED BY <2>1, <2>2
<1>4. StagedFacts' /\ Holds'
  BY <1>1, NothingHeld DEF Staging
<1>5. attempts' >= attempts
  BY <1>0, <1>2, ConstantsTyped
<1>6. job'.pc \notin {"idle", "bootstrap", "activate", "validate"} \cup Staging
  BY <1>1 DEF Staging
<1> QED BY <1>0, <1>1, <1>2, <1>3, <1>4, <1>5, <1>6, StageUnderway, JobSteps

(* Behind the last stage the completed checkpoint is staged.                *)
LEMMA CompleteSteps ==
  ASSUME RecoveryInv, Complete
  PROVE  RecoveryInv'
<1>0. /\ job.pc = "complete" /\ UNCHANGED <<durable, world, attempts>> /\ performed' = performed
      /\ job.pc \in Staging \ {"finalize"} /\ job.staged \in Seq(Fact)
      /\ job.verdict \in {"ALLOW", "CLARIFY"}
  BY InvTyped DEF Complete, At, world, Staging, RecoveryInv, StagedFacts
<1>1. PICK old \in Fact : old = Current /\ old.done = StageSet /\ old.verified /\ Sound(old, performed)
  <2>1. Len(job.staged) > 0 /\ Len(job.staged) \in 1..Len(job.staged) /\ Top.verified
    BY <1>0, InvTyped DEF RecoveryInv, StagedFacts
  <2>2. Sound(Top, performed)
    BY <2>1 DEF RecoveryInv, StagedFacts, Top
  <2> QED BY <1>0, <2>1, <2>2, CurrentIsTop DEF RecoveryInv, StagedFacts
<1> DEFINE fact == [old EXCEPT !.status = "COMPLETED", !.verified = TRUE]
           new == Append(job.staged, fact)
<1>2. /\ fact \in Fact /\ fact.verified /\ fact.done = StageSet /\ fact.status = "COMPLETED"
      /\ Sound(fact, performed)
  BY <1>1 DEF Fact, Sound
<1>3. job' = [job EXCEPT !.pc = "finalize", !.success = TRUE, !.staged = new]
  BY <1>1 DEF Complete, Step
<1> HIDE DEF fact
<1>4. new \in Seq(Fact)
  BY <1>0, <1>2
<1>5. /\ job' \in Job /\ job'.pc = "finalize" /\ job'.success = TRUE /\ job'.staged = new
      /\ job'.verdict = job.verdict /\ job'.request = job.request
  <2> HIDE DEF new
  <2> QED BY <1>0, <1>3, <1>4, StageUnderway DEF Job, Points
<1>6. /\ Len(job.staged)' > 0 /\ Top' = fact
      /\ \A k \in 1..Len(job.staged)' :
           /\ Sound(job.staged[k], performed)'
           /\ k < Len(job.staged)' => job.staged[k].verified'
  BY <1>0, <1>2, <1>5, StagedGrows
<1>7. StagedFacts'
  BY <1>0, <1>2, <1>5, <1>6 DEF StagedFacts, Staging
<1>8. Holds'
  BY <1>0, <1>2, <1>5, <1>6 DEF Holds
<1> QED BY <1>0, <1>5, <1>7, <1>8, StageUnderway, PlainSteps

(* The staged facts become durable together: the index then points to the   *)
(* last of them, a question over a fresh fact or a completed Workflow.      *)
LEMMA FinalizeSteps ==
  ASSUME RecoveryInv, Finalize
  PROVE  RecoveryInv'
<1>0. /\ job.pc = "finalize" /\ job.pc \in Staging
      /\ UNCHANGED <<file, performed, attempts>>
      /\ job' = [job EXCEPT !.pc = IF job.first THEN "tool" ELSE "deciding", !.staged = <<>>]
  BY DEF Finalize, At, world, Staging, Step
<1>1. /\ Typed /\ job \in Job /\ job.request \in Request /\ status = "RUNNING"
      /\ index.work # "COMPLETED" /\ Len(chain) \in 1..attempts
      /\ attempts \in Nat /\ attempts <= MaxAttempts /\ head \in Nat
      /\ chain \in Seq(Fact) /\ job.staged \in Seq(Fact)
      /\ Len(chain) \in Nat /\ Len(job.staged) \in Nat /\ index.checkpoint = Len(chain)
      /\ job.success \in BOOLEAN
      /\ job.verdict \in Verdicts \cup {"none", "RAISED", "FINISHED"}
  BY <1>0, StageUnderway, InvTyped DEF Typed
<1>2. /\ job' \in Job /\ job'.pc \in {"tool", "deciding"} /\ Len(job'.staged) = 0
      /\ job'.success = job.success /\ job'.verdict = job.verdict
      /\ job'.request = job.request
  <2>1. <<>> \in Seq(Fact) /\ Len(<<>>) = 0
    OBVIOUS
  <2>2. ASSUME NEW e \in Seq(Fact), NEW p \in {"tool", "deciding"},
               job' = [job EXCEPT !.pc = p, !.staged = e]
        PROVE  /\ job' \in Job /\ job'.pc = p /\ job'.staged = e
               /\ job'.success = job.success /\ job'.verdict = job.verdict
               /\ job'.request = job.request
    BY <1>1, <2>2 DEF Job, Points
  <2>3. (IF job.first THEN "tool" ELSE "deciding") \in {"tool", "deciding"}
    OBVIOUS
  <2> QED BY <1>0, <2>1, <2>2, <2>3
<1>3. Publishable <=> Len(job.staged) > 0 /\ Top.verified
  BY <1>1, CurrentIsTop DEF Publishable
<1>4. job.verdict = "FINISHED" => FALSE
  BY <1>1 DEF RecoveryInv, Holds
<1>5. CASE ~Publishable
  <2>1. UNCHANGED <<durable, world, attempts>>
    BY <1>0, <1>5 DEF Finalize, world
  <2>2. job.success = FALSE
    BY <1>0, <1>1, <1>3, <1>5 DEF RecoveryInv, Holds
  <2>3. StagedFacts' /\ Holds'
    BY <1>2, <1>4, <2>2, NothingHeld DEF Staging
  <2> QED BY <1>0, <1>2, <2>1, <2>3, StageUnderway, PlainSteps DEF Staging
<1>6. CASE Publishable
  <2> DEFINE n == Len(chain)
             m == Len(job.staged)
  <2>1. /\ chain' = chain \o job.staged
        /\ index' = [work |-> Current.status, revision |-> head + 1,
                     checkpoint |-> Len(chain) + Len(job.staged)]
        /\ ledger' = [ledger EXCEPT ![index.checkpoint].state = "COMMITTED"]
        /\ head' = head + 1 /\ status' = "RUNNING"
    BY <1>6 DEF Finalize, NextIndex
  <2>2. /\ n \in Nat /\ m \in Nat /\ m > 0 /\ n > 0 /\ Top.verified /\ Current = Top
        /\ \/ Top.status = "COMPLETED" /\ Top.done = StageSet
           \/ Top.status = "WAITING_USER" /\ Fresh(Top) /\ m = 1
        /\ job.verdict \in {"ALLOW", "CLARIFY"}
        /\ \A k \in 1..m : Sound(job.staged[k], performed) /\ job.staged[k].verified
    <3>1. n \in Nat /\ m \in Nat /\ m > 0 /\ n > 0 /\ Top.verified /\ Current = Top
      BY <1>1, <1>3, <1>6, CurrentIsTop
    <3>2. \A k \in 1..m : /\ Sound(job.staged[k], performed)
                          /\ k < m => job.staged[k].verified
      BY DEF RecoveryInv, StagedFacts
    <3>3. \A k \in 1..m : k < m \/ k = m
      BY <3>1
    <3>4. job.staged[m].verified
      BY <3>1 DEF Top
    <3>5. /\ \/ Top.status = "COMPLETED" /\ Top.done = StageSet
             \/ Top.status = "WAITING_USER" /\ Fresh(Top) /\ m = 1
          /\ job.verdict \in {"ALLOW", "CLARIFY"}
      BY <1>0, <3>1 DEF RecoveryInv, StagedFacts
    <3> QED BY <3>1, <3>2, <3>3, <3>4, <3>5
  <2>3. /\ chain' \in Seq(Fact) /\ Len(chain') = n + m
        /\ \A k \in 1..n + m :
             chain'[k] = IF k <= n THEN chain[k] ELSE job.staged[k - n]
    BY <1>1, <2>1, ConcatProperties
  <2> HIDE DEF n, m
  <2>4. chain'[n + m] = Top
    <3>1. n + m \in 1..n + m /\ ~(n + m <= n) /\ (n + m) - n = m
      BY <2>2
    <3>2. chain'[n + m] = job.staged[(n + m) - n]
      BY <2>3, <3>1, Zenon
    <3>3. job.staged[(n + m) - n] = job.staged[m]
      BY <3>1, Zenon
    <3> QED BY <3>2, <3>3 DEF Top, m
  <2>5. /\ index' \in [work: Works, revision: Nat, checkpoint: Nat]
        /\ index'.work = Top.status /\ index'.checkpoint = n + m
        /\ head' \in Nat /\ index'.work \in {"COMPLETED", "WAITING_USER"}
    BY <1>1, <2>1, <2>2 DEF Works, n, m
  <2>6. /\ n \in Checkpoints /\ index.checkpoint = n
        /\ ledger' \in [Checkpoints -> [state: {"NONE", "PREPARED", "COMMITTED"},
                                        action: Actions \cup {"none", "NONE"}]]
        /\ \A k \in Checkpoints : k # n => ledger'[k] = ledger[k]
    <3>1. n \in Checkpoints /\ index.checkpoint = n
      BY <1>1, ConstantsTyped DEF Checkpoints, n
    <3>2. ledger \in [Checkpoints -> [state: {"NONE", "PREPARED", "COMMITTED"},
                                      action: Actions \cup {"none", "NONE"}]]
      BY <1>1 DEF Typed
    <3> QED BY <2>1, <3>1, <3>2
  <2>7. Typed'
    BY <1>0, <1>1, <1>2, <2>1, <2>3, <2>5, <2>6 DEF Typed, Resumable
  <2>8. Lineage'
    <3>1. \A k \in 1..Len(chain') : chain'[k].verified /\ Sound(chain'[k], performed')
      <4>1. SUFFICES ASSUME NEW k \in 1..n + m
                     PROVE  chain'[k].verified /\ Sound(chain'[k], performed)
        BY <1>0, <2>3
      <4>2. CASE k <= n
        <5>1. k \in 1..n /\ chain'[k] = chain[k]
          BY <2>2, <2>3, <4>1, <4>2
        <5> QED BY <5>1 DEF RecoveryInv, Lineage, n
      <4>3. CASE ~(k <= n)
        <5>1. k - n \in 1..m /\ chain'[k] = job.staged[k - n]
          BY <2>2, <2>3, <4>1, <4>3
        <5> QED BY <2>2, <5>1
      <4> QED BY <4>2, <4>3
    <3>2. Len(chain') > 0 /\ Len(chain') # 0
      BY <2>2, <2>3
    <3>3. chain'[Len(chain')] = Top
      BY <2>3, <2>4
    <3>4. /\ Top.status = index'.work
          /\ IF index'.work = "COMPLETED" THEN Top.done = StageSet ELSE Fresh(Top)
      BY <2>2, <2>5
    <3>5. index'.work \notin {"NONE", "PENDING"} /\ status' # "CREATED"
      BY <2>1, <2>5
    <3> QED BY <1>2, <2>3, <2>5, <3>1, <3>2, <3>3, <3>4, <3>5 DEF Lineage
  <2>9. Intents'
    <3>1. ~Underway'
      BY <1>2, <2>2 DEF Underway, Working, Staging
    <3>2. index'.work # "COMPLETED" => n + m <= attempts + 1
      <4>1. index'.work # "COMPLETED" => m = 1
        BY <2>2, <2>5
      <4>2. n <= attempts
        BY <1>1 DEF n
      <4> QED BY <1>1, <2>2, <4>1, <4>2
    <3>3. \A k \in Checkpoints : /\ k > n + m => ledger'[k].state = "NONE"
                                 /\ k = n + m => ledger'[k].state # "COMMITTED"
      <4>1. \A k \in Checkpoints : k \in Nat
        BY ConstantsTyped DEF Checkpoints
      <4>2. \A k \in Checkpoints : k >= n + m => k # n /\ k > n
        BY <2>2, <4>1
      <4>3. \A k \in Checkpoints : k >= n + m => ledger'[k].state = "NONE"
        BY <2>6, <4>2 DEF RecoveryInv, Intents, n
      <4> QED BY <2>2, <4>1, <4>3
    <3> QED BY <1>0, <1>2, <2>3, <3>1, <3>2, <3>3 DEF Intents, Staging
  <2>10. StagedFacts' /\ Holds'
    <3>1. StagedFacts'
      BY <1>2 DEF StagedFacts, Staging
    <3>2. job.success => Top.status = "COMPLETED"
      BY <1>0 DEF RecoveryInv, Holds
    <3>3. Holds'
      BY <1>2, <2>2, <2>5, <3>2 DEF Holds
    <3> QED BY <3>1, <3>3
  <2> QED BY <2>7, <2>8, <2>9, <2>10 DEF RecoveryInv
<1> QED BY <1>5, <1>6

----------------------------------------------------------------------------
(* The theorems *)

(* RecoveryInv is inductive.                                                *)
LEMMA RecoveryInvNext ==
  ASSUME RecoveryInv, [RecoveryNext]_recoveryVars
  PROVE  RecoveryInv'
<1>1. CASE StartAttempt \/ \E request \in Requests : ResumeAttempt(request)
  BY <1>1, BeginSteps
<1>2. CASE WorkerStep
  <2>1. CASE Bootstrap \/ Activate \/ Resolve \/ Prepare \/ Validate
    BY <2>1, BootstrapSteps, ActivateSteps, ResolveSteps, PrepareSteps, ValidateSteps
  <2>2. CASE \E s \in DOMAIN Stages :
               BeginStage(s) \/ StageSucceeds(s) \/ StageFails(s) \/ RecordStage(s)
    BY <2>2, BeginStageSteps, ExecutingSteps, RecordStageSteps DEF StageSet
  <2>3. CASE Complete \/ Finalize \/ FinalizeRaises \/ StageRaises
    BY <2>3, CompleteSteps, FinalizeSteps, RaisesSteps
  <2>4. CASE CallAgain \/ FirstAttemptEnds \/ ResumeEnds
    BY <2>4, CallAgainSteps, EndSteps
  <2> QED BY <1>2, <2>1, <2>2, <2>3, <2>4 DEF WorkerStep
<1>3. CASE Crash
  BY <1>3, CrashSteps
<1>4. CASE \E s \in FileStages : OwnerEdits(s)
  BY <1>4, OwnerSteps
<1>5. CASE UNCHANGED recoveryVars
  <2>1. UNCHANGED <<status, head, index, chain, ledger, file, performed, attempts, job>>
    BY <1>5 DEF recoveryVars, durable, world
  <2>2. Typed' /\ Lineage' /\ Intents'
    BY <2>1 DEF RecoveryInv, Typed, Lineage, Sound, Fresh, Intents, Underway
  <2>3. StagedFacts' /\ Holds'
    BY <2>1 DEF RecoveryInv, StagedFacts, Holds, Top, Sound, Fresh
  <2> QED BY <2>2, <2>3 DEF RecoveryInv
<1> QED BY <1>1, <1>2, <1>3, <1>4, <1>5 DEF RecoveryNext

(* RecoveryInv holds before the first attempt.                              *)
LEMMA RecoveryInvInit ==
  ASSUME RecoveryInit
  PROVE  RecoveryInv
<1>1. /\ job = Idle /\ chain = <<>> /\ index = NoIndex /\ attempts = 0 /\ head = 0
      /\ status = "CREATED" /\ ledger = [k \in Checkpoints |-> NoOperation]
      /\ file \in [FileStages -> {"absent", "theirs"}]
      /\ performed = [s \in EffectStages |-> 0]
  BY DEF RecoveryInit
<1>2. chain \in Seq(Fact) /\ Len(chain) = 0
  BY <1>1
<1>3. /\ index \in [work: Works, revision: Nat, checkpoint: Nat]
      /\ index.work = "NONE" /\ index.checkpoint = 0
  BY <1>1 DEF NoIndex, Works
<1>4. Typed
  <2>1. ledger \in [Checkpoints -> [state: {"NONE", "PREPARED", "COMMITTED"},
                                    action: Actions \cup {"none", "NONE"}]]
    BY <1>1 DEF NoOperation
  <2>2. /\ file \in [FileStages -> Versions \cup {"absent", "theirs"}]
        /\ performed \in [EffectStages -> Nat]
        /\ head \in Nat /\ attempts \in 0..MaxAttempts
    BY <1>1, ConstantsTyped
  <2> QED BY <1>1, <1>2, <1>3, <2>1, <2>2, IdleTyped DEF Typed
<1>5. Lineage
  BY <1>1, <1>2, <1>3, IdleTyped DEF Lineage
<1>6. Intents
  <2>1. ~Underway
    BY <1>1, IdleTyped DEF Underway, Working, Staging
  <2>2. \A k \in Checkpoints : ledger[k].state = "NONE"
    BY <1>1 DEF NoOperation
  <2> QED BY <1>1, <1>2, <2>1, <2>2, IdleTyped DEF Intents, Staging
<1>7. StagedFacts /\ Holds
  BY <1>1, IdleTyped DEF StagedFacts, Holds, Staging
<1> QED BY <1>4, <1>5, <1>6, <1>7 DEF RecoveryInv

(* RecoveryInv holds in every reachable state.                              *)
LEMMA RecoveryInvariant == RecoverySpec => []RecoveryInv
<1> QED BY RecoveryInvInit, RecoveryInvNext, PTL DEF RecoverySpec

(* Type correctness of the durable state, of the world and of the attempt.  *)
THEOREM RecoveryTypeCorrect == RecoverySpec => []RecoveryTypeOK
<1>1. RecoveryInv => RecoveryTypeOK
  <2> SUFFICES ASSUME RecoveryInv PROVE RecoveryTypeOK
    OBVIOUS
  <2>1. index.checkpoint \in 0..Len(chain) /\ job.pc \in Points
    BY InvTyped
  <2>2. \A k \in Checkpoints : ledger[k].state \in {"NONE", "PREPARED", "COMMITTED"}
    BY DEF RecoveryInv, Typed
  <2> QED BY <2>1, <2>2 DEF RecoveryInv, Typed, RecoveryTypeOK, Works
<1> QED BY <1>1, RecoveryInvariant, PTL

(* However an attempt ends, and after however many of them, the durable     *)
(* lineage holds no failure and no effect in doubt.                         *)
THEOREM DurableFactsAreSettledProved == RecoverySpec => []DurableFactsAreSettled
<1>1. RecoveryInv => DurableFactsAreSettled
  <2> SUFFICES ASSUME RecoveryInv, NEW k \in DOMAIN chain
               PROVE  /\ chain[k].verified
                      /\ \A s \in DOMAIN Stages : chain[k].effects[s] \notin Uncertain
    BY DEF DurableFactsAreSettled
  <2>1. k \in 1..Len(chain)
    BY InvTyped DEF Typed
  <2> QED BY <2>1 DEF RecoveryInv, Lineage, Sound, StageSet
<1> QED BY <1>1, RecoveryInvariant, PTL

(* A step of the world outside is one of a stage at work or of the owner.   *)
LEMMA OnlyStagesAct ==
  ASSUME RecoveryInv, [RecoveryNext]_recoveryVars
  PROVE  \/ UNCHANGED world
         \/ UNCHANGED performed /\ \E s \in FileStages : OwnerEdits(s)
         \/ job.pc = "executing" /\ (Acts(job.stage) \/ UNCHANGED world)
<1>1. CASE WorkerStep
  BY <1>1 DEF WorkerStep, Bootstrap, Activate, Resolve, Prepare, Validate, BeginStage,
              StageSucceeds, StageFails, RecordStage, Complete, Finalize, FinalizeRaises,
              StageRaises, CallAgain, FirstAttemptEnds, ResumeEnds, At
<1>2. CASE StartAttempt \/ Crash \/ \E request \in Requests : ResumeAttempt(request)
  BY <1>2 DEF StartAttempt, Crash, ResumeAttempt
<1>3. CASE \E s \in FileStages : OwnerEdits(s)
  BY <1>3 DEF OwnerEdits
<1>4. CASE UNCHANGED recoveryVars
  BY <1>4 DEF recoveryVars
<1> QED BY <1>1, <1>2, <1>3, <1>4 DEF RecoveryNext

(* Whatever the stages answer and however often they are tried, a Workflow  *)
(* writes only where there is no file, or what it has written there itself, *)
(* unless the owner has been there since it looked.                         *)
THEOREM FileNeverOverwrittenProved == RecoverySpec => FileNeverOverwritten
<1> DEFINE Keeps == \A s \in FileStages : file'[s] \in Versions =>
                      \/ file'[s] = file[s] \/ file[s] = "absent"
                      \/ job.raced /\ job.stage = s
<1>1. ASSUME RecoveryInv, [RecoveryNext]_recoveryVars PROVE [Keeps]_recoveryVars
  <2>1. UNCHANGED world => Keeps
    BY DEF world
  <2>2. ASSUME job.pc = "executing", Acts(job.stage) PROVE Keeps
    BY <1>1, <2>2, ActsTyped
  <2>3. ASSUME NEW s \in FileStages, OwnerEdits(s) PROVE Keeps
    <3>1. PICK content \in {"absent", "theirs"} : file' = [file EXCEPT ![s] = content]
      BY <2>3 DEF OwnerEdits
    <3>2. content \notin Versions
      BY RecoveryAssumption
    <3>3. file \in [FileStages -> Versions \cup {"absent", "theirs"}]
      BY <1>1 DEF RecoveryInv, Typed
    <3> QED BY <3>1, <3>2, <3>3
  <2> HIDE DEF Keeps
  <2> QED BY <1>1, <2>1, <2>2, <2>3, OnlyStagesAct
<1>2. RecoverySpec => [][Keeps]_recoveryVars
  BY <1>1, RecoveryInvariant, PTL DEF RecoverySpec
<1> QED BY <1>2 DEF FileNeverOverwritten

(* Nothing acts on the outside before its intent is durable, nor after the  *)
(* intent has been committed.                                               *)
THEOREM EffectUnderIntentProved == RecoverySpec => EffectUnderIntent
<1> DEFINE Announced == performed' # performed => Operation.state = "PREPARED"
<1>1. ASSUME RecoveryInv, [RecoveryNext]_recoveryVars PROVE [Announced]_recoveryVars
  <2>1. SUFFICES ASSUME performed' # performed PROVE Operation.state = "PREPARED"
    OBVIOUS
  <2>2. job.pc = "executing"
    BY <1>1, <2>1, OnlyStagesAct DEF world
  <2> QED BY <1>1, <2>2, StageUnderway, InvTyped DEF Operation, Staging
<1>2. RecoverySpec => [][Announced]_recoveryVars
  BY <1>1, RecoveryInvariant, PTL DEF RecoverySpec
<1> QED BY <1>2 DEF EffectUnderIntent

(* A resumed Run is completed only by a Workflow that is durably completed  *)
(* and whose every effect has happened.                                     *)
THEOREM CompletionIsDurableProved == RecoverySpec => CompletionIsDurable
<1> DEFINE Durable ==
      (At("deciding") /\ status' = "COMPLETED") =>
        /\ index.work = "COMPLETED"
        /\ \A s \in EffectStages : performed[s] > 0
<1>1. ASSUME RecoveryInv, [RecoveryNext]_recoveryVars PROVE [Durable]_recoveryVars
  <2>1. SUFFICES ASSUME job.pc = "deciding", status' = "COMPLETED"
                 PROVE  /\ index.work = "COMPLETED"
                        /\ \A s \in EffectStages : performed[s] > 0
    BY DEF At
  <2>2. status = "RUNNING"
    BY <1>1, <2>1 DEF RecoveryInv, Typed
  <2>3. ResumeEnds
    <3>1. ~UNCHANGED recoveryVars
      BY <2>1, <2>2 DEF recoveryVars, durable
    <3>2. ~StartAttempt /\ ~Crash /\ ~\E request \in Requests : ResumeAttempt(request)
      BY <2>1, <2>2 DEF StartAttempt, ResumeAttempt, Crash, durable
    <3>3. ~\E s \in FileStages : OwnerEdits(s)
      BY <2>1, <2>2 DEF OwnerEdits, durable
    <3>4. WorkerStep => ResumeEnds
      BY <2>1 DEF WorkerStep, Bootstrap, Activate, Resolve, Prepare, Validate, BeginStage,
                  StageSucceeds, StageFails, RecordStage, Complete, Finalize, FinalizeRaises,
                  StageRaises, CallAgain, FirstAttemptEnds, At
    <3> QED BY <1>1, <3>1, <3>2, <3>3, <3>4 DEF RecoveryNext
  <2>4. FoundCompleted \/ job.success
    BY <2>1, <2>3 DEF ResumeEnds, ResumeOutcome
  <2>5. index.work = "COMPLETED"
    BY <1>1, <2>1, <2>4 DEF RecoveryInv, Holds, FoundCompleted
  <2>6. Len(chain) \in 1..Len(chain) /\ Len(chain) > 0
    BY <1>1, <2>5, InvTyped DEF RecoveryInv, Lineage
  <2>7. chain[Len(chain)].done = StageSet /\ Sound(chain[Len(chain)], performed)
    BY <1>1, <2>5, <2>6 DEF RecoveryInv, Lineage
  <2> QED BY <2>5, <2>7, ConstantsTyped DEF Sound
<1>2. RecoverySpec => [][Durable]_recoveryVars
  BY <1>1, RecoveryInvariant, PTL DEF RecoverySpec
<1> QED BY <1>2 DEF CompletionIsDurable
=============================================================================
