-------------------------- MODULE RunServiceProofs --------------------------
(***************************************************************************)
(* AgentService processes use the store as RunStore's clients may, so what *)
(* RunStoreProofs proves of the store holds for the service, for any       *)
(* number of processes, Runs and faults; and the fence decides between     *)
(* attempts, so that what one executes, ends or gives back is its own.     *)
(***************************************************************************)
EXTENDS RunService, RunStoreProofs

----------------------------------------------------------------------------
(* Calls that name the token a worker remembers are store steps: the store  *)
(* accepts them only while that token is the current one.                   *)

(* A transition the launcher asks for, under any token, is a fenced step of *)
(* the store's client: the token it is granted under is the head's.         *)
LEMMA TransitionIsStep ==
  ASSUME NEW r \in Runs, NEW w \in Writers, NEW t,
         NEW target \in LauncherTargets, NEW type, Transition(r, w, t, target, type)
  PROVE  FencedStep(r, w)
<1>1. t = head[r].token /\ type \in EventsFor(target)
  BY DEF Transition, MayTransition, Owns
<1> QED BY <1>1 DEF FencedStep

(* The same of the other fenced operations, whatever token and revision a   *)
(* task passes.                                                             *)
LEMMA FencedCallIsStep ==
  ASSUME NEW r \in Runs, NEW w \in Writers, NEW t
  PROVE  /\ ObserveInterruption(r, w, t) => FencedStep(r, w)
         /\ FinalizeInterruption(r, w, t) => FencedStep(r, w)
         /\ \A n : BootstrapIndex(r, w, t, n) => FencedStep(r, w)
         /\ \A n : ActivateWorkflow(r, w, t, n) => FencedStep(r, w)
         /\ \A n : \A k \in Keys, op \in {"resume", "workflow"} :
              PrepareOperation(r, w, t, n, k, op) => FencedStep(r, w)
         /\ \A n : \A k \in Keys, done \in BOOLEAN :
              FinalizeBundle(r, w, t, n, k, done) => FencedStep(r, w)
<1>1. ASSUME ObserveInterruption(r, w, t) PROVE FencedStep(r, w)
  <2>1. t = head[r].token BY <1>1 DEF ObserveInterruption, MayObserve, Owns
  <2> QED BY <1>1, <2>1 DEF FencedStep
<1>2. ASSUME FinalizeInterruption(r, w, t) PROVE FencedStep(r, w)
  <2>1. t = head[r].token BY <1>2 DEF FinalizeInterruption, MayFinalize, Owns
  <2> QED BY <1>2, <2>1 DEF FencedStep
<1>3. \A n : WriteHead(r, w, t, n) => t = head[r].token /\ n = head[r].revision
  BY DEF WriteHead, Owns
<1>4. ASSUME NEW n, BootstrapIndex(r, w, t, n) PROVE FencedStep(r, w)
  <2>1. t = head[r].token /\ n = head[r].revision BY <1>3, <1>4 DEF BootstrapIndex
  <2> QED BY <1>4, <2>1 DEF FencedStep
<1>5. ASSUME NEW n, ActivateWorkflow(r, w, t, n) PROVE FencedStep(r, w)
  <2>1. t = head[r].token /\ n = head[r].revision BY <1>3, <1>5 DEF ActivateWorkflow
  <2> QED BY <1>5, <2>1 DEF FencedStep
<1>6. ASSUME NEW n, NEW k \in Keys, NEW op \in {"resume", "workflow"},
             PrepareOperation(r, w, t, n, k, op)
      PROVE  FencedStep(r, w)
  <2>1. t = head[r].token /\ n = head[r].revision BY <1>3, <1>6 DEF PrepareOperation
  <2> QED BY <1>6, <2>1 DEF FencedStep
<1>7. ASSUME NEW n, NEW k \in Keys, NEW done \in BOOLEAN,
             FinalizeBundle(r, w, t, n, k, done)
      PROVE  FencedStep(r, w)
  <2>1. t = head[r].token /\ n = head[r].revision BY <1>3, <1>7 DEF FinalizeBundle
  <2> QED BY <1>7, <2>1 DEF FencedStep
<1> QED BY <1>1, <1>2, <1>4, <1>5, <1>6, <1>7

(* Renewing, releasing and taking a fence are ownership steps of the        *)
(* client.                                                                  *)
LEMMA OwnershipCallIsStep ==
  ASSUME NEW r \in Runs, NEW w \in Writers, NEW t, NEW takeover
  PROVE  /\ RenewLease(r, w, t) => OwnershipStep(r, w)
         /\ ReleaseFence(r, w, t) => OwnershipStep(r, w)
         /\ TakeFence(w, r, takeover) => OwnershipStep(r, w)
<1>1. ASSUME RenewLease(r, w, t) PROVE OwnershipStep(r, w)
  <2>1. t = head[r].token BY <1>1 DEF RenewLease, MayRenew, Owns
  <2> QED BY <1>1, <2>1 DEF OwnershipStep
<1>2. ASSUME ReleaseFence(r, w, t) PROVE OwnershipStep(r, w)
  <2>1. t = head[r].token BY <1>2 DEF ReleaseFence, Owns
  <2> QED BY <1>2, <2>1 DEF OwnershipStep
<1>3. ASSUME TakeFence(w, r, takeover) PROVE OwnershipStep(r, w)
  BY <1>3 DEF TakeFence, OwnershipStep
<1> QED BY <1>1, <1>2, <1>3

----------------------------------------------------------------------------
(* The invariant of the service                                             *)

(* A revision read for a progress event is one the head has had.            *)
ReadBehind ==
  \A w \in Writers, r \in Runs :
    worker[w][r].pc = "appending" =>
      Exists(r) /\ worker[w][r].revision \in 1..head[r].revision

ServiceInv == ServiceTypeOK /\ AgreementInv /\ ReadBehind

(* What a step of a task may do to the task itself.                         *)
TaskChange(w, r) ==
  \/ UNCHANGED <<worker, alive>>
  \/ \E s \in WorkerType :
       /\ Become(w, r, s)
       /\ s.pc = "appending" =>
            Exists(r) /\ s.revision = head[r].revision /\ UNCHANGED vars

StoreStep == [Next]_vars

(* A task that only moves to another point, not between head() and          *)
(* append_event, keeps its record well formed.                              *)
LEMMA GoChanges ==
  ASSUME ServiceInv, NEW w \in Writers, NEW r \in Runs,
         NEW pc \in Points \ {"appending"}, Go(w, r, pc)
  PROVE  TaskChange(w, r)
<1>1. worker[w][r] \in WorkerType BY DEF ServiceInv, ServiceTypeOK
<1>2. /\ [worker[w][r] EXCEPT !.pc = pc] \in WorkerType
      /\ [worker[w][r] EXCEPT !.pc = pc].pc = pc
  BY <1>1 DEF WorkerType
<1> QED BY <1>2 DEF Go, TaskChange

(* So does a task that ends.                                                *)
LEMMA StopChanges ==
  ASSUME NEW w \in Writers, NEW r \in Runs, Stop(w, r) PROVE TaskChange(w, r)
<1>1. NoWorker \in WorkerType /\ NoWorker.pc # "appending"
  BY DEF NoWorker, WorkerType, Points
<1> QED BY <1>1 DEF Stop, TaskChange

(* A step that leaves the store alone is a stutter of the store.            *)
LEMMA UnchangedIsStep == UNCHANGED vars => StoreStep
BY DEF StoreStep

(* What any writer does to one Run is a step of the store.                  *)
LEMMA StepIsStoreStep ==
  ASSUME NEW r \in Runs, NEW w \in Writers,
         OwnershipStep(r, w) \/ FencedStep(r, w) \/ UnfencedStep(r)
  PROVE  StoreStep
BY DEF StoreStep, Next

(* The literal points and statuses of the actions are of their kinds.       *)
LEMMA PointsOf ==
  /\ {"idle", "reserved", "opened", "prepared", "started", "running", "resuming",
      "resumed", "deciding", "failing", "observing", "finalizing", "committing",
      "closing"} \subseteq Points \ {"appending"}
  /\ {"RUNNING", "BLOCKED", "FAILED_TERMINAL"} \cup Outcomes \subseteq LauncherTargets
BY DEF Points, Awaiting, Synchronous, Outcomes, LauncherTargets

----------------------------------------------------------------------------
(* Every step of a process is a step of the store, or leaves it alone       *)

(* start_run, create_run and run_started take only steps of the store.      *)
LEMMA AdmissionSteps ==
  ASSUME ServiceInv, NEW w \in Writers, NEW r \in Runs, AdmissionStep(w, r)
  PROVE  StoreStep /\ TaskChange(w, r)
<1>0. worker[w][r] \in WorkerType BY DEF ServiceInv, ServiceTypeOK
<1>1. ASSUME NEW k \in Keys, StartRun(w, r, k) PROVE StoreStep /\ TaskChange(w, r)
  <2>1. StoreStep BY <1>1, StepIsStoreStep DEF StartRun, OwnershipStep
  <2> DEFINE s == [pc |-> "reserved", mode |-> "start", token |-> 1, revision |-> 0]
  <2>2. s \in WorkerType BY PointsOf DEF WorkerType
  <2>3. Become(w, r, s) BY <1>1 DEF StartRun
  <2> QED BY <2>1, <2>2, <2>3 DEF TaskChange
<1>2. ASSUME OpenContext(w, r) PROVE StoreStep /\ TaskChange(w, r)
  <2>1. StoreStep BY <1>2, StepIsStoreStep, OwnershipCallIsStep DEF OpenContext
  <2>2. head'[r].token \in Nat
    BY <2>1, TypeNext DEF StoreStep, ServiceInv, AgreementInv, TypeOK, HeadType
  <2> DEFINE s == [worker[w][r] EXCEPT !.pc = "opened", !.token = head'[r].token]
  <2>3. s \in WorkerType /\ s.pc = "opened" BY <1>0, <2>2, PointsOf DEF WorkerType
  <2>4. Become(w, r, s) BY <1>2 DEF OpenContext
  <2> QED BY <2>1, <2>3, <2>4 DEF TaskChange
<1>3. ASSUME OpenFails(w, r) PROVE StoreStep /\ TaskChange(w, r)
  BY <1>3, StopChanges, UnchangedIsStep, OwnershipCallIsStep, StepIsStoreStep DEF OpenFails
<1>4. ASSUME BeginRun(w, r) PROVE StoreStep /\ TaskChange(w, r)
  BY <1>4, GoChanges, PointsOf, UnchangedIsStep, TransitionIsStep, StepIsStoreStep
  DEF BeginRun
<1> QED BY <1>1, <1>2, <1>3, <1>4 DEF AdmissionStep

(* So do resume_run and run_resumed.                                        *)
LEMMA ResumeSteps ==
  ASSUME ServiceInv, NEW w \in Writers, NEW r \in Runs, ResumeStep(w, r)
  PROVE  StoreStep /\ TaskChange(w, r)
<1>0. worker[w][r] \in WorkerType BY DEF ServiceInv, ServiceTypeOK
<1>1. ASSUME ResumeRun(w, r) PROVE StoreStep /\ TaskChange(w, r)
  <2> DEFINE s == [NoWorker EXCEPT !.pc = "resuming", !.mode = "resume"]
  <2>1. s \in WorkerType /\ s.pc = "resuming" BY PointsOf DEF NoWorker, WorkerType
  <2>2. Become(w, r, s) /\ UNCHANGED vars BY <1>1 DEF ResumeRun
  <2> QED BY <2>1, <2>2, UnchangedIsStep DEF TaskChange
<1>2. ASSUME ResumeContext(w, r) PROVE StoreStep /\ TaskChange(w, r)
  <2>1. StoreStep BY <1>2, StepIsStoreStep, OwnershipCallIsStep DEF ResumeContext
  <2>2. head'[r].token \in Nat
    BY <2>1, TypeNext DEF StoreStep, ServiceInv, AgreementInv, TypeOK, HeadType
  <2> DEFINE s == [worker[w][r] EXCEPT !.pc = "resumed", !.token = head'[r].token]
  <2>3. s \in WorkerType /\ s.pc = "resumed" BY <1>0, <2>2, PointsOf DEF WorkerType
  <2>4. Become(w, r, s) BY <1>2 DEF ResumeContext
  <2> QED BY <2>1, <2>3, <2>4 DEF TaskChange
<1>3. ASSUME ResumeFails(w, r) PROVE StoreStep /\ TaskChange(w, r)
  BY <1>3, StopChanges, UnchangedIsStep, OwnershipCallIsStep, StepIsStoreStep DEF ResumeFails
<1>4. ASSUME NEW k \in Keys, ClaimResume(w, r, k) PROVE StoreStep /\ TaskChange(w, r)
  BY <1>4, GoChanges, PointsOf, FencedCallIsStep, StepIsStoreStep DEF ClaimResume
<1>5. ASSUME NEW k \in Keys, ReplayResume(w, r, k) PROVE StoreStep /\ TaskChange(w, r)
  BY <1>5, GoChanges, PointsOf, UnchangedIsStep DEF ReplayResume
<1>6. ASSUME LoseResume(w, r) PROVE StoreStep /\ TaskChange(w, r)
  BY <1>6, GoChanges, PointsOf, UnchangedIsStep DEF LoseResume
<1>7. ASSUME BeginResume(w, r) PROVE StoreStep /\ TaskChange(w, r)
  BY <1>7, GoChanges, PointsOf, UnchangedIsStep, TransitionIsStep, StepIsStoreStep
  DEF BeginResume
<1> QED BY <1>1, <1>2, <1>3, <1>4, <1>5, <1>6, <1>7 DEF ResumeStep

(* So does an attempt under way; a progress event names a revision between  *)
(* 1 and the head's, because it was read before.                            *)
LEMMA AttemptSteps ==
  ASSUME ServiceInv, NEW w \in Writers, NEW r \in Runs, AttemptStep(w, r)
  PROVE  StoreStep /\ TaskChange(w, r)
<1>0. worker[w][r] \in WorkerType BY DEF ServiceInv, ServiceTypeOK
<1>1. ASSUME SetUp(w, r) \/ SetUpRaises(w, r) \/ CommitRefused(w, r) \/ LoseLease(w, r)
      PROVE  StoreStep /\ TaskChange(w, r)
  <2>1. UNCHANGED vars /\ \E pc \in {"running", "closing", "failing"} : Go(w, r, pc)
    BY <1>1 DEF SetUp, SetUpRaises, CommitRefused, LoseLease
  <2> QED BY <2>1, GoChanges, PointsOf, UnchangedIsStep
<1>2. ASSUME BlockResume(w, r) PROVE StoreStep /\ TaskChange(w, r)
  BY <1>2, GoChanges, PointsOf, UnchangedIsStep, TransitionIsStep, StepIsStoreStep
  DEF BlockResume
<1>3. ASSUME WorkflowStep(w, r) PROVE StoreStep /\ TaskChange(w, r)
  BY <1>3, FencedCallIsStep, StepIsStoreStep DEF WorkflowStep, TaskChange
<1>4. ASSUME ReadRevision(w, r) PROVE StoreStep /\ TaskChange(w, r)
  <2> DEFINE s == [worker[w][r] EXCEPT !.pc = "appending", !.revision = head[r].revision]
  <2>1. head[r].revision \in Nat
    BY DEF ServiceInv, ServiceTypeOK, TypeOK, HeadType
  <2>2. s \in WorkerType /\ s.revision = head[r].revision
    BY <1>0, <2>1 DEF WorkerType, Points, Synchronous
  <2>3. Become(w, r, s) /\ UNCHANGED vars /\ Exists(r)
    BY <1>4 DEF ReadRevision, Owns
  <2> QED BY <2>2, <2>3, UnchangedIsStep DEF TaskChange
<1>5. ASSUME PersistProgress(w, r) PROVE StoreStep /\ TaskChange(w, r)
  <2>1. StoreStep
    <3>1. worker[w][r].revision \in 1..head[r].revision
      BY <1>5 DEF PersistProgress, At, ServiceInv, ReadBehind
    <3> QED BY <1>5, <3>1, UnchangedIsStep, StepIsStoreStep
            DEF PersistProgress, UnfencedStep
  <2> DEFINE s == [worker[w][r] EXCEPT !.pc = "running", !.revision = 0]
  <2>2. s \in WorkerType /\ s.pc = "running" BY <1>0, PointsOf DEF WorkerType
  <2>3. Become(w, r, s) BY <1>5 DEF PersistProgress
  <2> QED BY <2>1, <2>2, <2>3 DEF TaskChange
<1>6. ASSUME Heartbeat(w, r) PROVE StoreStep /\ TaskChange(w, r)
  BY <1>6, OwnershipCallIsStep, StepIsStoreStep DEF Heartbeat, TaskChange
<1> QED BY <1>1, <1>2, <1>3, <1>4, <1>5, <1>6 DEF AttemptStep

(* So does the end of an attempt.                                           *)
LEMMA EndSteps ==
  ASSUME ServiceInv, NEW w \in Writers, NEW r \in Runs, EndStep(w, r)
  PROVE  StoreStep /\ TaskChange(w, r)
<1>1. ASSUME DecideResume(w, r) PROVE StoreStep /\ TaskChange(w, r)
  <2>1. TaskChange(w, r) BY <1>1, GoChanges, PointsOf DEF DecideResume
  <2>2. ASSUME AppendProgress(r, head[r].revision) PROVE StoreStep
    <3>1. head[r].revision \in 1..head[r].revision
      BY <2>2 DEF AppendProgress, ServiceInv, AgreementInv, RevisionOrder, TypeOK, HeadType
    <3> QED BY <2>2, <3>1, StepIsStoreStep DEF UnfencedStep
  <2> QED BY <1>1, <2>1, <2>2, UnchangedIsStep DEF DecideResume
<1>2. ASSUME RuntimeReturns(w, r) \/ BoundaryRaises(w, r) \/ RuntimeRaises(w, r)
      PROVE  StoreStep /\ TaskChange(w, r)
  <2>1. /\ UNCHANGED vars
        /\ \E pc \in {"committing", "observing", "closing", "failing"} : Go(w, r, pc)
    BY <1>2 DEF RuntimeReturns, BoundaryRaises, RuntimeRaises
  <2> QED BY <2>1, GoChanges, PointsOf, UnchangedIsStep
<1>3. ASSUME Refused(w, r) PROVE StoreStep /\ TaskChange(w, r)
  <2>1. AfterRefusal(w, r) \in {"closing", "failing"} BY DEF AfterRefusal
  <2> QED BY <1>3, <2>1, GoChanges, PointsOf, UnchangedIsStep DEF Refused
<1>4. ASSUME WriteFailure(w, r) PROVE StoreStep /\ TaskChange(w, r)
  BY <1>4, GoChanges, PointsOf, UnchangedIsStep, TransitionIsStep, StepIsStoreStep
  DEF WriteFailure
<1>5. ASSUME WriteOutcome(w, r) PROVE StoreStep /\ TaskChange(w, r)
  <2>1. PICK target \in Outcomes : \E type \in EventsFor(target) :
          \/ Transition(r, w, Token(w, r), target, type) /\ Go(w, r, "closing")
          \/ Refused(w, r)
    BY <1>5 DEF WriteOutcome
  <2>2. target \in LauncherTargets BY PointsOf
  <2> QED BY <1>3, <2>1, <2>2, GoChanges, PointsOf, TransitionIsStep, StepIsStoreStep
<1>6. ASSUME Observe(w, r) PROVE StoreStep /\ TaskChange(w, r)
  BY <1>3, <1>6, GoChanges, PointsOf, UnchangedIsStep, FencedCallIsStep, StepIsStoreStep
  DEF Observe
<1>7. ASSUME Finalize(w, r) PROVE StoreStep /\ TaskChange(w, r)
  BY <1>3, <1>7, GoChanges, PointsOf, FencedCallIsStep, StepIsStoreStep DEF Finalize
<1>8. ASSUME CloseContext(w, r) PROVE StoreStep /\ TaskChange(w, r)
  BY <1>8, StopChanges, UnchangedIsStep, OwnershipCallIsStep, StepIsStoreStep
  DEF CloseContext
<1> QED BY <1>1, <1>2, <1>4, <1>5, <1>6, <1>7, <1>8 DEF EndStep

(* So does everything a process does for a Run, watchdog and cancel_run     *)
(* included.                                                                *)
LEMMA ProcessSteps ==
  ASSUME ServiceInv, NEW w \in Writers, NEW r \in Runs,
         \/ AdmissionStep(w, r) \/ ResumeStep(w, r) \/ AttemptStep(w, r)
         \/ EndStep(w, r) \/ Watchdog(w, r) \/ CancelRun(w, r)
  PROVE  StoreStep /\ TaskChange(w, r)
<1>1. ASSUME Watchdog(w, r) \/ CancelRun(w, r) PROVE StoreStep /\ TaskChange(w, r)
  <2>1. UnfencedStep(r) /\ UNCHANGED <<worker, alive>>
    BY <1>1 DEF Watchdog, CancelRun, UnfencedStep, Reasons
  <2> QED BY <2>1, StepIsStoreStep DEF TaskChange
<1> QED BY <1>1, AdmissionSteps, ResumeSteps, AttemptSteps, EndSteps

(* Every step of the service, crashes and time included, is a step of the   *)
(* store or leaves it alone.                                                *)
LEMMA ServiceStepIsStoreStep ==
  ASSUME ServiceInv, [ServiceNext]_serviceVars PROVE StoreStep
<1>1. ASSUME NEW w \in Writers, Crash(w) PROVE StoreStep
  BY <1>1, UnchangedIsStep DEF Crash
<1>2. ASSUME Time PROVE StoreStep BY <1>2 DEF Time, StoreStep, Next
<1>3. ASSUME UNCHANGED serviceVars PROVE StoreStep
  BY <1>3, UnchangedIsStep DEF serviceVars
<1> QED BY <1>1, <1>2, <1>3, ProcessSteps DEF ServiceNext

----------------------------------------------------------------------------
(* The invariant is inductive                                               *)

(* The store never takes a Run away or its revision back.                   *)
LEMMA RevisionsGrow ==
  ASSUME AgreementInv, [Next]_vars, NEW q \in Runs, Exists(q)
  PROVE  head'[q].status # "ABSENT" /\ head'[q].revision >= head[q].revision
<1>1. StepOf(q) BY EveryStepOf DEF AgreementInv
<1>2. head[q].revision \in Nat BY DEF AgreementInv, TypeOK, HeadType
<1>3. OutcomeOf(intent[q].reason) # "ABSENT" BY DEF OutcomeOf
<1> QED
  BY <1>1, <1>2, <1>3
  DEF StepOf, Kept, Reaped, Admitted, Moved, Interrupted, Observed, Finalized,
      Progressed, Bootstrapped, Activated, Committed, SameStatus, NextRevision,
      Exists, LauncherTargets

(* One task moves and the store takes a step: the records stay well formed, *)
(* and what any task has read stays behind the head.                        *)
LEMMA TaskChangeKept ==
  ASSUME ServiceInv, StoreStep, NEW w \in Writers, NEW r \in Runs, TaskChange(w, r)
  PROVE  /\ worker' \in [Writers -> [Runs -> WorkerType]]
         /\ alive' \in SUBSET Writers
         /\ ReadBehind'
<1> USE DEF ServiceInv, ServiceTypeOK
<1>1. ASSUME NEW v \in Writers, NEW q \in Runs, worker'[v][q] = worker[v][q],
             worker[v][q].pc = "appending"
      PROVE  Exists(q)' /\ worker'[v][q].revision \in 1..head'[q].revision
  <2>1. Exists(q) /\ worker[v][q].revision \in 1..head[q].revision
    BY <1>1 DEF ReadBehind
  <2>2. /\ head'[q].status # "ABSENT" /\ head'[q].revision >= head[q].revision
    BY <2>1, RevisionsGrow DEF StoreStep
  <2>3. TypeOK' BY TypeNext DEF StoreStep
  <2>4. head[q].revision \in Nat /\ head'[q].revision \in Nat
    BY <2>3 DEF TypeOK, HeadType
  <2> QED BY <1>1, <2>1, <2>2, <2>4 DEF Exists
<1>2. CASE UNCHANGED <<worker, alive>>
  BY <1>1, <1>2 DEF ReadBehind
<1>3. ASSUME NEW s \in WorkerType, Become(w, r, s),
             s.pc = "appending" =>
               Exists(r) /\ s.revision = head[r].revision /\ UNCHANGED vars
      PROVE  /\ worker' \in [Writers -> [Runs -> WorkerType]]
             /\ alive' \in SUBSET Writers
             /\ ReadBehind'
  <2>1. worker' = [worker EXCEPT ![w][r] = s] /\ alive' = alive
    BY <1>3 DEF Become
  <2>2. worker' \in [Writers -> [Runs -> WorkerType]] BY <2>1
  <2>3. worker'[w][r] = s
        /\ \A v \in Writers, q \in Runs : v # w \/ q # r => worker'[v][q] = worker[v][q]
    BY <2>1
  <2>4. s.pc = "appending" => Exists(r)' /\ s.revision \in 1..head'[r].revision
    <3>1. ASSUME s.pc = "appending"
          PROVE  Exists(r)' /\ s.revision \in 1..head'[r].revision
      <4>1. head[r].revision \in Nat /\ head[r].revision > 0
        BY <1>3, <3>1 DEF AgreementInv, RevisionOrder, TypeOK, HeadType
      <4>2. head' = head BY <1>3, <3>1 DEF vars
      <4> QED BY <1>3, <3>1, <4>1, <4>2 DEF Exists
    <3> QED BY <3>1
  <2>5. ReadBehind' BY <1>1, <2>3, <2>4 DEF ReadBehind
  <2> QED BY <2>1, <2>2, <2>5
<1> QED BY <1>2, <1>3 DEF TaskChange

(* ServiceInv is inductive.                                                 *)
LEMMA ServiceInvNext ==
  ASSUME ServiceInv, [ServiceNext]_serviceVars PROVE ServiceInv'
<1>1. StoreStep BY ServiceStepIsStoreStep
<1>2. AgreementInv' BY <1>1, AgreementNext DEF ServiceInv, StoreStep
<1>3. /\ worker' \in [Writers -> [Runs -> WorkerType]]
      /\ alive' \in SUBSET Writers
      /\ ReadBehind'
  <2>1. ASSUME NEW w \in Writers, NEW r \in Runs, TaskChange(w, r)
        PROVE  /\ worker' \in [Writers -> [Runs -> WorkerType]]
               /\ alive' \in SUBSET Writers
               /\ ReadBehind'
    BY <1>1, <2>1, TaskChangeKept
  <2>2. ASSUME UNCHANGED <<worker, alive>>
        PROVE  /\ worker' \in [Writers -> [Runs -> WorkerType]]
               /\ alive' \in SUBSET Writers
               /\ ReadBehind'
    <3>1. CASE \E w \in Writers, r \in Runs : TRUE
      BY <2>1, <2>2, <3>1 DEF TaskChange
    <3>2. CASE ~\E w \in Writers, r \in Runs : TRUE
      BY <2>2, <3>2 DEF ServiceInv, ServiceTypeOK, ReadBehind
    <3> QED BY <3>1, <3>2
  <2>3. ASSUME NEW w \in Writers, Crash(w)
        PROVE  /\ worker' \in [Writers -> [Runs -> WorkerType]]
               /\ alive' \in SUBSET Writers
               /\ ReadBehind'
    <3>1. NoWorker \in WorkerType /\ NoWorker.pc # "appending"
      BY DEF NoWorker, WorkerType, Points
    <3>2. /\ worker' = [worker EXCEPT ![w] = [r \in Runs |-> NoWorker]]
          /\ alive' = alive \ {w} /\ head' = head
      BY <2>3 DEF Crash, vars
    <3> QED BY <3>1, <3>2 DEF ServiceInv, ServiceTypeOK, ReadBehind, Exists
  <2>4. ASSUME Time PROVE UNCHANGED <<worker, alive>> BY <2>4 DEF Time
  <2>5. ASSUME UNCHANGED serviceVars PROVE UNCHANGED <<worker, alive>>
    BY <2>5 DEF serviceVars
  <2> QED BY <2>1, <2>2, <2>3, <2>4, <2>5, ProcessSteps DEF ServiceNext
<1>4. TypeOK' BY <1>2 DEF AgreementInv
<1> QED BY <1>2, <1>3, <1>4 DEF ServiceInv, ServiceTypeOK

(* ServiceInv holds in every reachable state of the service.                *)
LEMMA ServiceInvariant == ServiceSpec => []ServiceInv
<1>1. ASSUME ServiceInit PROVE ServiceInv
  <2>1. AgreementInv BY <1>1, AgreementInit DEF ServiceInit
  <2>2. TypeOK BY <2>1 DEF AgreementInv
  <2>3. NoWorker \in WorkerType /\ NoWorker.pc # "appending"
    BY DEF NoWorker, WorkerType, Points
  <2> QED BY <1>1, <2>1, <2>2, <2>3 DEF ServiceInit, ServiceInv, ServiceTypeOK, ReadBehind
<1>2. ServiceInv /\ [ServiceNext]_serviceVars => ServiceInv' BY ServiceInvNext
<1> QED BY <1>1, <1>2, PTL DEF ServiceSpec

(* Every task of every process stays at a point the code has, with a token  *)
(* and a revision, and the store stays well typed under crashes and stalls. *)
THEOREM ServiceTypeCorrect == ServiceSpec => []ServiceTypeOK
<1>1. ServiceInv => ServiceTypeOK BY DEF ServiceInv
<1> QED BY <1>1, ServiceInvariant, PTL

(* The processes, with their stale checks, their crashes and their unfenced *)
(* progress events, only ever take steps the store allows a client, so      *)
(* every theorem about the store is a theorem about the service.            *)
THEOREM ServiceImplementsStore == ServiceSpec => ImplementsStore
<1>1. ServiceInit => Init BY DEF ServiceInit
<1>2. ServiceInv /\ [ServiceNext]_serviceVars => [Next]_vars
  BY ServiceStepIsStoreStep DEF StoreStep
<1> QED BY <1>1, <1>2, ServiceInvariant, PTL DEF ServiceSpec, ImplementsStore, Spec

(* What clients, readers and auditors of the store are promised holds while *)
(* the processes run, crash, stall and resume.                              *)
THEOREM ServiceKeepsPromises ==
  ServiceSpec =>
    /\ ImplementsOutcome /\ ImplementsRunLog
    /\ []InterruptionAgreement /\ []OutcomeAgreement
    /\ NoCommitAfterOutcome /\ LiveOwnerKept
BY ServiceImplementsStore, StoreImplementsOutcome, StoreImplementsRunLog,
   InterruptionAgreementProved, OutcomeAgreementProved, NoCommitAfterOutcomeProved,
   LiveOwnerKeptProved
DEF ImplementsStore

----------------------------------------------------------------------------
(* What one step of a process does to Runs and tasks                        *)

(* The points at which a task relies on its fence, and those between        *)
(* run_started or run_resumed and the end of the attempt.                   *)
Holding   == Points \ {"idle", "resuming", "closing"}
Executing == {"started", "running", "appending"}

Open(q) == CanAppend(q, "run_failed")

(* A step of the task of w for r leaves every other task alone, and every   *)
(* other Run too, unless it admits r and reaps a Run without a live lease.  *)
Untouched(q) == head'[q] = head[q] /\ lease'[q] = lease[q] /\ log'[q] = log[q]
ReapedBy(q, r) ==
  /\ q \in Orphans(r) /\ ~LeaseLive(q) /\ Exists(r)'
  /\ SameFence(q) /\ head'[q].status = "FAILED_TERMINAL"
  /\ lease'[q] = NoLease
OthersKept(w, r) ==
  /\ w \in alive /\ alive' = alive
  /\ \A v \in Writers, q \in Runs : v # w \/ q # r => worker'[v][q] = worker[v][q]
  /\ \A q \in Runs \ {r} : Untouched(q) \/ ReapedBy(q, r)

(* What it does to r and to its own record is one of the following.         *)
Quiet(r) ==
  /\ SameFence(r) /\ head'[r].status = head[r].status
  /\ lease'[r].writer = lease[r].writer /\ lease'[r].token = lease[r].token
  /\ LeaseLive(r)' <=> LeaseLive(r)
  /\ Open(r)' <=> Open(r)
Follows(w, r) ==
  /\ worker'[w][r].token = worker[w][r].token
  /\ worker'[w][r].pc # "idle" => worker[w][r].pc # "idle"
  /\ worker'[w][r].pc \in Holding => worker[w][r].pc \in Holding
  /\ worker'[w][r].pc \in Executing => worker[w][r].pc \in Executing
Proceeds(w, r) ==
  /\ Quiet(r)
  /\ \/ worker'[w][r].pc = "idle"
     \/ Exists(r) /\ worker'[w][r].pc = "resuming" /\ worker'[w][r].token = 0
     \/ Follows(w, r)
Begins(w, r) ==
  /\ Owns(r, w, Token(w, r)) /\ worker[w][r].pc \in Holding
  /\ SameFence(r) /\ head'[r].status = "RUNNING"
  /\ head[r].status \notin FinalStatuses
  /\ lease'[r] = lease[r] /\ Open(r)'
  /\ worker'[w][r].pc = "started" /\ worker'[w][r].token = worker[w][r].token
Works(w, r) ==
  /\ Owns(r, w, Token(w, r)) /\ worker[w][r].pc = "running"
  /\ SameFence(r) /\ head'[r].status = "RUNNING"
  /\ lease'[r] = lease[r] /\ (Open(r)' <=> Open(r))
  /\ worker'[w][r] = worker[w][r]
Ends(w, r) ==
  /\ Owns(r, w, Token(w, r)) /\ worker[w][r].pc \in Holding
  /\ SameFence(r)
  /\ head'[r].status \in EndStatuses \cup {"WAITING_USER"}
  /\ head[r].status \in FinalStatuses => head'[r].status = head[r].status
  /\ lease'[r] \in {lease[r], NoLease}
  /\ worker'[w][r].pc = "closing"
  /\ worker'[w][r].token = worker[w][r].token
Asked(w, r) ==
  /\ Exists(r) /\ head[r].status \notin FinalStatuses
  /\ SameFence(r) /\ head'[r].status = "CANCELLING"
  /\ lease'[r] = lease[r] /\ Open(r)'
  /\ worker'[w][r] = worker[w][r]
GivesBack(w, r) ==
  /\ Owns(r, w, Token(w, r))
  /\ head'[r].writer = NoWriter /\ head'[r].token = head[r].token
  /\ head'[r].status = head[r].status
  /\ lease'[r] \in {lease[r], NoLease} /\ log'[r] = log[r]
  /\ worker'[w][r].pc = "idle"
Clears(r) ==
  \A q \in Rivals(r) : ~LeaseLive(q) /\ head'[q].status \notin {"CREATED", "RUNNING"}
Enters(w, r) ==
  /\ ~Exists(r) /\ Clears(r)
  /\ head'[r].status = "CREATED" /\ head'[r].writer = w /\ head'[r].token = 1
  /\ lease'[r] = Grant(w, 1) /\ Open(r)'
  /\ worker'[w][r].pc = "reserved" /\ worker'[w][r].token = 1
Takes(w, r) ==
  /\ Exists(r) /\ Clears(r)
  /\ worker[w][r].pc # "idle"
  /\ head'[r].status = head[r].status /\ head'[r].writer = w
  /\ \/ head[r].writer = w /\ head'[r].token = head[r].token
     \/ head'[r].token = head[r].token + 1
  /\ lease'[r] = Grant(w, head'[r].token) /\ log'[r] = log[r]
  /\ worker'[w][r].pc \in {"opened", "resumed", "idle"}
  /\ worker'[w][r].pc # "idle" => worker'[w][r].token = head'[r].token

TaskOf(w, r) ==
  /\ OthersKept(w, r)
  /\ \/ Proceeds(w, r) \/ Begins(w, r) \/ Works(w, r) \/ Ends(w, r)
     \/ Asked(w, r) \/ GivesBack(w, r) \/ Enters(w, r) \/ Takes(w, r)

----------------------------------------------------------------------------

(* What a task that moves writes down.                                      *)
LEMMA GoFacts ==
  ASSUME ServiceTypeOK, NEW w \in Writers, NEW r \in Runs, NEW pc, Go(w, r, pc)
  PROVE  /\ worker'[w][r].pc = pc /\ worker'[w][r].token = worker[w][r].token
         /\ alive' = alive
         /\ \A v \in Writers, q \in Runs : v # w \/ q # r => worker'[v][q] = worker[v][q]
<1>1. worker[w][r] \in WorkerType BY DEF ServiceTypeOK
<1>2. /\ [worker[w][r] EXCEPT !.pc = pc].pc = pc
      /\ [worker[w][r] EXCEPT !.pc = pc].token = worker[w][r].token
  BY <1>1 DEF WorkerType
<1> QED BY <1>2 DEF Go, Become, ServiceTypeOK

(* The same of a task whose whole record is written.                        *)
LEMMA BecomeFacts ==
  ASSUME ServiceTypeOK, NEW w \in Writers, NEW r \in Runs, NEW s, Become(w, r, s)
  PROVE  /\ worker'[w][r] = s /\ alive' = alive
         /\ \A v \in Writers, q \in Runs : v # w \/ q # r => worker'[v][q] = worker[v][q]
BY DEF Become, ServiceTypeOK

(* A step that leaves the store alone.                                      *)
LEMMA StillFacts ==
  ASSUME UNCHANGED vars
  PROVE  /\ \A q \in Runs : Untouched(q)
         /\ \A q \in Runs : Quiet(q)
BY DEF vars, Untouched, Quiet, SameFence, Open, CanAppend, LastType, LeaseLive

(* A new revision of a head keeps its fence and every other head.           *)
LEMMA AdvanceFacts ==
  ASSUME TypeOK, NEW r \in Runs, NEW status, head' = Advance(r, status)
  PROVE  /\ SameFence(r) /\ head'[r].status = status
         /\ \A q \in Runs \ {r} : head'[q] = head[q]
<1>1. head[r] \in HeadType BY DEF TypeOK
<1> QED BY <1>1 DEF Advance, SameFence, TypeOK, HeadType

(* An open log stays open under an event that is not terminal.              *)
LEMMA LoggedOpen ==
  ASSUME TypeOK, NEW r \in Runs, NEW type \in EventTypes \ TerminalEvents,
         Logged(r, type)
  PROVE  /\ Open(r)'
         /\ type # "run_resumed" => Open(r)
<1>1. /\ log'[r] # <<>> /\ log'[r][Len(log'[r])].type = type
  BY LoggedFacts
<1>2. Open(r)' BY <1>1 DEF Open, CanAppend, LastType
<1>3. type # "run_resumed" => Open(r) BY DEF Logged, Open, CanAppend
<1> QED BY <1>2, <1>3

(* What transition_run_with_event does to fence, lease and log.             *)
LEMMA TransitionFacts ==
  ASSUME TypeOK, NEW r \in Runs, NEW w \in Writers, NEW t, NEW target, NEW type,
         target \in LauncherTargets,
         Transition(r, w, t, target, type)
  PROVE  /\ Owns(r, w, t) /\ SameFence(r) /\ head'[r].status = target
         /\ target \in AllowedTargets(head[r].status)
         /\ target = "RUNNING" => lease'[r] = lease[r] /\ Open(r)'
         /\ lease'[r] \in {lease[r], NoLease}
         /\ \A q \in Runs \ {r} : Untouched(q)
<1>1. head[r] \in HeadType /\ head[r].revision \in Nat BY DEF TypeOK, HeadType
<1>2. SameFence(r) /\ head'[r].status = target
  BY <1>1 DEF Transition, SameFence, TypeOK, HeadType
<1>3. Owns(r, w, t) /\ target \in AllowedTargets(head[r].status)
      /\ type \in EventsFor(target) /\ CanAppend(r, type)
  BY DEF Transition, MayTransition
<1>4. lease'[r] \in {lease[r], NoLease}
      /\ \A q \in Runs \ {r} : lease'[q] = lease[q]
  BY DEF Transition, LeaseAfter, LeaseReleased, TypeOK
<1>5. type \in EventTypes BY <1>3, EventsForType
<1>6. /\ Logged(r, type) /\ \A q \in Runs \ {r} : log'[q] = log[q]
  BY <1>1, <1>3, <1>5, LoggedBy DEF Transition
<1>7. \A q \in Runs \ {r} : head'[q] = head[q] BY DEF Transition, TypeOK
<1>8. ASSUME target = "RUNNING" PROVE lease'[r] = lease[r] /\ Open(r)'
  <2>1. lease' = lease
    BY <1>8 DEF Transition, LeaseAfter, EndStatuses, FinalStatuses
  <2>2. type \in EventTypes \ TerminalEvents
    BY <1>3, <1>5, <1>8 DEF EventsFor, TerminalEvents
  <2> QED BY <1>6, <2>1, <2>2, LoggedOpen
<1> QED BY <1>2, <1>3, <1>4, <1>6, <1>7, <1>8 DEF Untouched

(* An admission to a session takes the other Runs that look active out of   *)
(* the way, all of them without a live lease.                               *)
LEMMA ReaperFacts ==
  ASSUME TypeOK, NEW r \in Runs, SessionAvailable(r), Exists(r)',
         \A q \in Runs \ {r} : /\ head'[q] = HeadReaped(r)[q]
                               /\ lease'[q] = LeaseReaped(r)[q]
                               /\ log'[q] = LogReaped(r)[q]
  PROVE  /\ \A q \in Runs \ {r} : Untouched(q) \/ ReapedBy(q, r)
         /\ Clears(r)
<1>1. ASSUME NEW q \in Runs \ {r}, q \in Orphans(r) PROVE ReapedBy(q, r)
  <2>1. head'[q] = [head[q] EXCEPT !.status = "FAILED_TERMINAL", !.age = 0]
        /\ lease'[q] = NoLease
    BY <1>1 DEF HeadReaped, LeaseReaped
  <2>2. head[q] \in HeadType BY DEF TypeOK
  <2>3. SameFence(q) /\ head'[q].status = "FAILED_TERMINAL"
    BY <2>1, <2>2, Zenon DEF SameFence, HeadType
  <2>4. ~LeaseLive(q) BY <1>1 DEF SessionAvailable, Orphans
  <2> QED BY <1>1, <2>1, <2>3, <2>4 DEF ReapedBy
<1>2. ASSUME NEW q \in Runs \ {r}, q \notin Orphans(r) PROVE Untouched(q)
  BY <1>2 DEF Untouched, HeadReaped, LeaseReaped, LogReaped
<1>3. ASSUME NEW q \in Rivals(r)
      PROVE  ~LeaseLive(q) /\ head'[q].status \notin {"CREATED", "RUNNING"}
  <2>1. q \in Runs \ {r} /\ ~LeaseLive(q) BY DEF Rivals, SessionAvailable
  <2>2. CASE q \in Orphans(r) BY <1>1, <2>1, <2>2 DEF ReapedBy
  <2>3. CASE q \notin Orphans(r)
    <3>1. head'[q] = head[q] /\ ~Active(q) BY <1>2, <2>1, <2>3 DEF Untouched, Orphans
    <3> QED BY <2>1, <3>1 DEF Active, ActiveStatuses
  <2> QED BY <2>2, <2>3
<1> QED BY <1>1, <1>2, <1>3 DEF Clears

(* A fence that is taken carries on with its own token or with a new one.   *)
LEMMA TakeFacts ==
  ASSUME TypeOK, NEW r \in Runs, NEW w \in Writers, NEW takeover,
         TakeFence(w, r, takeover)
  PROVE  /\ \A q \in Runs \ {r} : Untouched(q) \/ ReapedBy(q, r)
         /\ Exists(r) /\ Clears(r)
         /\ head'[r].status = head[r].status /\ head'[r].writer = w
         /\ \/ head[r].writer = w /\ head'[r].token = head[r].token
            \/ head'[r].token = head[r].token + 1
         /\ lease'[r] = Grant(w, head'[r].token) /\ log'[r] = log[r]
<1>0. /\ head[r] \in HeadType
      /\ HeadReaped(r) \in [Runs -> HeadType]
      /\ LeaseReaped(r) \in [Runs -> LeaseType]
      /\ r \notin Orphans(r)
  BY ReapedType DEF TypeOK, Orphans, Rivals
<1>1. CASE Reacquire(r, w, head[r].token)
  <2>1. /\ head'[r] = head[r] /\ lease'[r] = Grant(w, head[r].token)
        /\ log'[r] = log[r]
        /\ \A q \in Runs \ {r} : /\ head'[q] = HeadReaped(r)[q]
                                 /\ lease'[q] = LeaseReaped(r)[q]
                                 /\ log'[q] = LogReaped(r)[q]
    BY <1>0, <1>1 DEF Reacquire, HeadReaped, LogReaped
  <2>2. Exists(r) /\ head[r].writer = w /\ SessionAvailable(r)
    BY <1>1 DEF Reacquire, MayReacquire, MayRenew, Owns
  <2>3. Exists(r)' BY <2>1, <2>2 DEF Exists
  <2>4. (\A q \in Runs \ {r} : Untouched(q) \/ ReapedBy(q, r)) /\ Clears(r)
    BY <2>1, <2>2, <2>3, ReaperFacts
  <2> QED BY <2>1, <2>2, <2>4
<1>2. CASE GrantFence(r, w) /\ SessionAvailable(r) /\ Exists(r)
  <2>1. /\ head'[r] = [head[r] EXCEPT !.writer = w, !.token = NextToken(r), !.age = 0]
        /\ lease'[r] = Grant(w, NextToken(r)) /\ log'[r] = log[r]
        /\ \A q \in Runs \ {r} : /\ head'[q] = HeadReaped(r)[q]
                                 /\ lease'[q] = LeaseReaped(r)[q]
                                 /\ log'[q] = LogReaped(r)[q]
    BY <1>0, <1>2 DEF GrantFence, LogReaped
  <2>2. /\ head'[r].status = head[r].status /\ head'[r].writer = w
        /\ head'[r].token = NextToken(r)
    BY <1>0, <2>1, Zenon DEF HeadType
  <2>3. Exists(r)' BY <1>2, <2>2 DEF Exists
  <2>4. (\A q \in Runs \ {r} : Untouched(q) \/ ReapedBy(q, r)) /\ Clears(r)
    BY <1>2, <2>1, <2>3, ReaperFacts
  <2> QED BY <1>2, <2>1, <2>2, <2>4 DEF NextToken
<1> QED
  BY <1>1, <1>2
  DEF TakeFence, AcquireFence, MayAcquire, TakeoverFence, MayTakeOver

(* A task that moves on while the store stays as it is.                     *)
LEMMA StillStep ==
  ASSUME ServiceTypeOK, NEW w \in Writers, NEW r \in Runs, w \in alive,
         UNCHANGED vars, NEW pc, Go(w, r, pc),
         pc # "idle" => worker[w][r].pc # "idle",
         pc \in Holding => worker[w][r].pc \in Holding,
         pc \in Executing => worker[w][r].pc \in Executing
  PROVE  TaskOf(w, r)
<1>1. OthersKept(w, r) BY StillFacts, GoFacts DEF OthersKept
<1>2. Follows(w, r) BY GoFacts DEF Follows
<1>3. Quiet(r) BY StillFacts
<1> QED BY <1>1, <1>2, <1>3 DEF TaskOf, Proceeds

(* A task that ends while the store stays as it is.                         *)
LEMMA StopStep ==
  ASSUME ServiceTypeOK, NEW w \in Writers, NEW r \in Runs, w \in alive,
         UNCHANGED vars, Stop(w, r)
  PROVE  TaskOf(w, r)
<1>1. OthersKept(w, r) BY StillFacts, BecomeFacts DEF OthersKept, Stop
<1>2. worker'[w][r].pc = "idle" BY BecomeFacts DEF Stop, NoWorker
<1>3. Quiet(r) BY StillFacts
<1> QED BY <1>1, <1>2, <1>3 DEF TaskOf, Proceeds

(* A task that ends with a fence it has just taken.                         *)
LEMMA LeakStep ==
  ASSUME ServiceTypeOK, NEW w \in Writers, NEW r \in Runs, w \in alive,
         worker[w][r].pc # "idle", NEW takeover, TakeFence(w, r, takeover), Stop(w, r)
  PROVE  TaskOf(w, r)
<1>1. TypeOK BY DEF ServiceTypeOK
<1>2. /\ worker'[w][r].pc = "idle" /\ alive' = alive
      /\ \A v \in Writers, q \in Runs : v # w \/ q # r => worker'[v][q] = worker[v][q]
  BY BecomeFacts DEF Stop, NoWorker
<1>3. Takes(w, r) BY <1>1, <1>2, TakeFacts DEF Takes
<1>4. \A q \in Runs \ {r} : Untouched(q) \/ ReapedBy(q, r) BY <1>1, TakeFacts
<1> QED BY <1>2, <1>3, <1>4 DEF TaskOf, OthersKept

(* A transition to RUNNING or to the end of an attempt.                     *)
LEMMA TransitionStep ==
  ASSUME ServiceTypeOK, NEW w \in Writers, NEW r \in Runs, w \in alive,
         worker[w][r].pc \in Holding,
         NEW target, NEW type, target \in LauncherTargets,
         Transition(r, w, Token(w, r), target, type),
         IF target = "RUNNING" THEN Go(w, r, "started") ELSE Go(w, r, "closing"),
         target = "RUNNING" => head[r].status \notin FinalStatuses
  PROVE  TaskOf(w, r)
<1>1. TypeOK BY DEF ServiceTypeOK
<1>2. /\ Owns(r, w, Token(w, r)) /\ SameFence(r) /\ head'[r].status = target
      /\ target \in AllowedTargets(head[r].status)
      /\ target = "RUNNING" => lease'[r] = lease[r] /\ Open(r)'
      /\ lease'[r] \in {lease[r], NoLease}
      /\ \A q \in Runs \ {r} : Untouched(q)
  BY <1>1, TransitionFacts
<1>3. /\ worker'[w][r].pc = IF target = "RUNNING" THEN "started" ELSE "closing"
      /\ worker'[w][r].token = worker[w][r].token
      /\ alive' = alive
      /\ \A v \in Writers, q \in Runs : v # w \/ q # r => worker'[v][q] = worker[v][q]
  BY GoFacts
<1>4. OthersKept(w, r) BY <1>2, <1>3 DEF OthersKept
<1>5. CASE target = "RUNNING"
  <2>1. Begins(w, r) BY <1>2, <1>3, <1>5 DEF Begins
  <2> QED BY <1>4, <2>1 DEF TaskOf
<1>6. CASE target # "RUNNING"
  <2>1. target \in EndStatuses \cup {"WAITING_USER"}
    BY <1>6 DEF LauncherTargets, EndStatuses, FinalStatuses
  <2>2. head[r].status \in FinalStatuses => target = head[r].status
    BY <1>2 DEF AllowedTargets, FinalStatuses
  <2>3. Ends(w, r) BY <1>2, <1>3, <1>6, <2>1, <2>2 DEF Ends
  <2> QED BY <1>4, <2>3 DEF TaskOf
<1> QED BY <1>5, <1>6

(* No final status may become RUNNING by a transition.                      *)
LEMMA FinalIsFinal ==
  ASSUME NEW status \in FinalStatuses PROVE "RUNNING" \notin AllowedTargets(status)
BY DEF AllowedTargets, FinalStatuses

(* The points of Holding by name.                                           *)
LEMMA HoldingPoints ==
  /\ {"reserved", "opened", "prepared", "started", "running", "resumed",
      "appending", "deciding", "failing", "observing", "finalizing",
      "committing"} = Holding
  /\ Executing \subseteq Holding
BY DEF Holding, Executing, Points, Awaiting, Synchronous

(* The kinds of step, group by group.                                       *)
LEMMA AdmissionTask ==
  ASSUME ServiceTypeOK, NEW w \in Writers, NEW r \in Runs, AdmissionStep(w, r)
  PROVE  TaskOf(w, r)
<1>0. TypeOK /\ w \in alive
  BY DEF ServiceTypeOK, AdmissionStep, StartRun, OpenContext, OpenFails, BeginRun, At, Turn
<1>1. ASSUME NEW k \in Keys, StartRun(w, r, k) PROVE TaskOf(w, r)
  <2> DEFINE s == [pc |-> "reserved", mode |-> "start", token |-> 1, revision |-> 0]
  <2>1. /\ worker'[w][r] = s /\ alive' = alive
        /\ \A v \in Writers, q \in Runs : v # w \/ q # r => worker'[v][q] = worker[v][q]
    BY <1>1, BecomeFacts DEF StartRun
  <2>2. ReserveStart(k, r, w) BY <1>1 DEF StartRun
  <2>3. /\ head'[r] = [status |-> "CREATED", revision |-> 1, writer |-> w,
                       token |-> 1, age |-> 0]
        /\ lease'[r] = Grant(w, 1) /\ log'[r] = <<Event("run_created", 1)>>
        /\ \A q \in Runs \ {r} : /\ head'[q] = HeadReaped(r)[q]
                                 /\ lease'[q] = LeaseReaped(r)[q]
                                 /\ log'[q] = LogReaped(r)[q]
    BY <1>0, <2>2, ReapedType DEF ReserveStart
  <2>4. SessionAvailable(r) /\ ~Exists(r) BY <2>2 DEF ReserveStart
  <2>5. Exists(r)' BY <2>3 DEF Exists
  <2>6. (\A q \in Runs \ {r} : Untouched(q) \/ ReapedBy(q, r)) /\ Clears(r)
    BY <1>0, <2>3, <2>4, <2>5, ReaperFacts
  <2>7. Open(r)'
    <3>1. /\ Len(log'[r]) = 1 /\ log'[r][1].type = "run_created"
      BY <2>3 DEF Event
    <3> QED BY <3>1 DEF Open, CanAppend, LastType, TerminalEvents
  <2>8. Enters(w, r) BY <2>1, <2>3, <2>4, <2>6, <2>7 DEF Enters
  <2> QED BY <1>0, <2>1, <2>6, <2>8 DEF TaskOf, OthersKept
<1>2. ASSUME OpenContext(w, r) PROVE TaskOf(w, r)
  <2> DEFINE s == [worker[w][r] EXCEPT !.pc = "opened", !.token = head'[r].token]
  <2>1. worker[w][r] \in WorkerType BY DEF ServiceTypeOK
  <2>2. s.pc = "opened" /\ s.token = head'[r].token BY <2>1 DEF WorkerType
  <2>3. /\ worker'[w][r] = s /\ alive' = alive
        /\ \A v \in Writers, q \in Runs : v # w \/ q # r => worker'[v][q] = worker[v][q]
    BY <1>2, BecomeFacts DEF OpenContext
  <2>4. TakeFence(w, r, FALSE) /\ worker[w][r].pc = "reserved"
    BY <1>2 DEF OpenContext, At
  <2>5. Takes(w, r) BY <1>0, <2>2, <2>3, <2>4, TakeFacts DEF Takes
  <2>6. \A q \in Runs \ {r} : Untouched(q) \/ ReapedBy(q, r)
    BY <1>0, <2>4, TakeFacts
  <2> QED BY <1>0, <2>3, <2>5, <2>6 DEF TaskOf, OthersKept
<1>3. ASSUME OpenFails(w, r) PROVE TaskOf(w, r)
  <2>1. At(w, r, "reserved") /\ Stop(w, r) BY <1>3 DEF OpenFails
  <2> QED BY <1>0, <1>3, <2>1, StopStep, LeakStep DEF OpenFails, At
<1>4. ASSUME BeginRun(w, r) PROVE TaskOf(w, r)
  <2>1. worker[w][r].pc = "opened" BY <1>4 DEF BeginRun, At
  <2>2. CASE Transition(r, w, Token(w, r), "RUNNING", "run_started") /\ Go(w, r, "started")
    <3>1. "RUNNING" \in AllowedTargets(head[r].status)
      BY <2>2 DEF Transition, MayTransition
    <3> QED BY <1>0, <2>1, <2>2, <3>1, FinalIsFinal, TransitionStep, HoldingPoints
            DEF LauncherTargets
  <2>3. CASE Go(w, r, "closing") /\ UNCHANGED vars
    BY <1>0, <2>1, <2>3, StillStep DEF Holding, Executing
  <2> QED BY <1>4, <2>2, <2>3 DEF BeginRun
<1> QED BY <1>1, <1>2, <1>3, <1>4 DEF AdmissionStep

(* prepare_operation moves the revision of one head and nothing else that a *)
(* fence or an outcome is read from.                                        *)
LEMMA PrepareFacts ==
  ASSUME TypeOK, NEW r \in Runs, NEW w, NEW t, NEW n, NEW k, NEW op,
         PrepareOperation(r, w, t, n, k, op)
  PROVE  Quiet(r) /\ \A q \in Runs \ {r} : Untouched(q)
<1>1. /\ SameFence(r) /\ head'[r].status = head[r].status
      /\ \A q \in Runs \ {r} : head'[q] = head[q]
  BY AdvanceFacts DEF PrepareOperation
<1>2. lease' = lease /\ log' = log BY DEF PrepareOperation
<1> QED BY <1>1, <1>2 DEF Quiet, Untouched, Open, CanAppend, LastType, LeaseLive

(* Another task of the process, or nobody's, moves the store.               *)
LEMMA SameTaskFollows ==
  ASSUME NEW w \in Writers, NEW r \in Runs, UNCHANGED worker
  PROVE  Follows(w, r)
BY DEF Follows

(* Resuming a Run.                                                          *)
LEMMA ResumeTask ==
  ASSUME ServiceTypeOK, NEW w \in Writers, NEW r \in Runs, ResumeStep(w, r)
  PROVE  TaskOf(w, r)
<1>0. TypeOK /\ w \in alive
  BY DEF ServiceTypeOK, ResumeStep, ResumeRun, ResumeContext, ResumeFails,
         ClaimResume, ReplayResume, LoseResume, BeginResume, At, Turn
<1>1. ASSUME ResumeRun(w, r) PROVE TaskOf(w, r)
  <2> DEFINE s == [NoWorker EXCEPT !.pc = "resuming", !.mode = "resume"]
  <2>1. /\ worker'[w][r] = s /\ alive' = alive
        /\ \A v \in Writers, q \in Runs : v # w \/ q # r => worker'[v][q] = worker[v][q]
    BY <1>1, BecomeFacts DEF ResumeRun
  <2>2. s.pc = "resuming" /\ s.token = 0 BY DEF NoWorker
  <2>3. UNCHANGED vars /\ Exists(r) BY <1>1 DEF ResumeRun
  <2> QED BY <1>0, <2>1, <2>2, <2>3, StillFacts DEF TaskOf, OthersKept, Proceeds
<1>2. ASSUME ResumeContext(w, r) PROVE TaskOf(w, r)
  <2> DEFINE s == [worker[w][r] EXCEPT !.pc = "resumed", !.token = head'[r].token]
  <2>1. worker[w][r] \in WorkerType BY DEF ServiceTypeOK
  <2>2. s.pc = "resumed" /\ s.token = head'[r].token BY <2>1 DEF WorkerType
  <2>3. /\ worker'[w][r] = s /\ alive' = alive
        /\ \A v \in Writers, q \in Runs : v # w \/ q # r => worker'[v][q] = worker[v][q]
    BY <1>2, BecomeFacts DEF ResumeContext
  <2>4. TakeFence(w, r, TRUE) /\ worker[w][r].pc = "resuming"
    BY <1>2 DEF ResumeContext, At
  <2>5. Takes(w, r) BY <1>0, <2>2, <2>3, <2>4, TakeFacts DEF Takes
  <2>6. \A q \in Runs \ {r} : Untouched(q) \/ ReapedBy(q, r)
    BY <1>0, <2>4, TakeFacts
  <2> QED BY <1>0, <2>3, <2>5, <2>6 DEF TaskOf, OthersKept
<1>3. ASSUME ResumeFails(w, r) PROVE TaskOf(w, r)
  <2>1. At(w, r, "resuming") /\ Stop(w, r) BY <1>3 DEF ResumeFails
  <2> QED BY <1>0, <1>3, <2>1, StopStep, LeakStep DEF ResumeFails, At
<1>4. ASSUME NEW k \in Keys, ClaimResume(w, r, k) PROVE TaskOf(w, r)
  <2>1. Quiet(r) /\ \A q \in Runs \ {r} : Untouched(q)
    BY <1>0, <1>4, PrepareFacts DEF ClaimResume
  <2>2. /\ worker'[w][r].pc = "prepared" /\ worker'[w][r].token = worker[w][r].token
        /\ alive' = alive
        /\ \A v \in Writers, q \in Runs : v # w \/ q # r => worker'[v][q] = worker[v][q]
    BY <1>4, GoFacts DEF ClaimResume
  <2>3. worker[w][r].pc = "resumed" BY <1>4 DEF ClaimResume, At
  <2>4. Follows(w, r) BY <2>2, <2>3, HoldingPoints DEF Follows, Executing
  <2> QED BY <1>0, <2>1, <2>2, <2>4 DEF TaskOf, OthersKept, Proceeds
<1>5. ASSUME \/ \E k \in Keys : ReplayResume(w, r, k)
             \/ LoseResume(w, r)
      PROVE TaskOf(w, r)
  <2>1. /\ UNCHANGED vars /\ worker[w][r].pc = "resumed"
        /\ \E pc \in {"prepared", "closing"} : Go(w, r, pc)
    BY <1>5 DEF ReplayResume, LoseResume, At
  <2> QED BY <1>0, <2>1, StillStep, HoldingPoints DEF Executing
<1>6. ASSUME BeginResume(w, r) PROVE TaskOf(w, r)
  <2>1. worker[w][r].pc = "prepared" BY <1>6 DEF BeginResume, At
  <2>2. CASE Transition(r, w, Token(w, r), "RUNNING", "run_resumed") /\ Go(w, r, "started")
    <3>1. "RUNNING" \in AllowedTargets(head[r].status)
      BY <2>2 DEF Transition, MayTransition
    <3> QED BY <1>0, <2>1, <2>2, <3>1, FinalIsFinal, TransitionStep, HoldingPoints
            DEF LauncherTargets
  <2>3. CASE Go(w, r, "closing") /\ UNCHANGED vars
    BY <1>0, <2>1, <2>3, StillStep DEF Holding, Executing
  <2> QED BY <1>6, <2>2, <2>3 DEF BeginResume
<1> QED BY <1>1, <1>2, <1>3, <1>4, <1>5, <1>6 DEF ResumeStep

(* A durable Workflow operation publishes RUNNING, under the fence and the  *)
(* lease it found.                                                          *)
LEMMA WorkflowTask ==
  ASSUME ServiceTypeOK, NEW w \in Writers, NEW r \in Runs, WorkflowStep(w, r)
  PROVE  TaskOf(w, r)
<1>0. /\ TypeOK /\ w \in alive /\ worker[w][r].pc = "running"
      /\ UNCHANGED <<worker, alive>>
  BY DEF ServiceTypeOK, WorkflowStep, At, Turn
<1> DEFINE t == Token(w, r)
<1>1. ASSUME NEW k \in Keys, NEW n, PrepareOperation(r, w, t, n, k, "workflow")
      PROVE  TaskOf(w, r)
  <2>1. Quiet(r) /\ \A q \in Runs \ {r} : Untouched(q)
    BY <1>0, <1>1, PrepareFacts
  <2>2. Follows(w, r) BY <1>0, SameTaskFollows
  <2> QED BY <1>0, <2>1, <2>2 DEF TaskOf, OthersKept, Proceeds
<1>2. ASSUME Owns(r, w, t), head' = Advance(r, "RUNNING"), lease' = lease,
             \A q \in Runs \ {r} : log'[q] = log[q], Open(r)' <=> Open(r)
      PROVE  TaskOf(w, r)
  <2>1. /\ SameFence(r) /\ head'[r].status = "RUNNING"
        /\ \A q \in Runs \ {r} : head'[q] = head[q]
    BY <1>0, <1>2, AdvanceFacts
  <2>2. Works(w, r) BY <1>0, <1>2, <2>1 DEF Works
  <2>3. OthersKept(w, r) BY <1>0, <1>2, <2>1 DEF OthersKept, Untouched
  <2> QED BY <2>2, <2>3 DEF TaskOf
<1>3. ASSUME NEW n, BootstrapIndex(r, w, t, n) PROVE TaskOf(w, r)
  <2>1. /\ Owns(r, w, t) /\ head' = Advance(r, "RUNNING") /\ lease' = lease
        /\ log' = log
    BY <1>3 DEF BootstrapIndex, WriteHead
  <2>2. Open(r)' <=> Open(r) BY <2>1 DEF Open, CanAppend, LastType
  <2> QED BY <1>2, <2>1, <2>2
<1>4. ASSUME NEW n, ActivateWorkflow(r, w, t, n) PROVE TaskOf(w, r)
  <2>1. /\ Owns(r, w, t) /\ n = head[r].revision
        /\ head' = Advance(r, "RUNNING") /\ lease' = lease
        /\ CanAppend(r, "workflow_activated") /\ Room(r, 1)
        /\ log' = [log EXCEPT ![r] = Append(@, Event("workflow_activated", n + 1))]
    BY <1>4 DEF ActivateWorkflow, WriteHead
  <2>2. n + 1 \in Nat BY <1>0, <2>1 DEF TypeOK, HeadType
  <2>3. "workflow_activated" \in EventTypes \ TerminalEvents
    BY DEF EventTypes, TerminalEvents
  <2>4. /\ Logged(r, "workflow_activated") /\ \A q \in Runs \ {r} : log'[q] = log[q]
    BY <1>0, <2>1, <2>2, <2>3, LoggedBy
  <2>5. Open(r)' /\ Open(r) BY <1>0, <2>3, <2>4, LoggedOpen
  <2> QED BY <1>2, <2>1, <2>4, <2>5
<1>5. ASSUME NEW n, NEW k \in Keys, NEW done \in BOOLEAN, FinalizeBundle(r, w, t, n, k, done)
      PROVE  TaskOf(w, r)
  <2>1. /\ Owns(r, w, t) /\ n = head[r].revision
        /\ head' = Advance(r, "RUNNING") /\ lease' = lease
        /\ CanAppend(r, "checkpoint_committed")
    BY <1>5 DEF FinalizeBundle, WriteHead
  <2> DEFINE e == Event("checkpoint_committed", n + 1)
             f == Event("workflow_completed", n + 1)
             tail == IF done THEN <<f>> ELSE <<>>
  <2>2. /\ e \in EventType /\ e.type \notin TerminalEvents
        /\ f \in EventType /\ f.type \notin TerminalEvents
    <3>1. n + 1 \in Nat BY <1>0, <2>1 DEF TypeOK, HeadType
    <3> QED BY <3>1 DEF Event, EventType, EventTypes, TerminalEvents
  <2>3. log' = [log EXCEPT ![r] = log[r] \o <<e>> \o tail]
    BY <1>5 DEF FinalizeBundle
  <2>4. log'[r] = log[r] \o <<e>> \o tail /\ \A q \in Runs \ {r} : log'[q] = log[q]
    BY <1>0, <2>3 DEF TypeOK
  <2>5. log[r] \in Seq(EventType) BY <1>0 DEF TypeOK
  <2>6. Len(log'[r]) > 0 /\ log'[r][Len(log'[r])] \in {e, f}
    <3> HIDE DEF e, f
    <3>1. CASE done
      <4>1. log'[r] = log[r] \o <<e>> \o <<f>> BY <2>4, <3>1
      <4> QED BY <2>2, <2>5, <4>1
    <3>2. CASE ~done
      <4>1. log'[r] = log[r] \o <<e>> \o <<>> BY <2>4, <3>2
      <4>2. log'[r] = log[r] \o <<e>> BY <2>2, <2>5, <4>1
      <4> QED BY <2>2, <2>5, <4>2
    <3> QED BY <3>1, <3>2
  <2>7. Open(r)' BY <2>2, <2>6 DEF Open, CanAppend, LastType
  <2>8. Open(r) BY <2>1 DEF Open, CanAppend
  <2> QED BY <1>2, <2>1, <2>4, <2>7, <2>8
<1> QED BY <1>1, <1>3, <1>4, <1>5 DEF WorkflowStep

(* A progress event neither opens nor closes a log.                         *)
LEMMA ProgressFacts ==
  ASSUME TypeOK, NEW r \in Runs, NEW n \in Nat, AppendProgress(r, n)
  PROVE  Quiet(r) /\ \A q \in Runs \ {r} : Untouched(q)
<1>1. "progress" \in EventTypes \ TerminalEvents BY DEF EventTypes, TerminalEvents
<1>2. Logged(r, "progress") /\ \A q \in Runs \ {r} : log'[q] = log[q]
  BY <1>1, LoggedBy DEF AppendProgress
<1>3. Open(r)' /\ Open(r) BY <1>1, <1>2, LoggedOpen
<1>4. head' = head /\ lease' = lease BY DEF AppendProgress
<1> QED BY <1>2, <1>3, <1>4 DEF Quiet, Untouched, SameFence, LeaseLive

(* An attempt under way.                                                    *)
LEMMA AttemptTask ==
  ASSUME ServiceInv, OwnershipInv, NEW w \in Writers, NEW r \in Runs, AttemptStep(w, r)
  PROVE  TaskOf(w, r)
<1>0. ServiceTypeOK /\ TypeOK /\ w \in alive
  BY DEF ServiceInv, ServiceTypeOK, AttemptStep, SetUp, SetUpRaises, BlockResume,
         WorkflowStep, CommitRefused, ReadRevision, PersistProgress, Heartbeat,
         LoseLease, At, Turn
<1>1. ASSUME SetUp(w, r) \/ SetUpRaises(w, r) \/ CommitRefused(w, r) \/ LoseLease(w, r)
      PROVE  TaskOf(w, r)
  <2>1. /\ UNCHANGED vars
        /\ worker[w][r].pc \in {"opened", "prepared", "started", "running"}
        /\ \/ /\ worker[w][r].pc = "started" /\ Go(w, r, "running")
           \/ Go(w, r, "closing")
           \/ Go(w, r, "failing")
    BY <1>1 DEF SetUp, SetUpRaises, CommitRefused, LoseLease, At, Awaiting
  <2>2. CASE worker[w][r].pc = "started" /\ Go(w, r, "running")
    BY <1>0, <2>1, <2>2, StillStep, HoldingPoints DEF Executing
  <2>3. CASE Go(w, r, "closing") \/ Go(w, r, "failing")
    BY <1>0, <2>1, <2>3, StillStep, HoldingPoints DEF Executing
  <2> QED BY <2>1, <2>2, <2>3
<1>2. ASSUME BlockResume(w, r) PROVE TaskOf(w, r)
  <2>1. worker[w][r].pc = "started" /\ Go(w, r, "closing") BY <1>2 DEF BlockResume, At
  <2>2. CASE Transition(r, w, Token(w, r), "BLOCKED", "run_blocked")
    BY <1>0, <2>1, <2>2, TransitionStep, HoldingPoints DEF LauncherTargets
  <2>3. CASE UNCHANGED vars
    BY <1>0, <2>1, <2>3, StillStep, HoldingPoints DEF Executing
  <2> QED BY <1>2, <2>2, <2>3 DEF BlockResume
<1>3. ASSUME WorkflowStep(w, r) PROVE TaskOf(w, r) BY <1>0, <1>3, WorkflowTask
<1>4. ASSUME ReadRevision(w, r) PROVE TaskOf(w, r)
  <2> DEFINE s == [worker[w][r] EXCEPT !.pc = "appending", !.revision = head[r].revision]
  <2>1. /\ worker'[w][r] = s /\ alive' = alive
        /\ \A v \in Writers, q \in Runs : v # w \/ q # r => worker'[v][q] = worker[v][q]
    BY <1>0, <1>4, BecomeFacts DEF ReadRevision
  <2>2. worker[w][r] \in WorkerType BY <1>0 DEF ServiceTypeOK
  <2>3. s.pc = "appending" /\ s.token = worker[w][r].token BY <2>2 DEF WorkerType
  <2>4. worker[w][r].pc = "running" /\ UNCHANGED vars BY <1>4 DEF ReadRevision, At
  <2>5. Follows(w, r) BY <2>1, <2>3, <2>4, HoldingPoints DEF Follows, Executing
  <2> QED BY <1>0, <2>1, <2>4, <2>5, StillFacts DEF TaskOf, OthersKept, Proceeds
<1>5. ASSUME PersistProgress(w, r) PROVE TaskOf(w, r)
  <2> DEFINE s == [worker[w][r] EXCEPT !.pc = "running", !.revision = 0]
  <2>1. /\ worker'[w][r] = s /\ alive' = alive
        /\ \A v \in Writers, q \in Runs : v # w \/ q # r => worker'[v][q] = worker[v][q]
    BY <1>0, <1>5, BecomeFacts DEF PersistProgress
  <2>2. worker[w][r] \in WorkerType BY <1>0 DEF ServiceTypeOK
  <2>3. s.pc = "running" /\ s.token = worker[w][r].token BY <2>2 DEF WorkerType
  <2>4. worker[w][r].pc = "appending" BY <1>5 DEF PersistProgress, At
  <2>5. Follows(w, r) BY <2>1, <2>3, <2>4, HoldingPoints DEF Follows, Executing
  <2>6. Quiet(r) /\ \A q \in Runs \ {r} : Untouched(q)
    <3>1. worker[w][r].revision \in Nat BY <2>2 DEF WorkerType
    <3>2. AppendProgress(r, worker[w][r].revision) \/ UNCHANGED vars
      BY <1>5 DEF PersistProgress
    <3> QED BY <1>0, <3>1, <3>2, ProgressFacts, StillFacts
  <2> QED BY <1>0, <2>1, <2>5, <2>6 DEF TaskOf, OthersKept, Proceeds
<1>6. ASSUME Heartbeat(w, r) PROVE TaskOf(w, r)
  <2>1. RenewLease(r, w, Token(w, r)) /\ UNCHANGED <<worker, alive>>
    BY <1>6 DEF Heartbeat
  <2>2. /\ LeaseLive(r) /\ lease[r].writer = w /\ lease[r].token = Token(w, r)
        /\ lease' = [lease EXCEPT ![r] = Grant(w, Token(w, r))]
        /\ head' = head /\ log' = log
    BY <2>1 DEF RenewLease, MayRenew, HoldsLease
  <2>3. /\ lease'[r] = Grant(w, Token(w, r))
        /\ \A q \in Runs \ {r} : lease'[q] = lease[q]
    BY <1>0, <2>2 DEF TypeOK
  <2>4. LeaseLive(r)' BY <2>3, StoreAssumption DEF LeaseLive, Grant
  <2>5. Quiet(r)
    BY <2>2, <2>3, <2>4 DEF Quiet, SameFence, Open, CanAppend, LastType, Grant
  <2>6. \A q \in Runs \ {r} : Untouched(q) BY <2>2, <2>3 DEF Untouched
  <2> QED BY <1>0, <2>1, <2>5, <2>6, SameTaskFollows DEF TaskOf, OthersKept, Proceeds
<1> QED BY <1>1, <1>2, <1>3, <1>4, <1>5, <1>6 DEF AttemptStep

(* release_fence empties the writer and drops at most the lease.            *)
LEMMA ReleaseFacts ==
  ASSUME TypeOK, NEW r \in Runs, NEW w, NEW t, ReleaseFence(r, w, t)
  PROVE  /\ Owns(r, w, t)
         /\ head'[r].writer = NoWriter /\ head'[r].token = head[r].token
         /\ head'[r].status = head[r].status
         /\ lease'[r] \in {lease[r], NoLease} /\ log' = log
         /\ \A q \in Runs \ {r} : Untouched(q)
<1>1. head[r] \in HeadType BY DEF TypeOK
<1>2. /\ head'[r].writer = NoWriter /\ head'[r].token = head[r].token
      /\ head'[r].status = head[r].status
      /\ \A q \in Runs \ {r} : head'[q] = head[q]
  BY <1>1 DEF ReleaseFence, TypeOK, HeadType
<1>3. /\ lease'[r] \in {lease[r], NoLease}
      /\ \A q \in Runs \ {r} : lease'[q] = lease[q]
  BY DEF ReleaseFence, LeaseReleased, TypeOK
<1> QED BY <1>2, <1>3 DEF ReleaseFence, Untouched

(* The end of an attempt.                                                   *)
LEMMA EndTask ==
  ASSUME ServiceInv, NEW w \in Writers, NEW r \in Runs, EndStep(w, r)
  PROVE  TaskOf(w, r)
<1>0. ServiceTypeOK /\ TypeOK /\ w \in alive
  BY DEF ServiceInv, ServiceTypeOK, EndStep, DecideResume, RuntimeReturns, Through,
         BoundaryRaises, RuntimeRaises, WriteFailure, WriteOutcome, Observe, Finalize,
         CloseContext, At, Turn
<1>1. ASSUME DecideResume(w, r) PROVE TaskOf(w, r)
  <2>1. worker[w][r].pc = "running" BY <1>1 DEF DecideResume, At
  <2>2. CASE Go(w, r, "failing") /\ UNCHANGED vars
    BY <1>0, <2>1, <2>2, StillStep, HoldingPoints DEF Executing
  <2>3. CASE Go(w, r, "deciding") /\ UNCHANGED vars
    BY <1>0, <2>1, <2>3, StillStep, HoldingPoints DEF Executing
  <2>4. CASE Go(w, r, "deciding") /\ AppendProgress(r, head[r].revision)
    <3>1. head[r].revision \in Nat BY <1>0 DEF TypeOK, HeadType
    <3>2. Quiet(r) /\ \A q \in Runs \ {r} : Untouched(q)
      BY <1>0, <2>4, <3>1, ProgressFacts
    <3>3. /\ worker'[w][r].pc = "deciding" /\ worker'[w][r].token = worker[w][r].token
          /\ alive' = alive
          /\ \A v \in Writers, q \in Runs : v # w \/ q # r => worker'[v][q] = worker[v][q]
      BY <1>0, <2>4, GoFacts
    <3>4. Follows(w, r) BY <2>1, <3>3, HoldingPoints DEF Follows, Executing
    <3> QED BY <1>0, <3>2, <3>3, <3>4 DEF TaskOf, OthersKept, Proceeds
  <2> QED BY <1>1, <2>2, <2>3, <2>4 DEF DecideResume
<1>2. ASSUME RuntimeReturns(w, r) \/ BoundaryRaises(w, r) \/ RuntimeRaises(w, r)
      PROVE  TaskOf(w, r)
  <2>1. /\ UNCHANGED vars
        /\ worker[w][r].pc \in {"running", "deciding"}
        /\ \E pc \in {"committing", "observing", "closing", "failing"} : Go(w, r, pc)
    BY <1>2 DEF RuntimeReturns, Through, BoundaryRaises, RuntimeRaises, At
  <2> QED BY <1>0, <2>1, StillStep, HoldingPoints DEF Executing
<1>3. ASSUME Refused(w, r), worker[w][r].pc \in Holding PROVE TaskOf(w, r)
  <2>1. /\ UNCHANGED vars /\ \E pc \in {"closing", "failing"} : Go(w, r, pc)
    BY <1>3 DEF Refused, AfterRefusal
  <2> QED BY <1>0, <1>3, <2>1, StillStep, HoldingPoints DEF Executing
<1>4. ASSUME WriteFailure(w, r) PROVE TaskOf(w, r)
  <2>1. worker[w][r].pc = "failing" /\ Go(w, r, "closing") BY <1>4 DEF WriteFailure, At
  <2>2. CASE Transition(r, w, Token(w, r), "FAILED_TERMINAL", "run_failed")
    BY <1>0, <2>1, <2>2, TransitionStep, HoldingPoints DEF LauncherTargets
  <2>3. CASE UNCHANGED vars
    BY <1>0, <2>1, <2>3, StillStep, HoldingPoints DEF Executing
  <2> QED BY <1>4, <2>2, <2>3 DEF WriteFailure
<1>5. ASSUME WriteOutcome(w, r) PROVE TaskOf(w, r)
  <2>1. worker[w][r].pc = "committing" BY <1>5 DEF WriteOutcome, At
  <2>2. PICK target \in Outcomes : \E type \in EventsFor(target) :
          \/ Transition(r, w, Token(w, r), target, type) /\ Go(w, r, "closing")
          \/ Refused(w, r)
    BY <1>5 DEF WriteOutcome
  <2>3. target \in LauncherTargets /\ target # "RUNNING"
    BY DEF Outcomes, LauncherTargets
  <2>4. CASE Refused(w, r) BY <1>3, <2>1, <2>4, HoldingPoints
  <2>5. ASSUME NEW type, Transition(r, w, Token(w, r), target, type), Go(w, r, "closing")
        PROVE  TaskOf(w, r)
    BY <1>0, <2>1, <2>3, <2>5, TransitionStep, HoldingPoints
  <2> QED BY <2>2, <2>4, <2>5
<1>6. ASSUME Observe(w, r) PROVE TaskOf(w, r)
  <2>1. worker[w][r].pc = "observing" BY <1>6 DEF Observe, At
  <2>2. CASE Refused(w, r) BY <1>3, <2>1, <2>2, HoldingPoints
  <2>3. CASE /\ UNCHANGED vars
             /\ Go(w, r, "finalizing") \/ Go(w, r, "closing")
    BY <1>0, <2>1, <2>3, StillStep, HoldingPoints DEF Executing
  <2>4. CASE ObserveInterruption(r, w, Token(w, r)) /\ Go(w, r, "finalizing")
    <3>1. /\ SameFence(r) /\ head'[r].status = head[r].status
          /\ \A q \in Runs \ {r} : head'[q] = head[q]
      BY <1>0, <2>4, AdvanceFacts DEF ObserveInterruption
    <3>2. lease' = lease /\ log' = log BY <2>4 DEF ObserveInterruption
    <3>3. Quiet(r) /\ \A q \in Runs \ {r} : Untouched(q)
      BY <3>1, <3>2 DEF Quiet, Untouched, Open, CanAppend, LastType, LeaseLive
    <3>4. /\ worker'[w][r].pc = "finalizing" /\ worker'[w][r].token = worker[w][r].token
          /\ alive' = alive
          /\ \A v \in Writers, q \in Runs : v # w \/ q # r => worker'[v][q] = worker[v][q]
      BY <1>0, <2>4, GoFacts
    <3>5. Follows(w, r) BY <2>1, <3>4, HoldingPoints DEF Follows, Executing
    <3> QED BY <1>0, <3>3, <3>4, <3>5 DEF TaskOf, OthersKept, Proceeds
  <2> QED BY <1>6, <2>2, <2>3, <2>4 DEF Observe
<1>7. ASSUME Finalize(w, r) PROVE TaskOf(w, r)
  <2>1. worker[w][r].pc = "finalizing" BY <1>7 DEF Finalize, At
  <2>2. CASE Refused(w, r) BY <1>3, <2>1, <2>2, HoldingPoints
  <2>3. CASE FinalizeInterruption(r, w, Token(w, r)) /\ Go(w, r, "closing")
    <3>1. /\ SameFence(r) /\ head'[r].status = OutcomeOf(intent[r].reason)
          /\ \A q \in Runs \ {r} : head'[q] = head[q]
      BY <1>0, <2>3, AdvanceFacts DEF FinalizeInterruption
    <3>2. /\ lease' = lease /\ Owns(r, w, Token(w, r)) /\ head[r].status = "CANCELLING"
          /\ \A q \in Runs \ {r} : log'[q] = log[q]
      BY <1>0, <2>3 DEF FinalizeInterruption, MayFinalize, TypeOK
    <3>3. OutcomeOf(intent[r].reason) \in EndStatuses
      BY DEF OutcomeOf, EndStatuses, FinalStatuses
    <3>4. /\ worker'[w][r].pc = "closing" /\ worker'[w][r].token = worker[w][r].token
          /\ alive' = alive
          /\ \A v \in Writers, q \in Runs : v # w \/ q # r => worker'[v][q] = worker[v][q]
      BY <1>0, <2>3, GoFacts
    <3>5. Ends(w, r)
      BY <2>1, <3>1, <3>2, <3>3, <3>4, HoldingPoints DEF Ends, FinalStatuses
    <3> QED BY <1>0, <3>1, <3>2, <3>4, <3>5 DEF TaskOf, OthersKept, Untouched
  <2> QED BY <1>7, <2>2, <2>3 DEF Finalize
<1>8. ASSUME CloseContext(w, r) PROVE TaskOf(w, r)
  <2>1. CASE UNCHANGED vars BY <1>0, <1>8, <2>1, StopStep DEF CloseContext
  <2>2. CASE ReleaseFence(r, w, Token(w, r))
    <3>1. /\ worker'[w][r] = NoWorker /\ alive' = alive
          /\ \A v \in Writers, q \in Runs : v # w \/ q # r => worker'[v][q] = worker[v][q]
      BY <1>0, <1>8, BecomeFacts DEF CloseContext, Stop
    <3>2. GivesBack(w, r) BY <1>0, <2>2, <3>1, ReleaseFacts DEF GivesBack, NoWorker
    <3>3. \A q \in Runs \ {r} : Untouched(q) BY <1>0, <2>2, ReleaseFacts
    <3> QED BY <1>0, <3>1, <3>2, <3>3 DEF TaskOf, OthersKept
  <2> QED BY <1>8, <2>1, <2>2 DEF CloseContext
<1> QED BY <1>1, <1>2, <1>4, <1>5, <1>6, <1>7, <1>8 DEF EndStep

(* The watchdog and cancel_run.                                             *)
LEMMA AskTask ==
  ASSUME ServiceTypeOK, NEW w \in Writers, NEW r \in Runs,
         Watchdog(w, r) \/ CancelRun(w, r)
  PROVE  TaskOf(w, r)
<1>0. TypeOK /\ w \in alive /\ UNCHANGED <<worker, alive>>
  BY DEF ServiceTypeOK, Watchdog, CancelRun, At, Turn
<1>1. PICK reason : RequestInterruption(r, reason) BY DEF Watchdog, CancelRun
<1>2. /\ SameFence(r) /\ head'[r].status = "CANCELLING"
      /\ \A q \in Runs \ {r} : head'[q] = head[q]
  BY <1>0, <1>1, AdvanceFacts DEF RequestInterruption
<1>3. /\ lease' = lease /\ Exists(r) /\ head[r].status \notin FinalStatuses
      /\ CanAppend(r, "run_cancelling") /\ Room(r, 1)
      /\ log' = [log EXCEPT
           ![r] = Append(@, Event("run_cancelling", head[r].revision + 1))]
  BY <1>1 DEF RequestInterruption, MayInterrupt, EndStatuses
<1>4. "run_cancelling" \in EventTypes \ TerminalEvents /\ head[r].revision + 1 \in Nat
  BY <1>0 DEF EventTypes, TerminalEvents, TypeOK, HeadType
<1>5. Logged(r, "run_cancelling") /\ \A q \in Runs \ {r} : log'[q] = log[q]
  BY <1>0, <1>3, <1>4, LoggedBy
<1>6. Open(r)' BY <1>0, <1>4, <1>5, LoggedOpen
<1> QED BY <1>0, <1>2, <1>3, <1>5, <1>6 DEF TaskOf, OthersKept, Untouched, Asked

(* Every step of a process does one of these things.                        *)
LEMMA ProcessTask ==
  ASSUME ServiceInv, OwnershipInv, NEW w \in Writers, NEW r \in Runs,
         \/ AdmissionStep(w, r) \/ ResumeStep(w, r) \/ AttemptStep(w, r)
         \/ EndStep(w, r) \/ Watchdog(w, r) \/ CancelRun(w, r)
  PROVE  TaskOf(w, r)
<1>1. ServiceTypeOK BY DEF ServiceInv
<1> QED BY <1>1, AdmissionTask, ResumeTask, AttemptTask, EndTask, AskTask

----------------------------------------------------------------------------
(* Fences, leases and what their holders execute                            *)

(* A task runs on an existing Run, under a token its fence has had, and the *)
(* holder of the current token is the writer unless the fence was given     *)
(* back.                                                                    *)
Tokens ==
  \A r \in Runs :
    /\ Exists(r) => head[r].token > 0
    /\ \A w \in Writers : worker[w][r].pc # "idle" =>
         /\ w \in alive /\ Exists(r) /\ Token(w, r) <= head[r].token
         /\ Token(w, r) = head[r].token => head[r].writer \in {w, NoWriter}

(* A Run loses its lease behind the back of its owner only to the reaper of *)
(* a rival, and to that only if a process stalls.                           *)
Unreaped(r) == Rivals(r) = {} \/ "stall" \notin Faults
HeldLeases ==
  \A r \in Runs, w \in Writers :
    Unreaped(r) /\ worker[w][r].pc \in Holding /\ Owns(r, w, Token(w, r)) =>
      /\ HoldsLease(r, w, Token(w, r))
      /\ "stall" \notin Faults => LeaseLive(r)
RunningLeased ==
  \A r \in Runs :
    Unreaped(r) /\ head[r].status = "RUNNING" /\ head[r].writer # NoWriter => Leased(r)
ExecutedOpen ==
  \A r \in Runs, w \in Writers :
    worker[w][r].pc \in Executing /\ Owns(r, w, Token(w, r)) =>
      /\ head[r].status \in {"RUNNING", "CANCELLING", "FAILED_TERMINAL"}
      /\ Unreaped(r) => head[r].status # "FAILED_TERMINAL"
ActiveOpen == \A r \in Runs : Unreaped(r) /\ Active(r) => Open(r)

(* Without stalls a Run under way is alone in its session, and a live lease *)
(* means that no other Run of the session is under way, so that its holder  *)
(* may start to execute.                                                    *)
Present(r) == LeaseLive(r) \/ UnderWay(r)
LiveAlone ==
  "stall" \notin Faults =>
    \A q, r \in Runs :
      Present(r) /\ UnderWay(q) /\ SessionOf[q] = SessionOf[r] => q = r

FenceInv ==
  /\ ServiceInv /\ OwnershipInv
  /\ Tokens /\ OneWorkerPerFence
  /\ HeldLeases /\ RunningLeased /\ ExecutedOpen /\ ActiveOpen /\ LiveAlone

(* The token part of each kind of step.                                     *)
TokenStep(w, r) ==
  \/ /\ head'[r].token = head[r].token /\ head'[r].writer \in {head[r].writer, NoWriter}
     /\ Exists(r) <=> Exists(r)'
     /\ \/ worker'[w][r].pc = "idle"
        \/ Exists(r) /\ worker'[w][r].pc = "resuming" /\ worker'[w][r].token = 0
        \/ /\ worker[w][r].pc # "idle"
           /\ worker'[w][r].token = worker[w][r].token
  \/ /\ ~Exists(r) /\ Exists(r)'
     /\ head'[r].writer = w /\ head'[r].token = 1
     /\ worker'[w][r].token = 1
  \/ /\ Exists(r) /\ Exists(r)' /\ worker[w][r].pc # "idle"
     /\ head'[r].writer = w
     /\ worker'[w][r].pc # "idle" => worker'[w][r].token = head'[r].token
     /\ \/ head[r].writer = w /\ head'[r].token = head[r].token
        \/ head'[r].token = head[r].token + 1

(* Every kind of step does one of the three things to tokens.               *)
LEMMA TaskTokens ==
  ASSUME ServiceTypeOK, NEW w \in Writers, NEW r \in Runs, TaskOf(w, r)
  PROVE  TokenStep(w, r)
<1>1. CASE Proceeds(w, r)
  BY <1>1 DEF Proceeds, Quiet, SameFence, Follows, TokenStep, Exists
<1>2. CASE Begins(w, r)
  BY <1>2, HoldingPoints DEF Begins, SameFence, TokenStep, Exists, Owns
<1>3. CASE Works(w, r)
  BY <1>3 DEF Works, SameFence, TokenStep, Exists, Owns
<1>4. CASE Ends(w, r)
  BY <1>4, HoldingPoints DEF Ends, SameFence, TokenStep, Exists, Owns, EndStatuses, FinalStatuses
<1>5. CASE Asked(w, r)
  BY <1>5 DEF Asked, SameFence, TokenStep, Exists
<1>6. CASE GivesBack(w, r)
  BY <1>6 DEF GivesBack, TokenStep, Exists, Owns
<1>7. CASE Enters(w, r) BY <1>7 DEF Enters, TokenStep, Exists
<1>8. CASE Takes(w, r) BY <1>8 DEF Takes, TokenStep, Exists
<1> QED BY <1>1, <1>2, <1>3, <1>4, <1>5, <1>6, <1>7, <1>8 DEF TaskOf

(* Tokens tell attempts apart, whatever a task does.                        *)
LEMMA TokensKept ==
  ASSUME FenceInv, TypeOK', worker' \in [Writers -> [Runs -> WorkerType]],
         NEW w \in Writers, NEW r \in Runs, OthersKept(w, r), TokenStep(w, r)
  PROVE  Tokens' /\ OneWorkerPerFence'
<1> USE DEF Token
<1>0. /\ \A q \in Runs : head[q].token \in Nat /\ head'[q].token \in Nat
      /\ \A v \in Writers, q \in Runs :
           worker[v][q].token \in Nat /\ worker'[v][q].token \in Nat
      /\ NoWriter \notin Writers
  <2>1. TypeOK /\ worker \in [Writers -> [Runs -> WorkerType]]
    BY DEF FenceInv, ServiceInv, ServiceTypeOK
  <2>2. \A q \in Runs : head[q].token \in Nat /\ head'[q].token \in Nat
    BY <2>1 DEF TypeOK, HeadType
  <2>3. \A s \in WorkerType : s.token \in Nat BY DEF WorkerType
  <2>4. \A v \in Writers, q \in Runs :
          worker[v][q].token \in Nat /\ worker'[v][q].token \in Nat
    BY <2>1, <2>3
  <2> QED BY <2>2, <2>4, StoreAssumption
<1>1. ASSUME NEW q \in Runs \ {r}
      PROVE  /\ head'[q].token = head[q].token /\ head'[q].writer = head[q].writer
             /\ Exists(q)' <=> Exists(q)
             /\ \A v \in Writers : worker'[v][q] = worker[v][q]
  BY DEF OthersKept, Untouched, ReapedBy, SameFence, Exists, Orphans, Rivals
<1>2. /\ Exists(r) => head[r].token > 0
      /\ \A v \in Writers : worker[v][r].pc # "idle" =>
           /\ v \in alive /\ Exists(r) /\ worker[v][r].token <= head[r].token
           /\ worker[v][r].token = head[r].token => head[r].writer \in {v, NoWriter}
      /\ \A u, v \in Writers :
           u # v /\ worker[u][r].pc # "idle" /\ worker[v][r].pc # "idle" =>
             worker[u][r].token # worker[v][r].token \/ worker[u][r].token = 0
  BY DEF FenceInv, Tokens, OneWorkerPerFence
<1>3. /\ w \in alive /\ alive' = alive
      /\ \A v \in Writers \ {w} : worker'[v][r] = worker[v][r]
  BY DEF OthersKept
<1>4. /\ Exists(r)' => head'[r].token > 0
      /\ \A v \in Writers : worker'[v][r].pc # "idle" =>
           /\ v \in alive' /\ Exists(r)' /\ worker'[v][r].token <= head'[r].token
           /\ worker'[v][r].token = head'[r].token => head'[r].writer \in {v, NoWriter}
      /\ \A u, v \in Writers :
           u # v /\ worker'[u][r].pc # "idle" /\ worker'[v][r].pc # "idle" =>
             worker'[u][r].token # worker'[v][r].token \/ worker'[u][r].token = 0
  <2>1. CASE /\ head'[r].token = head[r].token
             /\ head'[r].writer \in {head[r].writer, NoWriter}
             /\ Exists(r) <=> Exists(r)'
             /\ worker'[w][r].pc = "idle"
    BY <1>0, <1>2, <1>3, <2>1
  <2>2. CASE /\ head'[r].token = head[r].token
             /\ head'[r].writer \in {head[r].writer, NoWriter}
             /\ Exists(r) <=> Exists(r)'
             /\ Exists(r) /\ worker'[w][r].pc = "resuming" /\ worker'[w][r].token = 0
    <3>1. head'[r].token > 0 /\ worker'[w][r].token < head'[r].token
      BY <1>0, <1>2, <2>2
    <3>2. ASSUME NEW v \in Writers, worker'[v][r].pc # "idle"
          PROVE  /\ v \in alive' /\ worker'[v][r].token <= head'[r].token
                 /\ worker'[v][r].token = head'[r].token => head'[r].writer \in {v, NoWriter}
      <4>1. CASE v = w BY <1>0, <1>3, <2>2, <3>1, <4>1
      <4>2. CASE v # w BY <1>0, <1>2, <1>3, <2>2, <3>2, <4>2
      <4> QED BY <4>1, <4>2
    <3>3. ASSUME NEW u \in Writers, NEW v \in Writers, u # v,
                 worker'[u][r].pc # "idle", worker'[v][r].pc # "idle"
          PROVE  worker'[u][r].token # worker'[v][r].token \/ worker'[u][r].token = 0
      <4>1. CASE u = w BY <2>2, <4>1
      <4>2. CASE v = w BY <2>2, <4>2
      <4>3. CASE u # w /\ v # w BY <1>2, <1>3, <3>3, <4>3
      <4> QED BY <4>1, <4>2, <4>3
    <3> QED BY <2>2, <3>1, <3>2, <3>3
  <2>3. CASE /\ head'[r].token = head[r].token
             /\ head'[r].writer \in {head[r].writer, NoWriter}
             /\ Exists(r) <=> Exists(r)'
             /\ worker[w][r].pc # "idle"
             /\ worker'[w][r].token = worker[w][r].token
    BY <1>0, <1>2, <1>3, <2>3
  <2>4. CASE /\ ~Exists(r) /\ Exists(r)'
             /\ head'[r].writer = w /\ head'[r].token = 1
             /\ worker'[w][r].token = 1
    <3>1. \A v \in Writers \ {w} : worker'[v][r].pc = "idle" BY <1>2, <1>3, <2>4
    <3> QED BY <1>0, <1>3, <2>4, <3>1
  <2>5. CASE /\ Exists(r) /\ Exists(r)' /\ worker[w][r].pc # "idle"
             /\ head'[r].writer = w
             /\ worker'[w][r].pc # "idle" => worker'[w][r].token = head'[r].token
             /\ \/ head[r].writer = w /\ head'[r].token = head[r].token
                \/ head'[r].token = head[r].token + 1
    <3>1. ASSUME NEW v \in Writers \ {w}, worker'[v][r].pc # "idle"
          PROVE  worker'[v][r].token < head'[r].token
      <4>1. /\ worker'[v][r] = worker[v][r]
            /\ worker[v][r].token <= head[r].token
            /\ worker[v][r].token = head[r].token => head[r].writer \in {v, NoWriter}
        BY <1>2, <1>3, <3>1
      <4>2. head[r].writer = w => worker[v][r].token # head[r].token
        <5>1. v # w /\ w # NoWriter BY StoreAssumption
        <5> QED BY <4>1, <5>1
      <4>3. CASE head[r].writer = w /\ head'[r].token = head[r].token
        <5>1. worker[v][r].token \in Nat /\ head[r].token \in Nat BY <1>0
        <5>2. worker[v][r].token < head[r].token BY <4>1, <4>2, <4>3, <5>1
        <5> QED BY <4>1, <4>3, <5>2
      <4>4. CASE head'[r].token = head[r].token + 1
        BY <1>0, <4>1, <4>4
      <4> QED BY <2>5, <4>3, <4>4
    <3>2. head'[r].token > 0 BY <1>0, <1>2, <2>5
    <3>3. worker'[w][r].pc # "idle" => worker'[w][r].token = head'[r].token BY <2>5
    <3>4. \A v \in Writers : worker'[v][r].pc # "idle" => v \in alive'
      BY <1>2, <1>3
    <3>5. ASSUME NEW v \in Writers, worker'[v][r].pc # "idle"
          PROVE  /\ worker'[v][r].token <= head'[r].token
                 /\ worker'[v][r].token = head'[r].token => head'[r].writer \in {v, NoWriter}
      <4>1. CASE v = w BY <1>0, <2>5, <3>3, <3>5, <4>1
      <4>2. CASE v # w BY <1>0, <3>1, <3>5, <4>2
      <4> QED BY <4>1, <4>2
    <3>6. ASSUME NEW u \in Writers, NEW v \in Writers, u # v,
                 worker'[u][r].pc # "idle", worker'[v][r].pc # "idle"
          PROVE  worker'[u][r].token # worker'[v][r].token \/ worker'[u][r].token = 0
      <4>1. CASE u = w
        <5>1. worker'[v][r].token < head'[r].token BY <3>1, <3>6, <4>1
        <5> QED BY <1>0, <3>3, <3>6, <4>1, <5>1
      <4>2. CASE v = w
        <5>1. worker'[u][r].token < head'[r].token BY <3>1, <3>6, <4>2
        <5> QED BY <1>0, <3>3, <3>6, <4>2, <5>1
      <4>3. CASE u # w /\ v # w BY <1>2, <1>3, <3>6, <4>3
      <4> QED BY <4>1, <4>2, <4>3
    <3> QED BY <2>5, <3>2, <3>4, <3>5, <3>6
  <2> QED BY <2>1, <2>2, <2>3, <2>4, <2>5 DEF TokenStep
<1>5. ASSUME NEW q \in Runs
      PROVE  /\ Exists(q)' => head'[q].token > 0
             /\ \A v \in Writers : worker'[v][q].pc # "idle" =>
                  /\ v \in alive' /\ Exists(q)' /\ worker'[v][q].token <= head'[q].token
                  /\ worker'[v][q].token = head'[q].token => head'[q].writer \in {v, NoWriter}
             /\ \A u, v \in Writers :
                  u # v /\ worker'[u][q].pc # "idle" /\ worker'[v][q].pc # "idle" =>
                    worker'[u][q].token # worker'[v][q].token \/ worker'[u][q].token = 0
  <2>1. CASE q = r BY <1>4, <2>1
  <2>2. CASE q # r
    <3>1. /\ head'[q].token = head[q].token /\ head'[q].writer = head[q].writer
          /\ Exists(q)' <=> Exists(q)
          /\ \A v \in Writers : worker'[v][q] = worker[v][q]
      BY <1>1, <2>2
    <3>2. /\ Exists(q) => head[q].token > 0
          /\ \A v \in Writers : worker[v][q].pc # "idle" =>
               /\ v \in alive /\ Exists(q) /\ worker[v][q].token <= head[q].token
               /\ worker[v][q].token = head[q].token => head[q].writer \in {v, NoWriter}
          /\ \A u, v \in Writers :
               u # v /\ worker[u][q].pc # "idle" /\ worker[v][q].pc # "idle" =>
                 worker[u][q].token # worker[v][q].token \/ worker[u][q].token = 0
      BY DEF FenceInv, Tokens, OneWorkerPerFence
    <3> QED BY <1>3, <3>1, <3>2
  <2> QED BY <2>1, <2>2
<1> QED BY <1>5 DEF Tokens, OneWorkerPerFence

(* Rivals stay rivals, so a Run that is unreaped has always been.           *)
LEMMA UnreapedBefore ==
  ASSUME AgreementInv, StoreStep, NEW r \in Runs, Unreaped(r)'
  PROVE  Unreaped(r)
<1>1. \A q \in Runs : Exists(q) => Exists(q)' BY RevisionsGrow DEF StoreStep, Exists
<1>2. CASE Rivals(r)' = {}
  <2>1. \A q \in Runs \ {r} : ~(Exists(q)' /\ SessionOf[q] = SessionOf[r])
    BY <1>2 DEF Rivals
  <2> QED BY <1>1, <2>1 DEF Unreaped, Rivals
<1> QED BY <1>2 DEF Unreaped

(* What the reaper does to a Run it may take: nobody relies on its lease.   *)
LEMMA ReapedIsUnheld ==
  ASSUME FenceInv, StoreStep, NEW q \in Runs, NEW r \in Runs, ReapedBy(q, r), Unreaped(q)',
         NEW v \in Writers
  PROVE  worker[v][q].pc \in Holding => ~Owns(q, v, Token(v, q))
<1>1. r \in Runs \ {q} /\ Exists(r)' /\ SessionOf[r] = SessionOf[q]
  BY DEF ReapedBy, Orphans, Rivals
<1>2. Rivals(q)' # {} BY <1>1 DEF Rivals
<1>3. "stall" \notin Faults BY <1>2 DEF Unreaped
<1>4. ~LeaseLive(q) BY DEF ReapedBy
<1> QED BY <1>3, <1>4 DEF FenceInv, HeldLeases, Unreaped

(* The lease behind every point that relies on one.                         *)
LEMMA HeldLeasesKept ==
  ASSUME FenceInv, StoreStep, TypeOK',
         NEW w \in Writers, NEW r \in Runs, TaskOf(w, r),
         NEW q \in Runs, NEW v \in Writers,
         Unreaped(q)', worker'[v][q].pc \in Holding, Owns(q, v, Token(v, q))'
  PROVE  /\ HoldsLease(q, v, Token(v, q))'
         /\ "stall" \notin Faults => LeaseLive(q)'
<1> USE DEF Token
<1>0. /\ AgreementInv /\ OthersKept(w, r) /\ Unreaped(q)
      /\ NoWriter \notin Writers /\ v # NoWriter /\ LeaseTTL > 0
  BY UnreapedBefore, StoreAssumption DEF FenceInv, ServiceInv, TaskOf
<1>1. ASSUME lease'[q] = lease[q], SameFence(q), worker'[v][q].token = worker[v][q].token,
             worker[v][q].pc \in Holding, Exists(q)
      PROVE  /\ HoldsLease(q, v, Token(v, q))'
             /\ "stall" \notin Faults => LeaseLive(q)'
  <2>1. Owns(q, v, Token(v, q)) BY <1>1 DEF Owns, SameFence
  <2>2. HoldsLease(q, v, Token(v, q)) /\ ("stall" \notin Faults => LeaseLive(q))
    BY <1>0, <1>1, <2>1 DEF FenceInv, HeldLeases
  <2> QED BY <1>1, <2>2 DEF HoldsLease, LeaseLive
<1>2. worker[v][q].pc # "idle" => Exists(q) BY DEF FenceInv, Tokens
<1>3. CASE q # r
  <2>1. worker'[v][q] = worker[v][q] BY <1>0, <1>3 DEF OthersKept
  <2>2. Exists(q) BY <1>2, <2>1 DEF Holding
  <2>3. CASE Untouched(q)
    BY <1>1, <2>1, <2>2, <2>3 DEF Untouched, SameFence
  <2>4. CASE ReapedBy(q, r)
    <3>1. Owns(q, v, Token(v, q)) BY <2>1, <2>2, <2>4 DEF ReapedBy, SameFence, Owns
    <3> QED BY <2>1, <2>4, <3>1, ReapedIsUnheld
  <2> QED BY <1>0, <1>3, <2>3, <2>4 DEF OthersKept
<1>4. CASE q = r /\ v # w
  <2>1. worker'[v][r] = worker[v][r] BY <1>0, <1>4 DEF OthersKept
  <2>2. worker[v][r].pc \in Holding /\ Exists(r) BY <1>2, <1>4, <2>1 DEF Holding
  <2>3. head'[r].writer = v /\ head'[r].writer # w /\ head'[r].writer # NoWriter
    BY <1>0, <1>4 DEF Owns
  <2>4. ASSUME Owns(r, w, Token(w, r)), head'[r].writer \in {head[r].writer, NoWriter}
        PROVE  FALSE
    BY <2>3, <2>4 DEF Owns
  <2>5. ~Begins(w, r) /\ ~Works(w, r) /\ ~Ends(w, r) /\ ~GivesBack(w, r)
    BY <2>4 DEF Begins, Works, Ends, GivesBack, SameFence
  <2>6. ~Enters(w, r) /\ ~Takes(w, r) BY <2>3 DEF Enters, Takes
  <2>7. CASE Asked(w, r)
    BY <1>1, <1>4, <2>1, <2>2, <2>7 DEF Asked
  <2>8. CASE Proceeds(w, r)
    <3>1. Owns(r, v, Token(v, r))
      BY <1>4, <2>1, <2>2, <2>8 DEF Proceeds, Quiet, SameFence, Owns
    <3>2. HoldsLease(r, v, Token(v, r)) /\ ("stall" \notin Faults => LeaseLive(r))
      BY <1>0, <1>4, <2>2, <3>1 DEF FenceInv, HeldLeases
    <3> QED BY <1>4, <2>1, <2>8, <3>2 DEF Proceeds, Quiet, HoldsLease
  <2> QED BY <2>5, <2>6, <2>7, <2>8 DEF TaskOf
<1>5. CASE q = r /\ v = w
  <2>1. CASE Proceeds(w, r)
    <3>1. /\ worker[w][r].pc \in Holding /\ worker'[w][r].token = worker[w][r].token
      BY <1>5, <2>1 DEF Proceeds, Follows, Holding
    <3>2. Exists(r) BY <1>2, <1>5, <3>1 DEF Holding
    <3>3. Owns(r, w, Token(w, r))
      BY <1>5, <2>1, <3>1, <3>2 DEF Proceeds, Quiet, SameFence, Owns
    <3>4. HoldsLease(r, w, Token(w, r)) /\ ("stall" \notin Faults => LeaseLive(r))
      BY <1>0, <1>5, <3>1, <3>3 DEF FenceInv, HeldLeases
    <3> QED BY <1>5, <2>1, <3>1, <3>4 DEF Proceeds, Quiet, HoldsLease
  <2>2. CASE Begins(w, r) BY <1>1, <1>5, <2>2 DEF Begins, Owns
  <2>3. CASE Works(w, r)
    BY <1>1, <1>5, <2>3, HoldingPoints DEF Works, Owns
  <2>4. CASE Asked(w, r) BY <1>1, <1>5, <2>4 DEF Asked
  <2>5. CASE Ends(w, r) \/ GivesBack(w, r)
    BY <1>5, <2>5 DEF Ends, GivesBack, Holding
  <2>6. CASE Enters(w, r)
    BY <1>0, <1>5, <2>6 DEF Enters, Grant, HoldsLease, LeaseLive
  <2>7. CASE Takes(w, r)
    <3>1. worker'[w][r].pc # "idle" BY <1>5 DEF Holding
    <3>2. worker'[w][r].token = head'[r].token BY <2>7, <3>1 DEF Takes
    <3> QED BY <1>0, <1>5, <2>7, <3>2 DEF Takes, Grant, HoldsLease, LeaseLive
  <2> QED BY <2>1, <2>2, <2>3, <2>4, <2>5, <2>6, <2>7 DEF TaskOf
<1> QED BY <1>3, <1>4, <1>5

(* A published RUNNING keeps the lease evidence that takeover_fence asks    *)
(* for.                                                                     *)
LEMMA RunningLeasedKept ==
  ASSUME FenceInv, StoreStep,
         NEW w \in Writers, NEW r \in Runs, TaskOf(w, r),
         NEW q \in Runs, Unreaped(q)', head'[q].status = "RUNNING",
         head'[q].writer # NoWriter
  PROVE  Leased(q)'
<1>0. /\ AgreementInv /\ OthersKept(w, r) /\ Unreaped(q) /\ NoWriter \notin Writers
  BY UnreapedBefore, StoreAssumption DEF FenceInv, ServiceInv, TaskOf
<1>1. ASSUME SameFence(q), head'[q].status = head[q].status,
             lease'[q].writer = lease[q].writer
      PROVE  Leased(q)'
  BY <1>0, <1>1 DEF FenceInv, RunningLeased, SameFence, Leased
<1>2. CASE q # r
  <2>1. CASE Untouched(q) BY <1>1, <2>1 DEF Untouched, SameFence
  <2>2. CASE ReapedBy(q, r) BY <2>2 DEF ReapedBy
  <2> QED BY <1>0, <1>2, <2>1, <2>2 DEF OthersKept
<1>3. CASE q = r
  <2>1. CASE Proceeds(w, r) BY <1>1, <1>3, <2>1 DEF Proceeds, Quiet
  <2>2. CASE Begins(w, r) \/ Works(w, r)
    <3>1. /\ Owns(r, w, Token(w, r)) /\ worker[w][r].pc \in Holding
          /\ lease'[r] = lease[r]
      BY <2>2, HoldingPoints DEF Begins, Works
    <3>2. HoldsLease(r, w, Token(w, r)) BY <1>0, <1>3, <3>1 DEF FenceInv, HeldLeases
    <3> QED BY <1>0, <1>3, <3>1, <3>2 DEF HoldsLease, Leased
  <2>3. CASE Ends(w, r) BY <1>3, <2>3 DEF Ends, EndStatuses, FinalStatuses
  <2>4. CASE Asked(w, r) \/ GivesBack(w, r) \/ Enters(w, r)
    BY <1>3, <2>4 DEF Asked, GivesBack, Enters
  <2>5. CASE Takes(w, r) BY <1>0, <1>3, <2>5 DEF Takes, Grant, Leased
  <2> QED BY <2>1, <2>2, <2>3, <2>4, <2>5 DEF TaskOf
<1> QED BY <1>2, <1>3

(* Nothing but its owner or an interruption changes the status of a Run     *)
(* that is being executed.                                                  *)
LEMMA ExecutedOpenKept ==
  ASSUME FenceInv, StoreStep,
         NEW w \in Writers, NEW r \in Runs, TaskOf(w, r),
         NEW q \in Runs, NEW v \in Writers,
         worker'[v][q].pc \in Executing, Owns(q, v, Token(v, q))'
  PROVE  /\ head'[q].status \in {"RUNNING", "CANCELLING", "FAILED_TERMINAL"}
         /\ Unreaped(q)' => head'[q].status # "FAILED_TERMINAL"
<1> USE DEF Token
<1>0. /\ AgreementInv /\ OthersKept(w, r) /\ (Unreaped(q)' => Unreaped(q))
      /\ NoWriter \notin Writers /\ v # NoWriter
  BY UnreapedBefore, StoreAssumption DEF FenceInv, ServiceInv, TaskOf
<1>1. ASSUME SameFence(q), head'[q].status = head[q].status,
             worker'[v][q].token = worker[v][q].token, worker[v][q].pc \in Executing
      PROVE  /\ head'[q].status \in {"RUNNING", "CANCELLING", "FAILED_TERMINAL"}
             /\ Unreaped(q)' => head'[q].status # "FAILED_TERMINAL"
  <2>1. Exists(q) BY <1>1 DEF FenceInv, Tokens, Executing
  <2>2. Owns(q, v, Token(v, q)) BY <1>1, <2>1 DEF Owns, SameFence
  <2> QED BY <1>0, <1>1, <2>2 DEF FenceInv, ExecutedOpen
<1>2. CASE q # r
  <2>1. worker'[v][q] = worker[v][q] BY <1>0, <1>2 DEF OthersKept
  <2>2. CASE Untouched(q) BY <1>1, <2>1, <2>2 DEF Untouched, SameFence
  <2>3. CASE ReapedBy(q, r)
    <3>1. Exists(q) BY <2>1 DEF FenceInv, Tokens, Executing
    <3>2. Owns(q, v, Token(v, q)) BY <2>1, <2>3, <3>1 DEF ReapedBy, SameFence, Owns
    <3>3. worker[v][q].pc \in Holding BY <2>1, HoldingPoints
    <3>4. ~Unreaped(q)' BY <2>3, <3>2, <3>3, ReapedIsUnheld
    <3> QED BY <2>3, <3>4 DEF ReapedBy
  <2> QED BY <1>0, <1>2, <2>2, <2>3 DEF OthersKept
<1>3. CASE q = r
  <2>1. CASE v # w
    <3>1. worker'[v][r] = worker[v][r] BY <1>0, <1>3, <2>1 DEF OthersKept
    <3>2. head'[r].writer = v BY <1>3 DEF Owns
    <3>3. CASE Proceeds(w, r) BY <1>1, <1>3, <3>1, <3>3 DEF Proceeds, Quiet
    <3>4. CASE Enters(w, r) \/ Takes(w, r) BY <2>1, <3>2, <3>4 DEF Enters, Takes
    <3>5. CASE Begins(w, r) \/ Works(w, r) \/ Asked(w, r)
      BY <1>3, <3>5 DEF Begins, Works, Asked
    <3>6. CASE Ends(w, r) BY <2>1, <3>2, <3>6 DEF Ends, SameFence, Owns
    <3>7. CASE GivesBack(w, r) BY <1>0, <3>2, <3>7 DEF GivesBack
    <3> QED BY <3>3, <3>4, <3>5, <3>6, <3>7 DEF TaskOf
  <2>2. CASE v = w
    <3>1. CASE Proceeds(w, r)
      BY <1>1, <1>3, <2>2, <3>1 DEF Proceeds, Quiet, Follows, Executing
    <3>2. CASE Begins(w, r) \/ Works(w, r) \/ Asked(w, r)
      BY <1>3, <3>2 DEF Begins, Works, Asked
    <3>3. CASE Ends(w, r) \/ GivesBack(w, r) \/ Enters(w, r) \/ Takes(w, r)
      BY <1>3, <2>2, <3>3 DEF Ends, GivesBack, Enters, Takes, Executing
    <3> QED BY <3>1, <3>2, <3>3 DEF TaskOf
  <2> QED BY <2>1, <2>2
<1> QED BY <1>2, <1>3

(* An active Run has an open log.                                           *)
LEMMA ActiveOpenKept ==
  ASSUME FenceInv, StoreStep,
         NEW w \in Writers, NEW r \in Runs, TaskOf(w, r),
         NEW q \in Runs, Unreaped(q)', Active(q)'
  PROVE  Open(q)'
<1>0. AgreementInv /\ OthersKept(w, r) /\ Unreaped(q)
  BY UnreapedBefore DEF FenceInv, ServiceInv, TaskOf
<1>1. CASE q # r
  <2>1. CASE Untouched(q)
    <3>1. Active(q) BY <2>1 DEF Untouched, Active
    <3>2. Open(q) BY <1>0, <3>1 DEF FenceInv, ActiveOpen
    <3> QED BY <2>1, <3>2 DEF Untouched, Open, CanAppend, LastType
  <2>2. CASE ReapedBy(q, r) BY <2>2 DEF ReapedBy, Active, ActiveStatuses
  <2> QED BY <1>0, <1>1, <2>1, <2>2 DEF OthersKept
<1>2. CASE q = r
  <2>1. CASE Proceeds(w, r)
    BY <1>0, <1>2, <2>1 DEF Proceeds, Quiet, FenceInv, ActiveOpen, Active
  <2>2. CASE Begins(w, r) \/ Asked(w, r) \/ Enters(w, r)
    BY <1>2, <2>2 DEF Begins, Asked, Enters
  <2>3. CASE Works(w, r)
    <3>1. head[r].status \in {"RUNNING", "CANCELLING"}
      BY <1>0, <1>2, <2>3 DEF Works, FenceInv, ExecutedOpen, Executing
    <3>2. Open(r) BY <1>0, <1>2, <3>1 DEF FenceInv, ActiveOpen, Active, ActiveStatuses
    <3> QED BY <1>2, <2>3, <3>2 DEF Works
  <2>4. CASE Ends(w, r)
    BY <1>2, <2>4 DEF Ends, EndStatuses, FinalStatuses, Active, ActiveStatuses
  <2>5. CASE GivesBack(w, r) \/ Takes(w, r)
    <3>1. head'[r].status = head[r].status /\ log'[r] = log[r]
      BY <2>5 DEF GivesBack, Takes
    <3>2. Open(r) BY <1>0, <1>2, <3>1 DEF FenceInv, ActiveOpen, Active
    <3> QED BY <1>2, <3>1, <3>2 DEF Open, CanAppend, LastType
  <2> QED BY <2>1, <2>2, <2>3, <2>4, <2>5 DEF TaskOf
<1> QED BY <1>1, <1>2

(* A Run that comes under way or is granted a lease is alone in its         *)
(* session: the one needs a live lease of its own, the other clears the     *)
(* session first.                                                           *)
LEMMA LiveAloneKept ==
  ASSUME FenceInv, StoreStep, NEW w \in Writers, NEW r \in Runs, TaskOf(w, r)
  PROVE  LiveAlone'
<1> SUFFICES ASSUME "stall" \notin Faults PROVE LiveAlone' BY DEF LiveAlone
<1>0. /\ OthersKept(w, r) /\ OneLiveRunPerSession
      /\ \A p, q \in Runs :
           Present(p) /\ UnderWay(q) /\ SessionOf[q] = SessionOf[p] => q = p
      /\ \A m \in Runs : LeaseLive(m) => Exists(m)
  BY DEF TaskOf, FenceInv, OwnershipInv, LeaseFollowsFence, LiveAlone
<1>1. ASSUME NEW m \in Runs \ {r}
      PROVE  (UnderWay(m)' => UnderWay(m)) /\ (LeaseLive(m)' => LeaseLive(m))
  <2>1. CASE Untouched(m)
    BY <2>1 DEF Untouched, UnderWay, LeaseLive, CanAppend, LastType
  <2>2. CASE ReapedBy(m, r)
    BY <2>2 DEF ReapedBy, UnderWay, LeaseLive, NoLease
  <2> QED BY <1>0, <2>1, <2>2 DEF OthersKept
<1>2. \/ (UnderWay(r)' => UnderWay(r)) /\ (LeaseLive(r)' => LeaseLive(r))
      \/ \A m \in Runs \ {r} : SessionOf[m] = SessionOf[r] => ~Present(m)'
  <2>1. CASE Proceeds(w, r)
    BY <2>1 DEF Proceeds, Quiet, UnderWay, Open
  <2>2. CASE Asked(w, r) BY <2>2 DEF Asked, UnderWay, LeaseLive
  <2>3. CASE Ends(w, r)
    BY <2>3 DEF Ends, UnderWay, LeaseLive, NoLease, EndStatuses, FinalStatuses
  <2>4. CASE GivesBack(w, r)
    BY <2>4 DEF GivesBack, UnderWay, LeaseLive, NoLease, CanAppend, LastType
  <2>5. CASE Begins(w, r) \/ Works(w, r)
    <3>1. Owns(r, w, Token(w, r)) /\ worker[w][r].pc \in Holding
      BY <2>5, HoldingPoints DEF Begins, Works
    <3>2. LeaseLive(r) BY <3>1 DEF FenceInv, HeldLeases, Unreaped
    <3>3. ASSUME NEW m \in Runs \ {r}, SessionOf[m] = SessionOf[r] PROVE ~Present(m)
      <4>1. ~LeaseLive(m) BY <1>0, <3>2, <3>3 DEF OneLiveRunPerSession
      <4>2. ~UnderWay(m) BY <1>0, <3>2, <3>3 DEF Present
      <4> QED BY <4>1, <4>2 DEF Present
    <3> QED BY <1>1, <3>3 DEF Present
  <2>6. CASE Enters(w, r) \/ Takes(w, r)
    <3>1. Clears(r) BY <2>6 DEF Enters, Takes
    <3> SUFFICES ASSUME NEW m \in Runs \ {r}, SessionOf[m] = SessionOf[r]
                 PROVE  ~Present(m)'
      OBVIOUS
    <3>2. CASE Exists(m)
      <4>1. ~LeaseLive(m) /\ head'[m].status \notin {"CREATED", "RUNNING"}
        BY <3>1, <3>2 DEF Clears, Rivals
      <4> QED BY <1>1, <4>1 DEF Present, UnderWay
    <3>3. CASE ~Exists(m)
      <4>1. ~UnderWay(m) /\ ~LeaseLive(m) BY <1>0, <3>3 DEF UnderWay, Exists
      <4> QED BY <1>1, <4>1 DEF Present
    <3> QED BY <3>2, <3>3
  <2> QED BY <2>1, <2>2, <2>3, <2>4, <2>5, <2>6 DEF TaskOf
<1>3. ASSUME NEW p \in Runs, NEW q \in Runs, p # q, SessionOf[q] = SessionOf[p],
             Present(p)', UnderWay(q)'
      PROVE  FALSE
  <2>1. CASE (UnderWay(r)' => UnderWay(r)) /\ (LeaseLive(r)' => LeaseLive(r))
    <3>1. UnderWay(q) /\ Present(p) BY <1>1, <1>3, <2>1 DEF Present
    <3> QED BY <1>0, <1>3, <3>1
  <2>2. CASE \A m \in Runs \ {r} : SessionOf[m] = SessionOf[r] => ~Present(m)'
    <3>1. Present(q)' BY <1>3 DEF Present
    <3>2. CASE p = r BY <1>3, <2>2, <3>1, <3>2
    <3>3. CASE q = r BY <1>3, <2>2, <3>3
    <3>4. CASE p # r /\ q # r
      <4>1. UnderWay(q) /\ Present(p) BY <1>1, <1>3, <3>4 DEF Present
      <4> QED BY <1>0, <1>3, <4>1
    <3> QED BY <3>2, <3>3, <3>4
  <2> QED BY <1>2, <2>1, <2>2
<1> QED BY <1>3 DEF LiveAlone

(* A step of a process keeps the invariant.                                 *)
LEMMA FenceInvTask ==
  ASSUME FenceInv, StoreStep, ServiceInv', OwnershipInv',
         NEW w \in Writers, NEW r \in Runs, TaskOf(w, r)
  PROVE  FenceInv'
<1>1. TypeOK' /\ worker' \in [Writers -> [Runs -> WorkerType]]
  BY DEF ServiceInv, ServiceTypeOK
<1>2. ServiceTypeOK BY DEF FenceInv, ServiceInv
<1>3. OthersKept(w, r) /\ TokenStep(w, r) BY <1>2, TaskTokens DEF TaskOf
<1>4. Tokens' /\ OneWorkerPerFence' BY <1>1, <1>3, TokensKept
<1>5. HeldLeases' BY <1>1, HeldLeasesKept DEF HeldLeases
<1>6. RunningLeased' BY RunningLeasedKept DEF RunningLeased
<1>7. ExecutedOpen' BY ExecutedOpenKept DEF ExecutedOpen
<1>8. ActiveOpen' BY ActiveOpenKept DEF ActiveOpen
<1>9. LiveAlone' BY LiveAloneKept
<1> QED BY <1>4, <1>5, <1>6, <1>7, <1>8, <1>9 DEF FenceInv

(* So does a crash: the tasks of the process are gone, its fences stay.     *)
LEMMA FenceInvCrash ==
  ASSUME FenceInv, ServiceInv', OwnershipInv', NEW w \in Writers, Crash(w)
  PROVE  FenceInv'
<1> USE DEF Token
<1>0. /\ UNCHANGED vars /\ alive' = alive \ {w}
      /\ \A v \in Writers, r \in Runs :
           \/ worker'[v][r].pc = "idle"
           \/ v # w /\ worker'[v][r] = worker[v][r]
  BY DEF Crash, FenceInv, ServiceInv, ServiceTypeOK, NoWorker
<1>1. Tokens' /\ OneWorkerPerFence'
  BY <1>0 DEF FenceInv, Tokens, OneWorkerPerFence, vars, Exists
<1>2. HeldLeases' /\ ExecutedOpen'
  <2>1. \A r \in Runs : Unreaped(r)' => Unreaped(r)
    BY <1>0 DEF Unreaped, Rivals, Exists, vars
  <2> QED BY <1>0, <2>1
          DEF FenceInv, HeldLeases, ExecutedOpen, Owns, Exists, HoldsLease, LeaseLive,
              Holding, Executing, vars
<1>3. RunningLeased' /\ ActiveOpen' /\ LiveAlone'
  BY <1>0
  DEF FenceInv, RunningLeased, ActiveOpen, LiveAlone, Unreaped, Rivals, Exists, Leased,
      Active, Open, CanAppend, LastType, Present, UnderWay, LeaseLive, vars
<1> QED BY <1>1, <1>2, <1>3 DEF FenceInv

(* Time takes no live lease from a task that beats.                         *)
LEMMA FenceInvTime ==
  ASSUME FenceInv, ServiceInv', OwnershipInv', Time
  PROVE  FenceInv'
<1> USE DEF Token
<1>0. /\ UNCHANGED <<worker, alive, log>>
      /\ \A r \in Runs : /\ SameFence(r) /\ head'[r].status = head[r].status
                         /\ lease'[r].writer = lease[r].writer
                         /\ lease'[r].token = lease[r].token
                         /\ LeaseLive(r)' => LeaseLive(r)
                         /\ lease[r].ttl > 1 => LeaseLive(r)'
  <2>1. TypeOK BY DEF FenceInv, ServiceInv, ServiceTypeOK
  <2>2. Tick /\ UNCHANGED <<worker, alive, log>> BY DEF Time, Tick
  <2>3. ASSUME NEW r \in Runs
        PROVE  /\ SameFence(r) /\ head'[r].status = head[r].status
               /\ lease'[r].writer = lease[r].writer
               /\ lease'[r].token = lease[r].token
               /\ LeaseLive(r)' => LeaseLive(r)
               /\ lease[r].ttl > 1 => LeaseLive(r)'
    <3>1. head[r] \in HeadType /\ lease[r] \in LeaseType BY <2>1 DEF TypeOK
    <3> QED BY <2>2, <3>1 DEF Tick, SameFence, HeadType, LeaseType, LeaseLive
  <2> QED BY <2>2, <2>3
<1>1. \A r \in Runs : /\ Exists(r)' <=> Exists(r)
                      /\ Unreaped(r)' <=> Unreaped(r)
                      /\ \A w \in Writers : Owns(r, w, Token(w, r))' <=> Owns(r, w, Token(w, r))
  BY <1>0 DEF Exists, Unreaped, Rivals, Owns, SameFence
<1>2. Tokens' /\ OneWorkerPerFence'
  BY <1>0, <1>1 DEF FenceInv, Tokens, OneWorkerPerFence, SameFence
<1>3. HeldLeases'
  <2> SUFFICES ASSUME NEW r \in Runs, NEW w \in Writers, Unreaped(r)',
                      worker'[w][r].pc \in Holding, Owns(r, w, Token(w, r))'
               PROVE  /\ HoldsLease(r, w, Token(w, r))'
                      /\ "stall" \notin Faults => LeaseLive(r)'
    BY DEF HeldLeases
  <2>1. Unreaped(r) /\ worker[w][r].pc \in Holding /\ Owns(r, w, Token(w, r))
    BY <1>0, <1>1
  <2>2. HoldsLease(r, w, Token(w, r)) /\ ("stall" \notin Faults => LeaseLive(r))
    BY <2>1 DEF FenceInv, HeldLeases
  <2>3. w \in alive /\ worker[w][r].pc # "idle"
    BY <2>1 DEF FenceInv, Tokens, Holding
  <2>4. "stall" \notin Faults => lease[r].ttl > 1
    BY <2>1, <2>2, <2>3 DEF Time, Punctual, MayRenew
  <2> QED BY <1>0, <2>2, <2>4 DEF HoldsLease
<1>4. ExecutedOpen' BY <1>0, <1>1 DEF FenceInv, ExecutedOpen
<1>5. RunningLeased' /\ ActiveOpen'
  BY <1>0, <1>1
  DEF FenceInv, RunningLeased, ActiveOpen, Leased, Active, Open, CanAppend, LastType,
      SameFence
<1>6. LiveAlone'
  BY <1>0 DEF FenceInv, LiveAlone, Present, UnderWay, CanAppend, LastType
<1> QED BY <1>2, <1>3, <1>4, <1>5, <1>6 DEF FenceInv

(* FenceInv is inductive.                                                   *)
LEMMA FenceInvNext ==
  ASSUME FenceInv, [ServiceNext]_serviceVars PROVE FenceInv'
<1>1. ServiceInv /\ OwnershipInv BY DEF FenceInv
<1>2. StoreStep /\ ServiceInv' BY <1>1, ServiceStepIsStoreStep, ServiceInvNext
<1>3. OwnershipInv' BY <1>1, <1>2, OwnershipNext DEF StoreStep
<1>4. CASE UNCHANGED serviceVars
  BY <1>2, <1>3, <1>4
  DEF serviceVars, vars, FenceInv, Tokens, OneWorkerPerFence, HeldLeases, RunningLeased,
      ExecutedOpen, ActiveOpen, LiveAlone, Unreaped, Rivals, Exists, Owns, HoldsLease,
      Leased, LeaseLive, Active, Open, CanAppend, LastType, Present, UnderWay, Token
<1>5. ASSUME NEW w \in Writers, NEW r \in Runs,
             \/ AdmissionStep(w, r) \/ ResumeStep(w, r) \/ AttemptStep(w, r)
             \/ EndStep(w, r) \/ Watchdog(w, r) \/ CancelRun(w, r)
      PROVE  FenceInv'
  <2>1. TaskOf(w, r) BY <1>1, <1>5, ProcessTask
  <2> QED BY <1>2, <1>3, <2>1, FenceInvTask
<1> QED BY <1>2, <1>3, <1>4, <1>5, FenceInvCrash, FenceInvTime DEF ServiceNext

(* FenceInv holds in every reachable state of the service.                  *)
LEMMA FenceInvariant == ServiceSpec => []FenceInv
<1>1. ASSUME ServiceInit PROVE FenceInv
  <2>1. Init /\ \A w \in Writers, r \in Runs : worker[w][r].pc = "idle"
    BY <1>1 DEF ServiceInit, NoWorker
  <2>2. \A r \in Runs : /\ head[r].status = "ABSENT"
                        /\ lease[r].writer = NoWriter /\ lease[r].ttl = 0
    BY <2>1 DEF Init, NoHead, NoLease
  <2>3. Tokens /\ OneWorkerPerFence
    BY <2>1, <2>2 DEF Tokens, OneWorkerPerFence, Exists
  <2>4. HeldLeases /\ ExecutedOpen
    BY <2>1 DEF HeldLeases, ExecutedOpen, Holding, Executing
  <2>5. RunningLeased /\ ActiveOpen /\ LiveAlone
    BY <2>2 DEF RunningLeased, ActiveOpen, LiveAlone, UnderWay, Active, ActiveStatuses
  <2>6. ServiceInv
    <3>1. AgreementInv BY <2>1, AgreementInit
    <3>2. TypeOK BY <3>1 DEF AgreementInv
    <3>3. NoWorker \in WorkerType BY DEF NoWorker, WorkerType, Points
    <3> QED BY <1>1, <2>1, <3>1, <3>2, <3>3
            DEF ServiceInit, ServiceInv, ServiceTypeOK, ReadBehind
  <2>7. OwnershipInv
    BY <2>2, <2>6
    DEF OwnershipInv, ServiceInv, AgreementInv, LeaseFollowsFence, OneLiveRunPerSession,
        Leased, LeaseLive
  <2> QED BY <2>3, <2>4, <2>5, <2>6, <2>7 DEF FenceInv
<1>2. FenceInv /\ [ServiceNext]_serviceVars => FenceInv' BY FenceInvNext
<1> QED BY <1>1, <1>2, PTL DEF ServiceSpec

----------------------------------------------------------------------------
(* What follows                                                             *)

(* Start, resume, takeover and a resume after a failed start each give an   *)
(* attempt a token of its own, for any number of processes and under every  *)
(* fault.                                                                   *)
THEOREM OneWorkerPerFenceProved == ServiceSpec => []OneWorkerPerFence
<1>1. FenceInv => OneWorkerPerFence BY DEF FenceInv
<1> QED BY <1>1, FenceInvariant, PTL

(* No order of crashes, stalls and failures leaves a Run without the        *)
(* evidence that acquire_fence or takeover_fence asks for.                  *)
THEOREM RecoverableProved == ServiceSpec => []Recoverable
<1>1. ASSUME FenceInv PROVE Recoverable
  <2> SUFFICES ASSUME NEW r \in Runs, Exists(r),
                      head[r].status \notin {"CANCELLING"} \cup FinalStatuses,
                      ~LeaseLive(r), Rivals(r) = {}
               PROVE  IF head[r].writer = NoWriter THEN MayAcquire(r)
                                                   ELSE MayTakeOver(r, head[r].token)
    BY DEF Recoverable
  <2>1. SessionAvailable(r) BY DEF SessionAvailable, Orphans
  <2>2. head[r].status = "RUNNING" /\ head[r].writer # NoWriter => Leased(r)
    BY <1>1 DEF FenceInv, RunningLeased, Unreaped
  <2> QED BY <2>1, <2>2 DEF MayAcquire, MayTakeOver
<1> QED BY <1>1, FenceInvariant, PTL

(* No owner of a fence is taken for dead: processes beat in time, or a      *)
(* session has no second Run that could be admitted over it.                *)
Undisturbed ==
  "stall" \notin Faults \/ \A q, r \in Runs : SessionOf[q] = SessionOf[r] => q = r

(* Then the owner of a fence only executes a Run that is running or being   *)
(* cancelled, although the status its start or resume looked at is long     *)
(* stale.                                                                   *)
THEOREM DecidedRunNotExecutedProved ==
  ASSUME Undisturbed PROVE ServiceSpec => []DecidedRunNotExecuted
<1>1. ASSUME FenceInv PROVE DecidedRunNotExecuted
  <2>1. \A r \in Runs : Unreaped(r) BY DEF Undisturbed, Unreaped, Rivals
  <2> QED BY <1>1, <2>1 DEF FenceInv, ExecutedOpen, Executing, DecidedRunNotExecuted
<1> QED BY <1>1, FenceInvariant, PTL

(* Without stalls no two Runs of a session are under way, across starts,    *)
(* resumes of waiting and blocked Runs, crashes and reaping.                *)
THEOREM OneActiveRunProved ==
  ASSUME "stall" \notin Faults PROVE ServiceSpec => []OneActiveRunPerSession
<1>1. FenceInv => OneActiveRunPerSession
  BY DEF FenceInv, LiveAlone, Present, OneActiveRunPerSession
<1> QED BY <1>1, FenceInvariant, PTL

(* Nor does a Run that still looks active without a lease ever refuse the   *)
(* run_failed with which the next admission converges it.                   *)
THEOREM DeadRunNeverBlocksProved ==
  ASSUME Undisturbed PROVE ServiceSpec => []DeadRunNeverBlocks
<1>1. ASSUME FenceInv PROVE DeadRunNeverBlocks
  <2>1. \A r \in Runs : Unreaped(r) BY DEF Undisturbed, Unreaped, Rivals
  <2> QED BY <1>1, <2>1 DEF FenceInv, ActiveOpen, Open, DeadRunNeverBlocks
<1> QED BY <1>1, FenceInvariant, PTL

(* A step changes a terminal status only under an attempt that executes the *)
(* Run although it has been reaped.                                         *)
LEMMA DecidedSteps ==
  ASSUME FenceInv, [ServiceNext]_serviceVars, NEW q \in Runs,
         head[q].status \in FinalStatuses
  PROVE  \/ head'[q].status = head[q].status
         \/ head[q].status = "FAILED_TERMINAL" /\ ~Unreaped(q)
<1>1. ASSUME NEW w \in Writers, NEW r \in Runs, TaskOf(w, r)
      PROVE  \/ head'[q].status = head[q].status
             \/ head[q].status = "FAILED_TERMINAL" /\ ~Unreaped(q)
  <2>1. CASE q # r
    <3>1. ~Active(q) BY DEF Active, ActiveStatuses, FinalStatuses
    <3>2. Untouched(q) BY <1>1, <2>1, <3>1 DEF TaskOf, OthersKept, ReapedBy, Orphans
    <3> QED BY <3>2 DEF Untouched
  <2>2. CASE q = r
    <3>1. Exists(r) BY <2>2 DEF Exists, FinalStatuses
    <3>2. CASE Works(w, r)
      BY <2>2, <3>2 DEF Works, FenceInv, ExecutedOpen, Executing, FinalStatuses
    <3>3. ~Begins(w, r) /\ ~Asked(w, r) /\ ~Enters(w, r)
      BY <2>2, <3>1 DEF Begins, Asked, Enters
    <3> QED BY <1>1, <2>2, <3>2, <3>3
            DEF TaskOf, Proceeds, Quiet, Ends, GivesBack, Takes
  <2> QED BY <2>1, <2>2
<1>2. ASSUME NEW w \in Writers, Crash(w) PROVE head'[q].status = head[q].status
  BY <1>2 DEF Crash, vars
<1>3. ASSUME Time PROVE head'[q].status = head[q].status
  <2>1. head[q] \in HeadType BY DEF FenceInv, ServiceInv, ServiceTypeOK, TypeOK
  <2> QED BY <1>3, <2>1 DEF Time, Tick, HeadType
<1>4. ASSUME UNCHANGED serviceVars PROVE head'[q].status = head[q].status
  BY <1>4 DEF serviceVars, vars
<1>5. ServiceInv /\ OwnershipInv BY DEF FenceInv
<1> QED BY <1>1, <1>2, <1>3, <1>4, <1>5, ProcessTask DEF ServiceNext

(* And a terminal Run stays what it is: no worker that was reaped while it  *)
(* slept publishes it as running again.                                     *)
THEOREM TerminalStaysTerminalProved ==
  ASSUME Undisturbed PROVE ServiceSpec => TerminalStaysTerminal
<1>1. \A r \in Runs : Unreaped(r) BY DEF Undisturbed, Unreaped, Rivals
<1>2. FenceInv /\ [ServiceNext]_serviceVars =>
        [\A r \in Runs : head[r].status \in FinalStatuses =>
           head'[r].status = head[r].status]_serviceVars
  BY <1>1, DecidedSteps
<1> QED BY <1>2, FenceInvariant, PTL DEF ServiceSpec, TerminalStaysTerminal

(* Even then an outcome that a worker or an interruption has written stays: *)
(* only a reaped Run, whose worker sleeps through its failure, can come     *)
(* back.                                                                    *)
OutcomeStays ==
  [][\A r \in Runs : head[r].status \in FinalStatuses \ {"FAILED_TERMINAL"} =>
       head'[r].status = head[r].status]_serviceVars
THEOREM OutcomeStaysProved == ServiceSpec => OutcomeStays
<1>1. FenceInv /\ [ServiceNext]_serviceVars =>
        [\A r \in Runs : head[r].status \in FinalStatuses \ {"FAILED_TERMINAL"} =>
           head'[r].status = head[r].status]_serviceVars
  BY DecidedSteps
<1> QED BY <1>1, FenceInvariant, PTL DEF ServiceSpec, OutcomeStays

(* An attempt whose fence is gone, wherever it was when it lost it, changes *)
(* no head, lease, intent, index or ledger and logs no more than progress.  *)
THEOREM StaleWorkerIsFencedProved == ServiceSpec => StaleWorkerIsFenced
<1>1. ASSUME TypeOK, NEW w \in Writers, NEW r \in Runs, ~Owns(r, w, Token(w, r)),
             AttemptStep(w, r) \/ EndStep(w, r)
      PROVE  /\ UNCHANGED FencedFacts(r)
             /\ log'[r] # log[r] => log'[r][Len(log'[r])].type = "progress"
  <2>1. \/ UNCHANGED vars
        \/ \E n : AppendProgress(r, n)
    <3>1. CASE AttemptStep(w, r)
      BY <1>1, <3>1
      DEF AttemptStep, SetUp, SetUpRaises, BlockResume, Transition, MayTransition,
          WorkflowStep, BootstrapIndex, ActivateWorkflow, PrepareOperation, FinalizeBundle,
          WriteHead, CommitRefused, ReadRevision, PersistProgress, Heartbeat, RenewLease,
          MayRenew, LoseLease
    <3>2. CASE EndStep(w, r)
      BY <1>1, <3>2
      DEF EndStep, DecideResume, RuntimeReturns, BoundaryRaises, RuntimeRaises,
          WriteFailure, WriteOutcome, Refused, Transition, MayTransition, Observe,
          ObserveInterruption, MayObserve, Finalize, FinalizeInterruption, MayFinalize,
          CloseContext, ReleaseFence
    <3> QED BY <1>1, <3>1, <3>2
  <2>2. CASE UNCHANGED vars BY <2>2 DEF vars, FencedFacts
  <2>3. ASSUME NEW n, AppendProgress(r, n)
        PROVE  /\ UNCHANGED FencedFacts(r)
               /\ log'[r] # log[r] => log'[r][Len(log'[r])].type = "progress"
    <3>1. UNCHANGED <<head, lease, intent, index, ledger>> BY <2>3 DEF AppendProgress
    <3>2. log[r] \in Seq(EventType) BY <1>1 DEF TypeOK
    <3> DEFINE e == Event("progress", n)
    <3>3. log'[r] = Append(log[r], e) BY <1>1, <2>3 DEF AppendProgress, TypeOK
    <3>4. e.type = "progress" BY DEF Event
    <3>5. log'[r][Len(log'[r])] = e
      <4> HIDE DEF e
      <4> QED BY <3>2, <3>3
    <3> QED BY <3>1, <3>4, <3>5 DEF FencedFacts
  <2> QED BY <2>1, <2>2, <2>3
<1>2. ServiceTypeOK => TypeOK BY DEF ServiceTypeOK
<1>3. ServiceTypeOK =>
        [\A w \in Writers, r \in Runs :
           (/\ worker[w][r].pc \notin {"idle", "reserved", "resuming"}
            /\ ~Owns(r, w, Token(w, r))
            /\ AttemptStep(w, r) \/ EndStep(w, r)) =>
              /\ UNCHANGED FencedFacts(r)
              /\ log'[r] # log[r] => log'[r][Len(log'[r])].type = "progress"]_serviceVars
  BY <1>1, <1>2
<1> QED BY <1>3, ServiceTypeCorrect, PTL DEF StaleWorkerIsFenced
=============================================================================
