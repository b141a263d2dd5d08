--------------------------- MODULE RunStoreProofs ---------------------------
(***************************************************************************)
(* What RunStore guarantees for every number of Runs, sessions, writers    *)
(* and keys and for every value of its bounds.                             *)
(***************************************************************************)
EXTENDS RunStore, TLAPS

----------------------------------------------------------------------------
(* Facts about the parts the transactions are built from                    *)

(* The state events of a status are event types.                            *)
LEMMA EventsForType ==
  ASSUME NEW status PROVE EventsFor(status) \subseteq EventTypes
BY DEF EventsFor, EventTypes, TerminalEvents

(* A granted lease is a lease.                                              *)
LEMMA GrantType ==
  ASSUME NEW w \in Writers, NEW t \in Nat PROVE Grant(w, t) \in LeaseType
BY StoreAssumption DEF Grant, LeaseType

(* A head that was just written has age 0.                                  *)
LEMMA NewAge == 0 \in 0..LeaseTTL
BY StoreAssumption

(* Each kind of update of a head row keeps its type.                        *)
LEMMA HeadUpdateType ==
  ASSUME NEW h \in HeadType, NEW status \in Statuses, NEW n \in Nat,
         NEW w \in Writers \cup {NoWriter}, NEW t \in Nat
  PROVE  /\ [h EXCEPT !.status = status, !.age = 0] \in HeadType
         /\ [h EXCEPT !.status = status, !.revision = n, !.age = 0] \in HeadType
         /\ [h EXCEPT !.writer = w, !.age = 0] \in HeadType
         /\ [h EXCEPT !.writer = w, !.token = t, !.age = 0] \in HeadType
<1>1. [h EXCEPT !.status = status, !.age = 0] \in HeadType
  BY NewAge, Zenon DEF HeadType
<1>2. [h EXCEPT !.status = status, !.revision = n, !.age = 0] \in HeadType
  BY NewAge, Zenon DEF HeadType
<1>3. [h EXCEPT !.writer = w, !.age = 0] \in HeadType
  BY NewAge, Zenon DEF HeadType
<1>4. [h EXCEPT !.writer = w, !.token = t, !.age = 0] \in HeadType
  BY NewAge, Zenon DEF HeadType
<1> QED BY <1>1, <1>2, <1>3, <1>4

(* The reaper keeps heads, leases and logs well typed.                      *)
LEMMA ReapedType ==
  ASSUME TypeOK, NEW r \in Runs
  PROVE  /\ HeadReaped(r) \in [Runs -> HeadType]
         /\ LeaseReaped(r) \in [Runs -> LeaseType]
         /\ LogReaped(r) \in [Runs -> Seq(EventType)]
<1>1. HeadReaped(r) \in [Runs -> HeadType]
  <2>1. ASSUME NEW q \in Runs
        PROVE  [head[q] EXCEPT !.status = "FAILED_TERMINAL", !.age = 0] \in HeadType
    <3>1. "FAILED_TERMINAL" \in Statuses
      BY DEF Statuses, EndStatuses, FinalStatuses
    <3>2. head[q] \in HeadType BY DEF TypeOK
    <3> QED BY <3>1, <3>2, HeadUpdateType, StoreAssumption DEF HeadType
  <2> QED BY <2>1 DEF HeadReaped, TypeOK
<1>2. LeaseReaped(r) \in [Runs -> LeaseType]
  BY StoreAssumption DEF LeaseReaped, TypeOK, LeaseType, NoLease
<1>3. LogReaped(r) \in [Runs -> Seq(EventType)]
  <2>1. ASSUME NEW q \in Runs
        PROVE  Event("run_failed", head[q].revision) \in EventType
    BY DEF TypeOK, HeadType, Event, EventType, EventTypes, TerminalEvents
  <2> QED BY <2>1 DEF LogReaped, TypeOK
<1> QED BY <1>1, <1>2, <1>3

(* So does a new revision of a head.                                        *)
LEMMA AdvanceType ==
  ASSUME TypeOK, NEW r \in Runs, NEW status \in Statuses
  PROVE  Advance(r, status) \in [Runs -> HeadType]
<1>1. head[r] \in HeadType BY DEF TypeOK
<1> DEFINE new == [head[r] EXCEPT !.status = status, !.revision = @ + 1, !.age = 0]
<1>2. new \in HeadType
  <2>1. head[r].revision + 1 \in Nat BY <1>1 DEF HeadType
  <2> QED BY <1>1, <2>1, HeadUpdateType DEF HeadType
<1>3. Advance(r, status) = [head EXCEPT ![r] = new]
  BY <1>1 DEF Advance, TypeOK, HeadType
<1> QED BY <1>2, <1>3 DEF TypeOK

(* So does the release of a lease.                                          *)
LEMMA LeaseReleasedType ==
  ASSUME TypeOK, NEW r \in Runs, NEW w, NEW t
  PROVE  LeaseReleased(r, w, t) \in [Runs -> LeaseType]
BY StoreAssumption DEF LeaseReleased, TypeOK, LeaseType, NoLease

(* So does an appended event.                                               *)
LEMMA AppendedType ==
  ASSUME TypeOK, NEW r \in Runs, NEW type \in EventTypes, NEW n \in Nat
  PROVE  [log EXCEPT ![r] = Append(@, Event(type, n))] \in [Runs -> Seq(EventType)]
<1>1. log[r] \in Seq(EventType) /\ Event(type, n) \in EventType
  BY DEF TypeOK, Event, EventType
<1>2. Append(log[r], Event(type, n)) \in Seq(EventType) BY <1>1
<1> QED BY <1>2 DEF TypeOK

----------------------------------------------------------------------------
(* Type correctness                                                         *)

(* Ownership operations keep TypeOK.                                        *)
LEMMA TypeOwnership ==
  ASSUME TypeOK, NEW r \in Runs, NEW w \in Writers, OwnershipStep(r, w)
  PROVE  TypeOK'
<1> USE StoreAssumption
<1>0. head[r].token \in Nat BY DEF TypeOK, HeadType
<1>1. ASSUME NEW k \in Keys, ReserveStart(k, r, w) PROVE TypeOK'
  <2>1. head' \in [Runs -> HeadType]
    BY <1>1, ReapedType DEF ReserveStart, HeadType, Statuses, ActiveStatuses
  <2>2. lease' \in [Runs -> LeaseType]
    BY <1>1, ReapedType, GrantType DEF ReserveStart
  <2>3. log' \in [Runs -> Seq(EventType)]
    <3>1. <<Event("run_created", 1)>> \in Seq(EventType)
      BY DEF Event, EventType, EventTypes
    <3> QED BY <1>1, <3>1, ReapedType DEF ReserveStart
  <2>4. ledger' \in [Runs -> [Keys -> EntryType]]
    BY <1>1 DEF ReserveStart, TypeOK, EntryType
  <2> QED BY <1>1, <2>1, <2>2, <2>3, <2>4 DEF ReserveStart, TypeOK
<1>2. ASSUME Reacquire(r, w, head[r].token) PROVE TypeOK'
  BY <1>0, <1>2, ReapedType, GrantType DEF Reacquire, TypeOK
<1>3. ASSUME GrantFence(r, w) PROVE TypeOK'
  <2>1. head' \in [Runs -> HeadType]
    <3>1. NextToken(r) \in Nat BY <1>0 DEF NextToken
    <3>2. head[r] \in HeadType BY DEF TypeOK
    <3>3. [head[r] EXCEPT !.writer = w, !.token = NextToken(r), !.age = 0] \in HeadType
      BY <3>1, <3>2, HeadUpdateType DEF HeadType
    <3> QED BY <1>3, <3>3, ReapedType DEF GrantFence
  <2>2. lease' \in [Runs -> LeaseType]
    BY <1>0, <1>3, ReapedType, GrantType DEF GrantFence, NextToken
  <2> QED BY <1>3, <2>1, <2>2, ReapedType DEF GrantFence, TypeOK
<1>4. ASSUME RenewLease(r, w, head[r].token) PROVE TypeOK'
  BY <1>0, <1>4, GrantType DEF RenewLease, TypeOK
<1>5. ASSUME ReleaseFence(r, w, head[r].token) PROVE TypeOK'
  <2>1. head[r] \in HeadType BY DEF TypeOK
  <2>2. [head[r] EXCEPT !.writer = NoWriter, !.age = 0] \in HeadType
    BY <2>1, HeadUpdateType DEF HeadType
  <2>3. head' = [head EXCEPT ![r] = [head[r] EXCEPT !.writer = NoWriter, !.age = 0]]
    BY <1>5 DEF ReleaseFence, TypeOK
  <2> QED BY <1>5, <2>2, <2>3, LeaseReleasedType DEF ReleaseFence, TypeOK
<1> QED
  BY <1>1, <1>2, <1>3, <1>4, <1>5 DEF OwnershipStep, AcquireFence, TakeoverFence

(* Fenced operations keep TypeOK.                                           *)
LEMMA TypeFenced ==
  ASSUME TypeOK, NEW r \in Runs, NEW w \in Writers, FencedStep(r, w)
  PROVE  TypeOK'
<1> USE StoreAssumption
<1> DEFINE t == head[r].token  n == head[r].revision
<1>0. t \in Nat /\ n \in Nat /\ n + 1 \in Nat BY DEF TypeOK, HeadType
<1>1. ASSUME NEW target \in LauncherTargets, NEW type \in EventsFor(target),
             Transition(r, w, t, target, type)
      PROVE  TypeOK'
  <2>1. type \in EventTypes BY EventsForType
  <2>2. log' \in [Runs -> Seq(EventType)]
    BY <1>0, <1>1, <2>1, AppendedType DEF Transition
  <2>3. head' \in [Runs -> HeadType]
    <3>1. target \in Statuses
      BY DEF LauncherTargets, Statuses, ActiveStatuses, EndStatuses, FinalStatuses
    <3>2. head[r] \in HeadType BY DEF TypeOK
    <3>3. [head[r] EXCEPT !.status = target, !.age = 0] \in HeadType
      BY <3>1, <3>2, HeadUpdateType DEF HeadType
    <3>4. head' = [head EXCEPT ![r] = [head[r] EXCEPT !.status = target, !.age = 0]]
      BY <1>1 DEF Transition, TypeOK
    <3> QED BY <3>3, <3>4 DEF TypeOK
  <2>4. lease' \in [Runs -> LeaseType]
    BY <1>1, LeaseReleasedType DEF Transition, LeaseAfter, TypeOK
  <2> QED BY <1>1, <2>2, <2>3, <2>4 DEF Transition, TypeOK
<1>2. ASSUME ObserveInterruption(r, w, t) PROVE TypeOK'
  <2>1. head[r].status \in Statuses BY DEF TypeOK, HeadType
  <2>2. intent' \in [Runs -> IntentType]
    BY <1>2 DEF ObserveInterruption, TypeOK, IntentType, Phases
  <2> QED BY <1>2, <2>1, <2>2, AdvanceType DEF ObserveInterruption, TypeOK
<1>3. ASSUME FinalizeInterruption(r, w, t) PROVE TypeOK'
  <2>1. OutcomeOf(intent[r].reason) \in Statuses
    BY DEF OutcomeOf, Statuses, EndStatuses, FinalStatuses
  <2>2. intent' \in [Runs -> IntentType]
    BY <1>3 DEF FinalizeInterruption, TypeOK, IntentType, Phases
  <2>3. log' \in [Runs -> Seq(EventType)]
    BY <1>0, <1>3, EventsForType, AppendedType DEF FinalizeInterruption
  <2> QED BY <1>3, <2>1, <2>2, <2>3, AdvanceType DEF FinalizeInterruption, TypeOK
<1>4. ASSUME NEW k \in Keys, NEW op \in {"resume", "workflow"},
             PrepareOperation(r, w, t, n, k, op)
      PROVE  TypeOK'
  <2>1. head[r].status \in Statuses BY DEF TypeOK, HeadType
  <2>2. ledger' \in [Runs -> [Keys -> EntryType]]
    BY <1>0, <1>4 DEF PrepareOperation, TypeOK, EntryType
  <2> QED BY <1>4, <2>1, <2>2, AdvanceType DEF PrepareOperation, TypeOK
<1>5. ASSUME BootstrapIndex(r, w, t, n) PROVE TypeOK'
  <2>1. "RUNNING" \in Statuses BY DEF Statuses, ActiveStatuses
  <2>2. index' \in [Runs -> IndexType]
    BY <1>0, <1>5 DEF BootstrapIndex, TypeOK, IndexType
  <2> QED BY <1>5, <2>1, <2>2, AdvanceType DEF BootstrapIndex, TypeOK
<1>6. ASSUME ActivateWorkflow(r, w, t, n) PROVE TypeOK'
  <2>1. "RUNNING" \in Statuses /\ "workflow_activated" \in EventTypes
    BY DEF Statuses, ActiveStatuses, EventTypes
  <2>2. index' \in [Runs -> IndexType]
    BY <1>0, <1>6 DEF ActivateWorkflow, TypeOK, IndexType
  <2> QED BY <1>0, <1>6, <2>1, <2>2, AdvanceType, AppendedType
          DEF ActivateWorkflow, TypeOK
<1>7. ASSUME NEW k \in Keys, NEW done \in BOOLEAN, FinalizeBundle(r, w, t, n, k, done)
      PROVE  TypeOK'
  <2>1. "RUNNING" \in Statuses BY DEF Statuses, ActiveStatuses
  <2>2. index' \in [Runs -> IndexType]
    BY <1>0, <1>7 DEF FinalizeBundle, TypeOK, IndexType
  <2>3. ledger' \in [Runs -> [Keys -> EntryType]]
    <3>1. ledger[r][k] \in EntryType BY DEF TypeOK
    <3>2. [ledger[r][k] EXCEPT !.state = "COMMITTED"] \in EntryType
      BY <3>1 DEF EntryType
    <3>3. [ledger[r] EXCEPT ![k] = [ledger[r][k] EXCEPT !.state = "COMMITTED"]]
            \in [Keys -> EntryType]
      BY <3>2 DEF TypeOK
    <3>4. ledger' = [ledger EXCEPT ![r] =
            [ledger[r] EXCEPT ![k] = [ledger[r][k] EXCEPT !.state = "COMMITTED"]]]
      BY <1>7, Zenon DEF FinalizeBundle
    <3> QED BY <3>3, <3>4 DEF TypeOK
  <2>4. log' \in [Runs -> Seq(EventType)]
    <3>1. /\ Event("checkpoint_committed", n + 1) \in EventType
          /\ Event("workflow_completed", n + 1) \in EventType
      BY <1>0 DEF Event, EventType, EventTypes
    <3> DEFINE tail == IF done THEN <<Event("workflow_completed", n + 1)>> ELSE <<>>
    <3>2. tail \in Seq(EventType) /\ <<Event("checkpoint_committed", n + 1)>> \in Seq(EventType)
      BY <3>1
    <3>3. log[r] \o <<Event("checkpoint_committed", n + 1)>> \o tail \in Seq(EventType)
      BY <3>2 DEF TypeOK
    <3> QED BY <1>7, <3>3 DEF FinalizeBundle, TypeOK
  <2> QED BY <1>7, <2>1, <2>2, <2>3, <2>4, AdvanceType DEF FinalizeBundle, TypeOK
<1> QED BY <1>1, <1>2, <1>3, <1>4, <1>5, <1>6, <1>7 DEF FencedStep

(* The control plane and the progress events keep TypeOK.                   *)
LEMMA TypeUnfenced ==
  ASSUME TypeOK, NEW r \in Runs, UnfencedStep(r)
  PROVE  TypeOK'
<1>0. head[r].revision \in Nat /\ head[r].revision + 1 \in Nat BY DEF TypeOK, HeadType
<1>1. ASSUME NEW reason \in Reasons, RequestInterruption(r, reason) PROVE TypeOK'
  <2>1. "CANCELLING" \in Statuses /\ "run_cancelling" \in EventTypes
    BY DEF Statuses, ActiveStatuses, EventTypes
  <2>2. intent' \in [Runs -> IntentType]
    BY <1>1 DEF RequestInterruption, TypeOK, IntentType, Phases
  <2> QED BY <1>0, <1>1, <2>1, <2>2, AdvanceType, AppendedType
          DEF RequestInterruption, TypeOK
<1>2. ASSUME NEW n \in 1..head[r].revision, AppendProgress(r, n) PROVE TypeOK'
  <2>1. n \in Nat /\ "progress" \in EventTypes BY <1>0 DEF EventTypes
  <2> QED BY <1>2, <2>1, AppendedType DEF AppendProgress, TypeOK
<1> QED BY <1>1, <1>2 DEF UnfencedStep

(* Time keeps TypeOK: leases stop at 0 and ages at LeaseTTL.                *)
LEMMA TypeTick == ASSUME TypeOK, Tick PROVE TypeOK'
<1>1. ASSUME NEW r \in Runs PROVE head'[r] \in HeadType
  <2>1. head[r] \in HeadType BY DEF TypeOK
  <2> DEFINE older == IF head[r].age < LeaseTTL THEN head[r].age + 1 ELSE LeaseTTL
  <2>2. older \in 0..LeaseTTL BY <2>1, StoreAssumption DEF HeadType
  <2>3. head'[r] = [head[r] EXCEPT !.age = older] BY DEF Tick
  <2> QED BY <2>1, <2>2, <2>3 DEF HeadType
<1>2. ASSUME NEW r \in Runs PROVE lease'[r] \in LeaseType
  <2>1. lease[r] \in LeaseType BY DEF TypeOK
  <2> DEFINE left == IF lease[r].ttl > 0 THEN lease[r].ttl - 1 ELSE 0
  <2>2. left \in 0..LeaseTTL BY <2>1, StoreAssumption DEF LeaseType
  <2>3. lease'[r] = [lease[r] EXCEPT !.ttl = left] BY DEF Tick
  <2> QED BY <2>1, <2>2, <2>3 DEF LeaseType
<1>3. head' \in [Runs -> HeadType] /\ lease' \in [Runs -> LeaseType]
  BY <1>1, <1>2 DEF Tick
<1> QED BY <1>3 DEF Tick, TypeOK

(* An empty database is well typed.                                         *)
LEMMA TypeInit == ASSUME Init PROVE TypeOK
BY StoreAssumption
DEF Init, TypeOK, NoHead, NoLease, NoIntent, NoIndex, NoEntry, HeadType,
    LeaseType, IntentType, IndexType, EntryType, Statuses, Phases, Reasons

(* TypeOK is inductive.                                                     *)
LEMMA TypeNext == ASSUME TypeOK, [Next]_vars PROVE TypeOK'
BY TypeOwnership, TypeFenced, TypeUnfenced, TypeTick DEF Next, vars, TypeOK

(* Every transaction keeps every table of the store well typed: a status is *)
(* one the launcher and the coordinators know, a lease never carries more   *)
(* than WORKER_LEASE_SECONDS, and a log holds known events only.            *)
THEOREM StoreTypeCorrect == Spec => []TypeOK
<1>1. Init => TypeOK BY TypeInit
<1>2. TypeOK /\ [Next]_vars => TypeOK' BY TypeNext
<1> QED BY <1>1, <1>2, PTL DEF Spec

----------------------------------------------------------------------------
(* What one transaction does to one Run.  Every step of the store is, for   *)
(* each Run, one of these; the invariants about status, intent, index and   *)
(* log are proved against them and not against the eighteen transactions.   *)

Logged(q, type) ==
  /\ CanAppend(q, type) /\ Room(q, 1)
  /\ \E e \in EventType : e.type = type /\ log'[q] = Append(log[q], e)

SameStatus(q) ==
  head'[q].status = head[q].status /\ head'[q].revision = head[q].revision
NextRevision(q, status) ==
  head'[q].status = status /\ head'[q].revision = head[q].revision + 1

Kept(q) ==
  /\ SameStatus(q) \/ NextRevision(q, head[q].status)
  /\ intent'[q] = intent[q] /\ index'[q] = index[q] /\ log'[q] = log[q]
  /\ ~Exists(q) => SameStatus(q)
Reaped(q) ==
  /\ Active(q) /\ ~LeaseLive(q)
  /\ Logged(q, "run_failed")
  /\ head'[q].status = "FAILED_TERMINAL" /\ head'[q].revision = head[q].revision
  /\ intent'[q] = intent[q] /\ index'[q] = index[q]
Admitted(q) ==
  /\ ~Exists(q)
  /\ \E e \in EventType : e.type = "run_created" /\ log'[q] = <<e>>
  /\ head'[q].status = "CREATED" /\ head'[q].revision = 1
  /\ intent'[q] = intent[q] /\ index'[q] = index[q]
Moved(q) ==
  /\ \E target \in LauncherTargets : \E type \in EventsFor(target) :
       /\ target \in AllowedTargets(head[q].status)
       /\ Logged(q, type)
       /\ head'[q].status = target /\ head'[q].revision = head[q].revision
  /\ intent'[q] = intent[q] /\ index'[q] = index[q]
Interrupted(q) ==
  /\ Exists(q) /\ intent[q].phase = "NONE"
  /\ head[q].status \notin {"CANCELLING"} \cup EndStatuses
  /\ \E reason \in Reasons :
       intent'[q] = [phase |-> "REQUESTED", reason |-> reason]
  /\ Logged(q, "run_cancelling")
  /\ NextRevision(q, "CANCELLING")
  /\ index'[q] = index[q]
Observed(q) ==
  /\ head[q].status = "CANCELLING" /\ intent[q].phase = "REQUESTED"
  /\ intent'[q] = [phase |-> "OBSERVED", reason |-> intent[q].reason]
  /\ NextRevision(q, "CANCELLING")
  /\ index'[q] = index[q] /\ log'[q] = log[q]
Finalized(q) ==
  /\ head[q].status = "CANCELLING" /\ intent[q].phase = "OBSERVED"
  /\ intent'[q] = [phase |-> "FINALIZED", reason |-> intent[q].reason]
  /\ \E type \in EventsFor(OutcomeOf(intent[q].reason)) : Logged(q, type)
  /\ NextRevision(q, OutcomeOf(intent[q].reason))
  /\ index'[q] = index[q]
Progressed(q) ==
  /\ Exists(q) /\ Cardinality(ProgressOf(q)) < MaxProgress
  /\ Logged(q, "progress")
  /\ SameStatus(q) /\ intent'[q] = intent[q] /\ index'[q] = index[q]
Bootstrapped(q) ==
  /\ Exists(q) /\ head[q].revision = 1
  /\ NextRevision(q, "RUNNING") /\ index'[q].revision = 2
  /\ index[q].workflow = "NONE" /\ index'[q].workflow = "PENDING"
  /\ intent'[q] = intent[q] /\ log'[q] = log[q]
Activated(q) ==
  /\ Exists(q) /\ index[q].revision = head[q].revision
  /\ Logged(q, "workflow_activated")
  /\ NextRevision(q, "RUNNING") /\ index'[q].revision = head[q].revision + 1
  /\ index[q].workflow = "PENDING" /\ index'[q].workflow = "RUNNING"
  /\ intent'[q] = intent[q]
Committed(q) ==
  /\ Exists(q) /\ Committable(q)
  /\ CanAppend(q, "checkpoint_committed") /\ Room(q, 2)
  /\ index[q].workflow = "RUNNING"
  /\ \E e, f \in EventType :
       /\ e.type = "checkpoint_committed" /\ f.type = "workflow_completed"
       /\ \/ /\ index'[q].workflow = "RUNNING"
             /\ log'[q] = Append(log[q], e)
          \/ /\ index'[q].workflow = "COMPLETED"
             /\ log'[q] = Append(Append(log[q], e), f)
  /\ NextRevision(q, "RUNNING") /\ index'[q].revision = head[q].revision + 1
  /\ intent'[q] = intent[q]

StepOf(q) ==
  \/ Kept(q) \/ Reaped(q) \/ Admitted(q) \/ Moved(q) \/ Interrupted(q)
  \/ Observed(q) \/ Finalized(q) \/ Progressed(q) \/ Bootstrapped(q)
  \/ Activated(q) \/ Committed(q)

(* The reaper does to each other Run either nothing or a reaping.           *)
LEMMA StepOfReaper ==
  ASSUME TypeOK, NEW r \in Runs, SessionAvailable(r), RoomToReap(r),
         NEW q \in Runs, q # r,
         head'[q] = HeadReaped(r)[q], log'[q] = LogReaped(r)[q],
         intent'[q] = intent[q], index'[q] = index[q]
  PROVE  Kept(q) \/ Reaped(q)
<1>1. CASE q \in Orphans(r)
  <2>1. /\ Active(q) /\ ~LeaseLive(q)
        /\ CanAppend(q, "run_failed") /\ Room(q, 1)
    BY <1>1 DEF SessionAvailable, RoomToReap, Orphans
  <2>2. /\ head'[q].status = "FAILED_TERMINAL"
        /\ head'[q].revision = head[q].revision
    <3>1. head'[q] = [head[q] EXCEPT !.status = "FAILED_TERMINAL", !.age = 0]
      BY <1>1 DEF HeadReaped
    <3>2. head[q] \in HeadType BY DEF TypeOK
    <3> QED BY <3>1, <3>2, Zenon DEF HeadType
  <2>3. Logged(q, "run_failed")
    <3> DEFINE e == Event("run_failed", head[q].revision)
    <3>1. e \in EventType /\ e.type = "run_failed"
      BY DEF TypeOK, HeadType, Event, EventType, EventTypes, TerminalEvents
    <3>2. log'[q] = Append(log[q], e) BY <1>1 DEF LogReaped
    <3> QED BY <2>1, <3>1, <3>2 DEF Logged
  <2> QED BY <2>1, <2>2, <2>3 DEF Reaped
<1>2. CASE q \notin Orphans(r)
  BY <1>2 DEF HeadReaped, LogReaped, Kept, SameStatus
<1> QED BY <1>1, <1>2

(* An ownership operation does one thing of StepOf to every Run.            *)
LEMMA StepOfOwnership ==
  ASSUME TypeOK, NEW r \in Runs, NEW w \in Writers, OwnershipStep(r, w),
         NEW q \in Runs
  PROVE  StepOf(q)
<1>0. /\ head[r] \in HeadType /\ head[q] \in HeadType
      /\ HeadReaped(r) \in [Runs -> HeadType]
      /\ LogReaped(r) \in [Runs -> Seq(EventType)]
  BY ReapedType DEF TypeOK
<1>1. r \notin Orphans(r) BY DEF Orphans, Rivals
<1>2. ASSUME NEW k \in Keys, ReserveStart(k, r, w) PROVE StepOf(q)
  <2>1. CASE q = r
    <3>1. /\ head'[r].status = "CREATED" /\ head'[r].revision = 1
          /\ log'[r] = <<Event("run_created", 1)>>
      BY <1>0, <1>2 DEF ReserveStart
    <3>2. /\ Event("run_created", 1) \in EventType
          /\ Event("run_created", 1).type = "run_created"
      BY DEF Event, EventType, EventTypes
    <3>3. Admitted(r) BY <1>2, <3>1, <3>2 DEF ReserveStart, Admitted
    <3> QED BY <2>1, <3>3 DEF StepOf
  <2>2. CASE q # r
    <3>1. /\ SessionAvailable(r) /\ RoomToReap(r)
          /\ head'[q] = HeadReaped(r)[q] /\ log'[q] = LogReaped(r)[q]
          /\ intent'[q] = intent[q] /\ index'[q] = index[q]
      BY <1>0, <1>2, <2>2 DEF ReserveStart
    <3> QED BY <2>2, <3>1, StepOfReaper DEF StepOf
  <2> QED BY <2>1, <2>2
<1>3. ASSUME Reacquire(r, w, head[r].token) PROVE StepOf(q)
  <2>1. /\ SessionAvailable(r) /\ RoomToReap(r)
        /\ head' = HeadReaped(r) /\ log' = LogReaped(r)
        /\ intent' = intent /\ index' = index
    BY <1>3 DEF Reacquire, MayReacquire
  <2>2. CASE q = r
    BY <1>1, <2>1, <2>2 DEF HeadReaped, LogReaped, StepOf, Kept, SameStatus
  <2>3. CASE q # r BY <2>1, <2>3, StepOfReaper DEF StepOf
  <2> QED BY <2>2, <2>3
<1>4. ASSUME GrantFence(r, w), SessionAvailable(r) PROVE StepOf(q)
  <2>1. CASE q = r
    <3>1. head'[r] = [head[r] EXCEPT !.writer = w, !.token = NextToken(r), !.age = 0]
      BY <1>0, <1>4, Zenon DEF GrantFence
    <3>2. SameStatus(r) BY <1>0, <3>1, Zenon DEF SameStatus, HeadType
    <3>3. intent'[r] = intent[r] /\ index'[r] = index[r] /\ log'[r] = log[r]
      BY <1>1, <1>4 DEF GrantFence, LogReaped
    <3> QED BY <2>1, <3>2, <3>3 DEF StepOf, Kept
  <2>2. CASE q # r
    <3>1. /\ RoomToReap(r)
          /\ head'[q] = HeadReaped(r)[q] /\ log'[q] = LogReaped(r)[q]
          /\ intent'[q] = intent[q] /\ index'[q] = index[q]
      BY <1>0, <1>4, <2>2 DEF GrantFence
    <3> QED BY <1>4, <2>2, <3>1, StepOfReaper DEF StepOf
  <2> QED BY <2>1, <2>2
<1>5. ASSUME RenewLease(r, w, head[r].token) PROVE StepOf(q)
  BY <1>5 DEF RenewLease, StepOf, Kept, SameStatus
<1>6. ASSUME ReleaseFence(r, w, head[r].token) PROVE StepOf(q)
  <2>1. SameStatus(q)
    <3>1. CASE q = r
      BY <1>0, <1>6, <3>1 DEF ReleaseFence, SameStatus, TypeOK, HeadType
    <3>2. CASE q # r
      BY <1>0, <1>6, <3>2 DEF ReleaseFence, SameStatus, TypeOK
    <3> QED BY <3>1, <3>2
  <2> QED BY <1>6, <2>1 DEF ReleaseFence, StepOf, Kept
<1> QED
  BY <1>2, <1>3, <1>4, <1>5, <1>6
  DEF OwnershipStep, AcquireFence, MayAcquire, TakeoverFence, MayTakeOver

(* What a new revision of one head does to each head.                       *)
LEMMA AdvanceOf ==
  ASSUME TypeOK, NEW r \in Runs, NEW status \in Statuses, head' = Advance(r, status)
  PROVE  /\ NextRevision(r, status)
         /\ \A q \in Runs \ {r} : SameStatus(q)
<1>1. head[r] \in HeadType BY DEF TypeOK
<1>2. NextRevision(r, status)
  BY <1>1 DEF Advance, NextRevision, TypeOK, HeadType
<1>3. \A q \in Runs \ {r} : SameStatus(q) BY DEF Advance, SameStatus, TypeOK
<1> QED BY <1>2, <1>3

(* What an append to one log does to each log.                              *)
LEMMA LoggedBy ==
  ASSUME TypeOK, NEW r \in Runs, NEW type \in EventTypes, NEW n \in Nat,
         CanAppend(r, type), Room(r, 1),
         log' = [log EXCEPT ![r] = Append(@, Event(type, n))]
  PROVE  /\ Logged(r, type)
         /\ \A q \in Runs \ {r} : log'[q] = log[q]
<1>1. Event(type, n) \in EventType /\ Event(type, n).type = type
  BY DEF Event, EventType
<1>2. log'[r] = Append(log[r], Event(type, n)) BY DEF TypeOK
<1>3. \A q \in Runs \ {r} : log'[q] = log[q] BY DEF TypeOK
<1> QED BY <1>1, <1>2, <1>3 DEF Logged

(* A fenced operation does one thing of StepOf to every Run.                *)
LEMMA StepOfFenced ==
  ASSUME TypeOK, NEW r \in Runs, NEW w \in Writers, FencedStep(r, w),
         NEW q \in Runs
  PROVE  StepOf(q)
<1> DEFINE t == head[r].token  n == head[r].revision
<1>0. /\ head[r] \in HeadType /\ head[q] \in HeadType
      /\ n \in Nat /\ n + 1 \in Nat /\ head[r].status \in Statuses
      /\ {"RUNNING", "CANCELLING"} \subseteq Statuses
  BY DEF TypeOK, HeadType, Statuses, ActiveStatuses
<1>1. ASSUME NEW target \in LauncherTargets, NEW type \in EventsFor(target),
             Transition(r, w, t, target, type)
      PROVE  StepOf(q)
  <2>1. Logged(r, type) /\ (q # r => log'[q] = log[q])
    BY <1>0, <1>1, EventsForType, LoggedBy DEF Transition, MayTransition
  <2>2. /\ head'[r].status = target /\ head'[r].revision = head[r].revision
        /\ q # r => SameStatus(q)
    BY <1>0, <1>1 DEF Transition, SameStatus, TypeOK, HeadType
  <2>3. CASE q = r
    BY <1>1, <2>1, <2>2, <2>3 DEF StepOf, Moved, Transition, MayTransition
  <2>4. CASE q # r
    BY <1>1, <2>1, <2>2, <2>4 DEF StepOf, Kept, Transition
  <2> QED BY <2>3, <2>4
<1>2. ASSUME ObserveInterruption(r, w, t) PROVE StepOf(q)
  <2>1. NextRevision(r, head[r].status) /\ (q # r => SameStatus(q))
    BY <1>0, <1>2, AdvanceOf DEF ObserveInterruption
  <2>2. /\ intent'[r] = [phase |-> "OBSERVED", reason |-> intent[r].reason]
        /\ q # r => intent'[q] = intent[q]
    BY <1>2 DEF ObserveInterruption, TypeOK, IntentType
  <2>3. CASE q = r
    BY <1>2, <2>1, <2>2, <2>3 DEF StepOf, Observed, ObserveInterruption, MayObserve
  <2>4. CASE q # r
    BY <1>2, <2>1, <2>2, <2>4 DEF StepOf, Kept, ObserveInterruption
  <2> QED BY <2>3, <2>4
<1>3. ASSUME FinalizeInterruption(r, w, t) PROVE StepOf(q)
  <2> DEFINE outcome == OutcomeOf(intent[r].reason)
  <2>0. outcome \in Statuses
    BY DEF OutcomeOf, Statuses, EndStatuses, FinalStatuses
  <2>1. NextRevision(r, outcome) /\ (q # r => SameStatus(q))
    BY <1>3, <2>0, AdvanceOf DEF FinalizeInterruption
  <2>2. /\ intent'[r] = [phase |-> "FINALIZED", reason |-> intent[r].reason]
        /\ q # r => intent'[q] = intent[q]
    BY <1>3 DEF FinalizeInterruption, TypeOK, IntentType
  <2>3. /\ \E type \in EventsFor(outcome) : Logged(r, type)
        /\ q # r => log'[q] = log[q]
    <3>1. PICK type \in EventsFor(outcome) :
            log' = [log EXCEPT ![r] = Append(@, Event(type, n + 1))]
      BY <1>3 DEF FinalizeInterruption
    <3>2. CanAppend(r, type) /\ Room(r, 1)
      <4>1. CanAppend(r, "run_cancelled") /\ Room(r, 1)
        BY <1>3 DEF FinalizeInterruption, MayFinalize
      <4> QED BY <4>1 DEF CanAppend
    <3> QED BY <1>0, <3>1, <3>2, EventsForType, LoggedBy
  <2>4. CASE q = r
    BY <1>3, <2>1, <2>2, <2>3, <2>4
    DEF StepOf, Finalized, FinalizeInterruption, MayFinalize
  <2>5. CASE q # r
    BY <1>3, <2>1, <2>2, <2>3, <2>5 DEF StepOf, Kept, FinalizeInterruption
  <2> QED BY <2>4, <2>5
<1>4. ASSUME NEW k \in Keys, NEW op \in {"resume", "workflow"},
             PrepareOperation(r, w, t, n, k, op)
      PROVE  StepOf(q)
  <2>1. NextRevision(r, head[r].status) /\ (q # r => SameStatus(q))
    BY <1>0, <1>4, AdvanceOf DEF PrepareOperation
  <2>2. Exists(r) BY <1>4 DEF PrepareOperation, WriteHead, Owns
  <2>3. intent' = intent /\ index' = index /\ log' = log
    BY <1>4 DEF PrepareOperation
  <2> QED BY <2>1, <2>2, <2>3 DEF StepOf, Kept
<1>5. ASSUME BootstrapIndex(r, w, t, n) PROVE StepOf(q)
  <2>1. NextRevision(r, "RUNNING") /\ (q # r => SameStatus(q))
    BY <1>0, <1>5, AdvanceOf DEF BootstrapIndex
  <2>2. /\ index'[r].revision = 2 /\ (q # r => index'[q] = index[q])
        /\ index[r].workflow = "NONE" /\ index'[r].workflow = "PENDING"
    BY <1>5 DEF BootstrapIndex, TypeOK, NoIndex
  <2>3. /\ Exists(r) /\ head[r].revision = 1
        /\ intent' = intent /\ log' = log
    BY <1>5 DEF BootstrapIndex, WriteHead, Owns
  <2>4. CASE q = r BY <2>1, <2>2, <2>3, <2>4 DEF StepOf, Bootstrapped
  <2>5. CASE q # r BY <2>1, <2>2, <2>3, <2>5 DEF StepOf, Kept
  <2> QED BY <2>4, <2>5
<1>6. ASSUME ActivateWorkflow(r, w, t, n) PROVE StepOf(q)
  <2>1. NextRevision(r, "RUNNING") /\ (q # r => SameStatus(q))
    BY <1>0, <1>6, AdvanceOf DEF ActivateWorkflow
  <2>2. /\ index'[r].revision = n + 1 /\ (q # r => index'[q] = index[q])
        /\ index[r].workflow = "PENDING" /\ index'[r].workflow = "RUNNING"
    BY <1>6 DEF ActivateWorkflow, TypeOK
  <2>3. /\ Exists(r) /\ index[r].revision = head[r].revision /\ intent' = intent
    BY <1>6 DEF ActivateWorkflow, WriteHead, Owns
  <2>4. Logged(r, "workflow_activated") /\ (q # r => log'[q] = log[q])
    <3>1. "workflow_activated" \in EventTypes BY DEF EventTypes
    <3> QED BY <1>0, <1>6, <3>1, LoggedBy DEF ActivateWorkflow
  <2>5. CASE q = r BY <2>1, <2>2, <2>3, <2>4, <2>5 DEF StepOf, Activated
  <2>6. CASE q # r BY <2>1, <2>2, <2>3, <2>4, <2>6 DEF StepOf, Kept
  <2> QED BY <2>5, <2>6
<1>7. ASSUME NEW k \in Keys, NEW done \in BOOLEAN, FinalizeBundle(r, w, t, n, k, done)
      PROVE  StepOf(q)
  <2> DEFINE e == Event("checkpoint_committed", n + 1)
             f == Event("workflow_completed", n + 1)
  <2>1. NextRevision(r, "RUNNING") /\ (q # r => SameStatus(q))
    BY <1>0, <1>7, AdvanceOf DEF FinalizeBundle
  <2>2. /\ index'[r].revision = n + 1 /\ (q # r => index'[q] = index[q])
        /\ index[r].workflow = "RUNNING"
        /\ index'[r].workflow = IF done THEN "COMPLETED" ELSE "RUNNING"
    BY <1>7 DEF FinalizeBundle, TypeOK
  <2>3. /\ Exists(r) /\ Committable(r) /\ intent' = intent
        /\ CanAppend(r, "checkpoint_committed") /\ Room(r, 2)
    BY <1>7 DEF FinalizeBundle, WriteHead, Owns
  <2>4. /\ e \in EventType /\ e.type = "checkpoint_committed"
        /\ f \in EventType /\ f.type = "workflow_completed"
    BY <1>0 DEF Event, EventType, EventTypes
  <2>5. /\ \/ ~done /\ log'[r] = Append(log[r], e)
           \/ done /\ log'[r] = Append(Append(log[r], e), f)
        /\ q # r => log'[q] = log[q]
    <3>0. log[r] \in Seq(EventType) BY DEF TypeOK
    <3>1. log' = [log EXCEPT ![r] =
                    log[r] \o <<e>> \o (IF done THEN <<f>> ELSE <<>>)]
      BY <1>7 DEF FinalizeBundle
    <3>2. log'[r] = log[r] \o <<e>> \o (IF done THEN <<f>> ELSE <<>>)
      BY <3>1 DEF TypeOK
    <3>3. CASE done
      <4>1. log[r] \o <<e>> \o <<f>> = Append(Append(log[r], e), f)
        BY <2>4, <3>0
      <4> QED BY <3>1, <3>2, <3>3, <4>1 DEF TypeOK
    <3>4. CASE ~done
      <4>1. log[r] \o <<e>> \o <<>> = Append(log[r], e) BY <2>4, <3>0
      <4> QED BY <3>1, <3>2, <3>4, <4>1 DEF TypeOK
    <3> QED BY <3>3, <3>4
  <2>6. CASE q = r BY <2>1, <2>2, <2>3, <2>4, <2>5, <2>6 DEF StepOf, Committed
  <2>7. CASE q # r BY <2>1, <2>2, <2>3, <2>5, <2>7 DEF StepOf, Kept
  <2> QED BY <2>6, <2>7
<1> QED BY <1>1, <1>2, <1>3, <1>4, <1>5, <1>6, <1>7 DEF FencedStep

(* So does an unfenced one.                                                 *)
LEMMA StepOfUnfenced ==
  ASSUME TypeOK, NEW r \in Runs, UnfencedStep(r), NEW q \in Runs
  PROVE  StepOf(q)
<1>0. /\ head[r].revision \in Nat /\ head[r].revision + 1 \in Nat
      /\ "CANCELLING" \in Statuses /\ {"run_cancelling", "progress"} \subseteq EventTypes
  BY DEF TypeOK, HeadType, Statuses, ActiveStatuses, EventTypes
<1>1. ASSUME NEW reason \in Reasons, RequestInterruption(r, reason) PROVE StepOf(q)
  <2>1. NextRevision(r, "CANCELLING") /\ (q # r => SameStatus(q))
    BY <1>0, <1>1, AdvanceOf DEF RequestInterruption
  <2>2. Logged(r, "run_cancelling") /\ (q # r => log'[q] = log[q])
    BY <1>0, <1>1, LoggedBy DEF RequestInterruption, MayInterrupt
  <2>0. head[r].status \notin {"CANCELLING"} \cup EndStatuses
    BY <1>1 DEF RequestInterruption, MayInterrupt
  <2>3. /\ intent'[r] = [phase |-> "REQUESTED", reason |-> reason]
        /\ q # r => intent'[q] = intent[q]
        /\ index' = index /\ Exists(r) /\ intent[r].phase = "NONE"
    BY <1>1 DEF RequestInterruption, MayInterrupt, TypeOK
  <2>4. CASE q = r BY <2>0, <2>1, <2>2, <2>3, <2>4 DEF StepOf, Interrupted
  <2>5. CASE q # r BY <2>1, <2>2, <2>3, <2>5 DEF StepOf, Kept
  <2> QED BY <2>4, <2>5
<1>2. ASSUME NEW n \in 1..head[r].revision, AppendProgress(r, n) PROVE StepOf(q)
  <2>1. n \in Nat BY <1>0
  <2>2. Logged(r, "progress") /\ (q # r => log'[q] = log[q])
    BY <1>0, <1>2, <2>1, LoggedBy DEF AppendProgress
  <2> QED BY <1>2, <2>2 DEF AppendProgress, StepOf, Kept, Progressed, SameStatus
<1> QED BY <1>1, <1>2 DEF UnfencedStep

(* Time changes no fact of a Run.                                           *)
LEMMA StepOfTick == ASSUME TypeOK, Tick, NEW q \in Runs PROVE Kept(q)
<1>1. head[q] \in HeadType BY DEF TypeOK
<1>2. SameStatus(q) BY <1>1 DEF Tick, SameStatus, HeadType
<1> QED BY <1>2 DEF Tick, Kept

(* Every step of the store does to each Run one of the things that StepOf   *)
(* lists.                                                                   *)
LEMMA EveryStepOf == ASSUME TypeOK, [Next]_vars PROVE \A q \in Runs : StepOf(q)
<1>1. ASSUME UNCHANGED vars, NEW q \in Runs PROVE StepOf(q)
  BY <1>1 DEF vars, StepOf, Kept, SameStatus
<1>2. ASSUME Tick, NEW q \in Runs PROVE StepOf(q)
  BY <1>2, StepOfTick DEF StepOf
<1> QED BY <1>1, <1>2, StepOfOwnership, StepOfFenced, StepOfUnfenced DEF Next

----------------------------------------------------------------------------
(* The log: one terminal event per attempt                                  *)

(* What Append does to a log.                                               *)
LEMMA AppendFacts ==
  ASSUME NEW s \in Seq(EventType), NEW e \in EventType
  PROVE  /\ Append(s, e) \in Seq(EventType)
         /\ Append(s, e) # <<>>
         /\ Len(Append(s, e)) = Len(s) + 1
         /\ Append(s, e)[Len(s) + 1] = e
         /\ \A i \in 1..Len(s) : Append(s, e)[i] = s[i]
OBVIOUS

OneOutcome(s) ==
  \A i \in 1..Len(s) - 1 :
    s[i].type \in TerminalEvents =>
      s[i].type = "run_blocked" /\ s[i + 1].type = "run_resumed"

(* An append the store allows keeps the outcomes of a log in order.         *)
LEMMA AppendKeepsOneOutcome ==
  ASSUME NEW s \in Seq(EventType), NEW e \in EventType, OneOutcome(s),
         \/ s = <<>>
         \/ s[Len(s)].type \notin TerminalEvents
         \/ s[Len(s)].type = "run_blocked" /\ e.type = "run_resumed"
  PROVE  OneOutcome(Append(s, e))
<1> SUFFICES ASSUME NEW i \in 1..Len(s), s[i].type \in TerminalEvents
             PROVE  s[i].type = "run_blocked" /\ Append(s, e)[i + 1].type = "run_resumed"
  BY AppendFacts DEF OneOutcome
<1>1. CASE i = Len(s)
  BY <1>1, AppendFacts
<1>2. CASE i # Len(s)
  <2>1. i \in 1..Len(s) - 1 /\ i + 1 \in 1..Len(s) BY <1>2
  <2> QED BY <2>1, AppendFacts DEF OneOutcome
<1> QED BY <1>1, <1>2

(* One thing of StepOf keeps the outcomes of a log in order; a bundle that  *)
(* completes its Workflow appends twice.                                    *)
LEMMA OneOutcomeKept ==
  ASSUME TypeOK, NEW q \in Runs, OneOutcome(log[q]), StepOf(q)
  PROVE  OneOutcome(log'[q])
<1>0. log[q] \in Seq(EventType) BY DEF TypeOK
<1>1. ASSUME NEW type, Logged(q, type) PROVE OneOutcome(log'[q])
  <2>1. PICK e \in EventType : e.type = type /\ log'[q] = Append(log[q], e)
    BY <1>1 DEF Logged
  <2> QED BY <1>0, <1>1, <2>1, AppendKeepsOneOutcome DEF Logged, CanAppend, LastType
<1>2. CASE log'[q] = log[q] BY <1>2
<1>3. CASE Admitted(q)
  <2>1. PICK e \in EventType : log'[q] = <<e>> BY <1>3 DEF Admitted
  <2> QED BY <2>1 DEF OneOutcome
<1>4. CASE Committed(q)
  <2>1. PICK e \in EventType, f \in EventType :
          /\ e.type = "checkpoint_committed"
          /\ \/ log'[q] = Append(log[q], e)
             \/ log'[q] = Append(Append(log[q], e), f)
    BY <1>4 DEF Committed
  <2>2. OneOutcome(Append(log[q], e))
    BY <1>0, <1>4, <2>1, AppendKeepsOneOutcome DEF Committed, CanAppend, LastType
  <2>3. /\ Append(log[q], e) \in Seq(EventType)
        /\ Append(log[q], e)[Len(Append(log[q], e))].type \notin TerminalEvents
    BY <1>0, <2>1, AppendFacts DEF TerminalEvents
  <2>4. OneOutcome(Append(Append(log[q], e), f))
    BY <2>2, <2>3, AppendKeepsOneOutcome
  <2> QED BY <2>1, <2>2, <2>4
<1> QED
  BY <1>1, <1>2, <1>3, <1>4
  DEF StepOf, Kept, Reaped, Moved, Interrupted, Observed, Finalized, Progressed,
      Bootstrapped, Activated

(* No interleaving of workers, interruptions and reaping admissions writes  *)
(* a second terminal event for an attempt, or anything behind a terminal    *)
(* event but the run_resumed of a blocked Run.                              *)
THEOREM OneOutcomeProved == Spec => []OneOutcomePerAttempt
<1> DEFINE Inv == TypeOK /\ \A q \in Runs : OneOutcome(log[q])
<1>1. Init => Inv
  BY TypeInit DEF Init, OneOutcome
<1>2. Inv /\ [Next]_vars => Inv'
  BY TypeNext, EveryStepOf, OneOutcomeKept
<1>3. Inv => OneOutcomePerAttempt BY DEF OneOutcome, OneOutcomePerAttempt
<1> QED BY <1>1, <1>2, <1>3, PTL DEF Spec

----------------------------------------------------------------------------
(* Status, intent and log agree                                             *)

(* The part of the invariant that orders revisions.  A Run that was asked   *)
(* to stop has moved past its first revision and past the one its index     *)
(* row names, and from then on no bootstrap and no activation can publish   *)
(* it as running.                                                           *)
RevisionOrder ==
  \A r \in Runs :
    /\ ~Exists(r) => index[r].revision = 0
    /\ Exists(r) => head[r].revision > 0
    /\ log[r] = <<>> <=> ~Exists(r)
    /\ index[r].revision <= head[r].revision
    /\ intent[r].phase # "NONE" =>
         head[r].revision > 1 /\ index[r].revision < head[r].revision

AgreementInv ==
  TypeOK /\ OutcomeAgreement /\ InterruptionAgreement /\ RevisionOrder

(* After an append the log ends with the new event, and it may have ended   *)
(* with a terminal event only if a blocked Run is resumed.                  *)
LEMMA LoggedFacts ==
  ASSUME TypeOK, NEW q \in Runs, NEW type, Logged(q, type)
  PROVE  /\ log'[q] # <<>>
         /\ log'[q][Len(log'[q])].type = type
         /\ log[q] # <<>> /\ LastType(q) \in TerminalEvents =>
              LastType(q) = "run_blocked" /\ type = "run_resumed"
<1>1. PICK e \in EventType : e.type = type /\ log'[q] = Append(log[q], e)
  BY DEF Logged
<1>2. log[q] \in Seq(EventType) BY DEF TypeOK
<1> QED BY <1>1, <1>2, AppendFacts DEF Logged, CanAppend

(* OutcomeAgreement is kept.                                                *)
LEMMA OutcomeKept ==
  ASSUME AgreementInv, [Next]_vars
  PROVE  OutcomeAgreement'
<1> SUFFICES ASSUME NEW q \in Runs, head'[q].status \in EndStatuses
             PROVE  log'[q] # <<>> /\ log'[q][Len(log'[q])].type \in EventsFor(head'[q].status)
  BY DEF OutcomeAgreement, LastType
<1>1. StepOf(q) /\ TypeOK BY EveryStepOf DEF AgreementInv
<1>2. CASE Kept(q)
  BY <1>2 DEF Kept, SameStatus, NextRevision, AgreementInv, OutcomeAgreement, LastType
<1>3. CASE Reaped(q)
  BY <1>1, <1>3, LoggedFacts DEF Reaped, EventsFor
<1>4. CASE Moved(q)
  BY <1>1, <1>4, LoggedFacts DEF Moved
<1>5. CASE Finalized(q)
  BY <1>1, <1>5, LoggedFacts DEF Finalized, NextRevision
<1>6. CASE Progressed(q)
  <2>1. head[q].status \in EndStatuses BY <1>6 DEF Progressed, SameStatus
  <2>2. log[q] # <<>> /\ LastType(q) \in TerminalEvents
    BY <2>1 DEF AgreementInv, OutcomeAgreement, EventsFor, EndStatuses, FinalStatuses,
                TerminalEvents
  <2> QED BY <1>1, <1>6, <2>2, LoggedFacts DEF Progressed
<1>7. CASE Admitted(q) \/ Interrupted(q) \/ Observed(q) \/ Bootstrapped(q)
           \/ Activated(q) \/ Committed(q)
  BY <1>7 DEF Admitted, Interrupted, Observed, Bootstrapped, Activated, Committed,
              NextRevision, EndStatuses, FinalStatuses
<1> QED BY <1>1, <1>2, <1>3, <1>4, <1>5, <1>6, <1>7 DEF StepOf

(* The log of a decided Run is closed, so no step that logs can happen.     *)
LEMMA DecidedIsQuiet ==
  ASSUME AgreementInv, NEW q \in Runs, head[q].status \in FinalStatuses
  PROVE  /\ ~Reaped(q) /\ ~Moved(q) /\ ~Interrupted(q) /\ ~Activated(q) /\ ~Committed(q)
         /\ ~Progressed(q)
<1>1. /\ log[q] # <<>> /\ LastType(q) \in TerminalEvents
      /\ LastType(q) # "run_blocked"
  BY DEF AgreementInv, OutcomeAgreement, EventsFor, EndStatuses, FinalStatuses, TerminalEvents
<1>2. \A type : ~CanAppend(q, type) BY <1>1 DEF CanAppend
<1> QED
  BY <1>2 DEF Reaped, Moved, Interrupted, Activated, Committed, Progressed, Logged

(* A bundle is committed only while no interruption is durable.             *)
LEMMA CommittedIsOpen ==
  ASSUME AgreementInv, NEW q \in Runs, Committed(q)
  PROVE  intent[q].phase = "NONE"
<1>1. head[q].status \notin FinalStatuses BY DecidedIsQuiet
<1>2. /\ intent[q].phase \in Phases
      /\ OutcomeOf(intent[q].reason) \in {"CANCELLED", "TIMED_OUT"}
  BY DEF AgreementInv, TypeOK, IntentType, OutcomeOf
<1> QED
  BY <1>1, <1>2
  DEF AgreementInv, InterruptionAgreement, Committed, Committable, FinalStatuses, Phases

(* The launcher's transitions succeed only while no interruption is         *)
(* durable.                                                                 *)
LEMMA MovedIsOpen ==
  ASSUME AgreementInv, NEW q \in Runs, Moved(q)
  PROVE  intent[q].phase = "NONE"
<1>1. head[q].status \notin FinalStatuses BY DecidedIsQuiet
<1>2. head[q].status # "CANCELLING"
  BY DEF Moved, AllowedTargets, LauncherTargets
<1>3. /\ intent[q].phase \in Phases
      /\ OutcomeOf(intent[q].reason) \in {"CANCELLED", "TIMED_OUT"}
  BY DEF AgreementInv, TypeOK, IntentType, OutcomeOf
<1> QED
  BY <1>1, <1>2, <1>3 DEF AgreementInv, InterruptionAgreement, FinalStatuses, Phases

(* InterruptionAgreement is kept.                                           *)
LEMMA InterruptionKept ==
  ASSUME AgreementInv, [Next]_vars
  PROVE  InterruptionAgreement'
<1> SUFFICES ASSUME NEW q \in Runs
             PROVE  /\ intent'[q].phase \in {"REQUESTED", "OBSERVED"} =>
                         head'[q].status \in {"CANCELLING", "FAILED_TERMINAL"}
                    /\ intent'[q].phase = "FINALIZED" =>
                         head'[q].status = OutcomeOf(intent'[q].reason)
                    /\ head'[q].status = "CANCELLING" =>
                         intent'[q].phase \in {"REQUESTED", "OBSERVED"}
                    /\ head'[q].status \in {"CANCELLED", "TIMED_OUT"} =>
                         intent'[q].phase = "FINALIZED"
  BY DEF InterruptionAgreement
<1> USE DEF AgreementInv
<1>1. StepOf(q) BY EveryStepOf
<1>2. /\ intent[q].phase \in {"REQUESTED", "OBSERVED"} =>
           head[q].status \in {"CANCELLING", "FAILED_TERMINAL"}
      /\ intent[q].phase = "FINALIZED" =>
           head[q].status = OutcomeOf(intent[q].reason)
      /\ head[q].status = "CANCELLING" =>
           intent[q].phase \in {"REQUESTED", "OBSERVED"}
      /\ head[q].status \in {"CANCELLED", "TIMED_OUT"} =>
           intent[q].phase = "FINALIZED"
  BY DEF InterruptionAgreement
<1>3. intent[q].phase \in Phases /\ OutcomeOf(intent[q].reason) \in {"CANCELLED", "TIMED_OUT"}
  BY DEF TypeOK, IntentType, OutcomeOf
<1>4. CASE Kept(q)
  BY <1>2, <1>4 DEF Kept, SameStatus, NextRevision
<1>5. CASE Reaped(q)
  BY <1>2, <1>3, <1>5 DEF Reaped, Active, ActiveStatuses, OutcomeOf
<1>6. CASE Admitted(q)
  BY <1>2, <1>3, <1>6 DEF Admitted, Exists, Phases
<1>7. CASE Moved(q)
  BY <1>7, MovedIsOpen DEF Moved, LauncherTargets
<1>8. CASE Interrupted(q)
  BY <1>8 DEF Interrupted, NextRevision
<1>9. CASE Observed(q)
  BY <1>9 DEF Observed, NextRevision
<1>10. CASE Finalized(q)
  BY <1>3, <1>10 DEF Finalized, NextRevision
<1>11. CASE Progressed(q)
  BY <1>2, <1>11 DEF Progressed, SameStatus
<1>12. CASE Bootstrapped(q) \/ Activated(q)
  <2>1. intent[q].phase = "NONE"
    <3>1. head[q].revision \in Nat /\ index[q].revision \in Nat
      BY DEF TypeOK, HeadType, IndexType
    <3> QED BY <1>12, <3>1 DEF Bootstrapped, Activated, RevisionOrder
  <2> QED BY <1>12, <2>1 DEF Bootstrapped, Activated, NextRevision
<1>13. CASE Committed(q)
  BY <1>13, CommittedIsOpen DEF Committed, NextRevision
<1> QED
  BY <1>1, <1>4, <1>5, <1>6, <1>7, <1>8, <1>9, <1>10, <1>11, <1>12, <1>13 DEF StepOf


(* RevisionOrder is kept.                                                   *)
LEMMA RevisionOrderKept ==
  ASSUME AgreementInv, [Next]_vars
  PROVE  RevisionOrder'
<1> SUFFICES ASSUME NEW q \in Runs
             PROVE  /\ head'[q].status = "ABSENT" => index'[q].revision = 0
                    /\ head'[q].status # "ABSENT" => head'[q].revision > 0
                    /\ log'[q] = <<>> <=> head'[q].status = "ABSENT"
                    /\ index'[q].revision <= head'[q].revision
                    /\ intent'[q].phase # "NONE" =>
                         head'[q].revision > 1 /\ index'[q].revision < head'[q].revision
  BY DEF RevisionOrder, Exists
<1> USE DEF AgreementInv
<1>1. StepOf(q) BY EveryStepOf
<1>2. /\ head[q].status = "ABSENT" => index[q].revision = 0
      /\ head[q].status # "ABSENT" => head[q].revision > 0
      /\ log[q] = <<>> <=> head[q].status = "ABSENT"
      /\ index[q].revision <= head[q].revision
      /\ intent[q].phase # "NONE" =>
           head[q].revision > 1 /\ index[q].revision < head[q].revision
      /\ head[q].revision \in Nat /\ index[q].revision \in Nat
  BY DEF RevisionOrder, Exists, TypeOK, HeadType, IndexType
<1>3. \A type : Logged(q, type) => log'[q] # <<>> BY LoggedFacts
<1>4. head[q].status = "ABSENT" => intent[q].phase = "NONE"
  BY DEF InterruptionAgreement, TypeOK, IntentType, Phases, OutcomeOf
<1>5. CASE Kept(q)
  BY <1>2, <1>5 DEF Kept, SameStatus, NextRevision
<1>6. CASE Reaped(q)
  BY <1>2, <1>3, <1>6 DEF Reaped, Active, ActiveStatuses
<1>7. CASE Admitted(q)
  BY <1>2, <1>4, <1>7 DEF Admitted, Exists
<1>8. CASE Moved(q)
  <2>1. head[q].status # "ABSENT" BY <1>8 DEF Moved, AllowedTargets, FinalStatuses
  <2> QED BY <1>2, <1>3, <1>8, <2>1 DEF Moved, LauncherTargets
<1>9. CASE Interrupted(q)
  BY <1>2, <1>3, <1>9 DEF Interrupted, NextRevision, Exists
<1>10. CASE Observed(q)
  BY <1>2, <1>10 DEF Observed, NextRevision
<1>11. CASE Finalized(q)
  BY <1>2, <1>3, <1>11 DEF Finalized, NextRevision, OutcomeOf
<1>12. CASE Progressed(q)
  BY <1>2, <1>3, <1>12 DEF Progressed, SameStatus, Exists
<1>13. CASE Bootstrapped(q)
  BY <1>2, <1>13 DEF Bootstrapped, NextRevision, Exists
<1>14. CASE Activated(q)
  BY <1>2, <1>3, <1>14 DEF Activated, NextRevision, Exists
<1>15. CASE Committed(q)
  <2>1. log'[q] # <<>>
    <3>1. PICK e \in EventType, f \in EventType :
            \/ log'[q] = Append(log[q], e)
            \/ log'[q] = Append(Append(log[q], e), f)
      BY <1>15 DEF Committed
    <3>2. log[q] \in Seq(EventType) BY DEF TypeOK
    <3>3. Append(log[q], e) \in Seq(EventType) BY <3>2, AppendFacts
    <3> QED BY <3>1, <3>2, <3>3, AppendFacts
  <2>2. intent[q].phase = "NONE" BY <1>15, CommittedIsOpen
  <2> QED BY <1>2, <1>15, <2>1, <2>2 DEF Committed, NextRevision, Exists
<1> QED
  BY <1>1, <1>5, <1>6, <1>7, <1>8, <1>9, <1>10, <1>11, <1>12, <1>13, <1>14, <1>15
  DEF StepOf


(* AgreementInv holds of an empty database.                                 *)
LEMMA AgreementInit == ASSUME Init PROVE AgreementInv
<1>1. TypeOK BY TypeInit
<1>2. \A r \in Runs :
        /\ head[r].status = "ABSENT" /\ head[r].revision = 0
        /\ intent[r].phase = "NONE" /\ index[r].revision = 0 /\ log[r] = <<>>
  BY DEF Init, NoHead, NoIntent, NoIndex
<1>3. OutcomeAgreement
  BY <1>2 DEF OutcomeAgreement, EndStatuses, FinalStatuses
<1>4. InterruptionAgreement BY <1>2 DEF InterruptionAgreement
<1>5. RevisionOrder BY <1>2 DEF RevisionOrder, Exists
<1> QED BY <1>1, <1>3, <1>4, <1>5 DEF AgreementInv

(* AgreementInv is inductive.                                               *)
LEMMA AgreementNext == ASSUME AgreementInv, [Next]_vars PROVE AgreementInv'
<1>1. TypeOK' BY TypeNext DEF AgreementInv
<1> QED
  BY <1>1, OutcomeKept, InterruptionKept, RevisionOrderKept DEF AgreementInv

(* AgreementInv holds in every reachable state.                             *)
LEMMA AgreementInvariant == Spec => []AgreementInv
<1>1. Init => AgreementInv BY AgreementInit
<1>2. AgreementInv /\ [Next]_vars => AgreementInv' BY AgreementNext
<1> QED BY <1>1, <1>2, PTL DEF Spec

(* A Run with a durable cancellation or timeout is never published as       *)
(* running, waiting, blocked or completed, and CANCELLED and TIMED_OUT are  *)
(* published exactly for finalized intents of their own reason.             *)
THEOREM InterruptionAgreementProved == Spec => []InterruptionAgreement
<1>1. AgreementInv => InterruptionAgreement BY DEF AgreementInv
<1> QED BY <1>1, AgreementInvariant, PTL

(* The status and the last event of a decided Run agree, whichever of its   *)
(* worker, the interruption and a reaping admission decided it.             *)
THEOREM OutcomeAgreementProved == Spec => []OutcomeAgreement
<1>1. AgreementInv => OutcomeAgreement BY DEF AgreementInv
<1> QED BY <1>1, AgreementInvariant, PTL

(* The only step that commits a ledger entry of a Run is a bundle, under a  *)
(* head that may commit and a log that is open.                             *)
LEMMA CommitNeedsOpenRun ==
  ASSUME AgreementInv, [Next]_vars, NEW q \in Runs, NEW k \in Keys,
         ledger'[q][k].state = "COMMITTED", ledger[q][k].state # "COMMITTED"
  PROVE  /\ Exists(q) /\ Committable(q)
         /\ CanAppend(q, "checkpoint_committed")
<1> USE DEF AgreementInv
<1>0. ledger \in [Runs -> [Keys -> EntryType]] BY DEF TypeOK
<1>1. ASSUME NEW r \in Runs, NEW w \in Writers, OwnershipStep(r, w) PROVE FALSE
  <2>1. CASE ledger' = ledger BY <2>1
  <2>2. ASSUME NEW l \in Keys, ReserveStart(l, r, w) PROVE FALSE
    <3>1. ledger'[q][k] = ledger[q][k] \/ ledger'[q][k].state = "PREPARED"
      BY <1>0, <2>2 DEF ReserveStart
    <3> QED BY <3>1
  <2> QED BY <1>1, <2>1, <2>2
          DEF OwnershipStep, Reacquire, AcquireFence, TakeoverFence, GrantFence,
              RenewLease, ReleaseFence
<1>2. ASSUME NEW r \in Runs, NEW w \in Writers, FencedStep(r, w)
      PROVE  /\ Exists(q) /\ Committable(q)
             /\ CanAppend(q, "checkpoint_committed")
  <2> DEFINE t == head[r].token  n == head[r].revision
  <2>1. CASE ledger' = ledger BY <2>1
  <2>2. ASSUME NEW l \in Keys, NEW op \in {"resume", "workflow"},
               PrepareOperation(r, w, t, n, l, op)
        PROVE  FALSE
    <3>1. ledger'[q][k] = ledger[q][k] \/ ledger'[q][k].state = "PREPARED"
      BY <1>0, <2>2 DEF PrepareOperation
    <3> QED BY <3>1
  <2>3. ASSUME NEW l \in Keys, NEW done \in BOOLEAN, FinalizeBundle(r, w, t, n, l, done)
        PROVE  /\ Exists(q) /\ Committable(q)
               /\ CanAppend(q, "checkpoint_committed")
    <3>1. r = q
      <4>1. r # q => ledger'[q] = ledger[q] BY <1>0, <2>3 DEF FinalizeBundle
      <4> QED BY <4>1
    <3> QED BY <2>3, <3>1 DEF FinalizeBundle, WriteHead, Owns
  <2> QED BY <1>2, <2>1, <2>2, <2>3
          DEF FencedStep, Transition, ObserveInterruption, FinalizeInterruption,
              BootstrapIndex, ActivateWorkflow
<1>3. ASSUME NEW r \in Runs, UnfencedStep(r) PROVE FALSE
  BY <1>3 DEF UnfencedStep, RequestInterruption, AppendProgress
<1>4. CASE Tick BY <1>4 DEF Tick
<1>5. CASE UNCHANGED vars BY <1>5 DEF vars
<1> QED BY <1>1, <1>2, <1>3, <1>4, <1>5 DEF Next

(* Whatever races with a cancellation, no Workflow effect is committed once *)
(* the intent is durable, and none behind a terminal event.                 *)
THEOREM NoCommitAfterOutcomeProved == Spec => NoCommitAfterOutcome
<1>1. ASSUME AgreementInv, [Next]_vars
      PROVE  [\A r \in Runs, k \in Keys :
                ledger'[r][k].state = "COMMITTED" /\ ledger[r][k].state # "COMMITTED" =>
                  intent[r].phase = "NONE" /\ LastType(r) \notin TerminalEvents]_vars
  <2> SUFFICES ASSUME NEW r \in Runs, NEW k \in Keys,
                      ledger'[r][k].state = "COMMITTED",
                      ledger[r][k].state # "COMMITTED"
               PROVE  intent[r].phase = "NONE" /\ LastType(r) \notin TerminalEvents
    OBVIOUS
  <2>1. /\ Exists(r) /\ Committable(r)
        /\ CanAppend(r, "checkpoint_committed")
    BY <1>1, CommitNeedsOpenRun
  <2>2. LastType(r) \notin TerminalEvents
    BY <1>1, <2>1 DEF CanAppend, AgreementInv, RevisionOrder
  <2>3. head[r].status \notin FinalStatuses
    BY <1>1, <2>2 DEF AgreementInv, OutcomeAgreement, EventsFor, EndStatuses,
                      FinalStatuses, TerminalEvents
  <2>4. intent[r].phase \in Phases
        /\ OutcomeOf(intent[r].reason) \in {"CANCELLED", "TIMED_OUT"}
    BY <1>1 DEF AgreementInv, TypeOK, IntentType, OutcomeOf
  <2>5. intent[r].phase = "NONE"
    BY <1>1, <2>1, <2>3, <2>4
    DEF AgreementInv, InterruptionAgreement, Committable, FinalStatuses, Phases
  <2> QED BY <2>2, <2>5
<1> QED BY <1>1, AgreementInvariant, PTL DEF Spec, NoCommitAfterOutcome

----------------------------------------------------------------------------
(* Leases and fences                                                        *)

OwnershipInv ==
  /\ TypeOK
  /\ LeaseFollowsFence
  /\ \A r \in Runs : Leased(r) => Exists(r)
  /\ OneLiveRunPerSession

(* What a step may do to the lease of one Run and to the fence behind it.   *)
SameFence(q) == head'[q].writer = head[q].writer /\ head'[q].token = head[q].token
LeaseShortened(q) ==
  /\ SameFence(q)
  /\ head'[q].status = head[q].status
  /\ lease'[q].writer = lease[q].writer /\ lease'[q].token = lease[q].token
  /\ lease'[q].ttl > 0 => lease[q].ttl > 0
LeaseKept(q) ==
  /\ SameFence(q)
  /\ Exists(q) => head'[q].status # "ABSENT"
  /\ lease'[q] = lease[q]
LeaseEnded(q) ==
  /\ head'[q].token = head[q].token
  /\ head'[q].writer \in {head[q].writer, NoWriter}
  /\ lease'[q].writer = NoWriter /\ lease'[q].ttl = 0
LeaseGranted(q) ==
  /\ head'[q].status # "ABSENT"
  /\ lease'[q].writer \in Writers
  /\ lease'[q].writer = head'[q].writer /\ lease'[q].token = head'[q].token
  /\ IF LeaseLive(q) THEN SameFence(q) ELSE SessionAvailable(q)

(* A step grants at most one lease.                                         *)
StepAt(r) ==
  /\ LeaseKept(r) \/ LeaseEnded(r) \/ LeaseGranted(r)
  /\ \A q \in Runs \ {r} : LeaseKept(q) \/ LeaseEnded(q)

(* The reaper keeps the lease and the fence of a Run or ends its lease.     *)
LEMMA ReaperEndsLeases ==
  ASSUME TypeOK, NEW r \in Runs, NEW q \in Runs,
         head'[q] = HeadReaped(r)[q], lease'[q] = LeaseReaped(r)[q]
  PROVE  LeaseKept(q) \/ LeaseEnded(q)
<1>0. head[q] \in HeadType BY DEF TypeOK
<1>1. CASE q \in Orphans(r)
  <2>1. head'[q] = [head[q] EXCEPT !.status = "FAILED_TERMINAL", !.age = 0]
    BY <1>1 DEF HeadReaped
  <2>2. SameFence(q) BY <1>0, <2>1, Zenon DEF SameFence, HeadType
  <2> QED BY <1>1, <2>2 DEF LeaseReaped, LeaseEnded, SameFence, NoLease
<1>2. CASE q \notin Orphans(r)
  BY <1>2 DEF HeadReaped, LeaseReaped, LeaseKept, SameFence, Exists
<1> QED BY <1>1, <1>2

(* The owner of a fence that releases a lease ends it: a lease of the Run   *)
(* is the owner's.                                                          *)
LEMMA OwnedReleaseEndsLease ==
  ASSUME OwnershipInv, NEW r \in Runs, NEW w \in Writers, NEW t, Owns(r, w, t),
         lease' = LeaseReleased(r, w, t)
  PROVE  /\ lease'[r].writer = NoWriter /\ lease'[r].ttl = 0
         /\ \A q \in Runs \ {r} : lease'[q] = lease[q]
<1>0. lease \in [Runs -> LeaseType] BY DEF OwnershipInv, TypeOK
<1>1. \A q \in Runs \ {r} : lease'[q] = lease[q] BY <1>0 DEF LeaseReleased
<1>2. CASE HoldsLease(r, w, t) BY <1>0, <1>1, <1>2 DEF LeaseReleased, NoLease
<1>3. CASE ~HoldsLease(r, w, t)
  <2>1. ~Leased(r)
    BY <1>3 DEF OwnershipInv, LeaseFollowsFence, Owns, HoldsLease
  <2>2. lease[r].writer = NoWriter /\ lease[r].ttl = 0
    BY <2>1 DEF OwnershipInv, LeaseFollowsFence, LeaseLive, Leased, TypeOK, LeaseType
  <2> QED BY <1>0, <1>1, <1>3, <2>2 DEF LeaseReleased
<1> QED BY <1>1, <1>2, <1>3


(* A new revision of a head keeps every fence.                              *)
LEMMA AdvanceKeepsFence ==
  ASSUME TypeOK, NEW r \in Runs, NEW status \in Statuses \ {"ABSENT"},
         head' = Advance(r, status), lease' = lease
  PROVE  \A q \in Runs : LeaseKept(q)
<1> SUFFICES ASSUME NEW q \in Runs PROVE LeaseKept(q) OBVIOUS
<1>0. head[r] \in HeadType /\ head[q] \in HeadType BY DEF TypeOK
<1>1. CASE q = r
  BY <1>0, <1>1 DEF Advance, LeaseKept, SameFence, TypeOK, HeadType
<1>2. CASE q # r
  BY <1>0, <1>2 DEF Advance, LeaseKept, SameFence, Exists, TypeOK
<1> QED BY <1>1, <1>2

(* What an ownership operation does to leases and fences: at most its own   *)
(* Run is granted one.                                                      *)
LEMMA LeaseOwnership ==
  ASSUME OwnershipInv, NEW r \in Runs, NEW w \in Writers, OwnershipStep(r, w)
  PROVE  StepAt(r)
<1> USE DEF OwnershipInv
<1>0. /\ head[r] \in HeadType /\ lease[r] \in LeaseType
      /\ HeadReaped(r) \in [Runs -> HeadType]
      /\ LeaseReaped(r) \in [Runs -> LeaseType]
  BY ReapedType DEF TypeOK
<1>1. r \notin Orphans(r) BY DEF Orphans, Rivals
<1>2. \A t : Grant(w, t).writer = w /\ Grant(w, t).token = t BY DEF Grant
<1>3. ASSUME NEW k \in Keys, ReserveStart(k, r, w) PROVE StepAt(r)
  <2>1. /\ head'[r].status = "CREATED" /\ head'[r].writer = w /\ head'[r].token = 1
        /\ lease'[r] = Grant(w, 1)
        /\ \A q \in Runs \ {r} : /\ head'[q] = HeadReaped(r)[q]
                                 /\ lease'[q] = LeaseReaped(r)[q]
    BY <1>0, <1>3 DEF ReserveStart
  <2>2. ~LeaseLive(r) /\ SessionAvailable(r)
    BY <1>3 DEF ReserveStart, LeaseFollowsFence
  <2>3. LeaseGranted(r) BY <1>2, <2>1, <2>2 DEF LeaseGranted
  <2> QED BY <2>1, <2>3, ReaperEndsLeases DEF StepAt
<1>4. ASSUME Reacquire(r, w, head[r].token) PROVE StepAt(r)
  <2>1. /\ head'[r] = head[r] /\ lease'[r] = Grant(w, head[r].token)
        /\ \A q \in Runs \ {r} : /\ head'[q] = HeadReaped(r)[q]
                                 /\ lease'[q] = LeaseReaped(r)[q]
    BY <1>0, <1>1, <1>4 DEF Reacquire, HeadReaped
  <2>2. LeaseLive(r) /\ Exists(r) /\ head[r].writer = w
    BY <1>4 DEF Reacquire, MayReacquire, MayRenew, Owns
  <2>3. LeaseGranted(r)
    BY <1>2, <2>1, <2>2 DEF LeaseGranted, SameFence, Exists
  <2> QED BY <2>1, <2>3, ReaperEndsLeases DEF StepAt
<1>5. ASSUME GrantFence(r, w), Exists(r), ~LeaseLive(r), SessionAvailable(r)
      PROVE  StepAt(r)
  <2>1. /\ head'[r] = [head[r] EXCEPT !.writer = w, !.token = NextToken(r), !.age = 0]
        /\ lease'[r] = Grant(w, NextToken(r))
        /\ \A q \in Runs \ {r} : /\ head'[q] = HeadReaped(r)[q]
                                 /\ lease'[q] = LeaseReaped(r)[q]
    BY <1>0, <1>5 DEF GrantFence
  <2>2. /\ head'[r].status = head[r].status /\ head'[r].writer = w
        /\ head'[r].token = NextToken(r)
    BY <1>0, <2>1, Zenon DEF HeadType
  <2>3. LeaseGranted(r) BY <1>2, <1>5, <2>1, <2>2 DEF LeaseGranted, Exists
  <2> QED BY <2>1, <2>3, ReaperEndsLeases DEF StepAt
<1>6. ASSUME RenewLease(r, w, head[r].token) PROVE StepAt(r)
  <2>1. head' = head /\ lease'[r] = Grant(w, head[r].token)
        /\ \A q \in Runs \ {r} : lease'[q] = lease[q]
    BY <1>6 DEF RenewLease, TypeOK
  <2>2. LeaseLive(r) /\ Exists(r) /\ head[r].writer = w
    BY <1>6 DEF RenewLease, MayRenew, Owns
  <2>3. LeaseGranted(r) BY <1>2, <2>1, <2>2 DEF LeaseGranted, SameFence, Exists
  <2> QED BY <2>1, <2>3 DEF StepAt, LeaseKept, SameFence, Exists
<1>7. ASSUME ReleaseFence(r, w, head[r].token) PROVE StepAt(r)
  <2>1. /\ head'[r].writer = NoWriter /\ head'[r].token = head[r].token
        /\ \A q \in Runs \ {r} : head'[q] = head[q]
    BY <1>0, <1>7 DEF ReleaseFence, TypeOK, HeadType
  <2>2. /\ lease'[r].writer = NoWriter /\ lease'[r].ttl = 0
        /\ \A q \in Runs \ {r} : lease'[q] = lease[q]
    BY <1>7, OwnedReleaseEndsLease DEF ReleaseFence
  <2> QED BY <2>1, <2>2 DEF StepAt, LeaseEnded, LeaseKept, SameFence, Exists
<1> QED
  BY <1>3, <1>4, <1>5, <1>6, <1>7
  DEF OwnershipStep, AcquireFence, MayAcquire, TakeoverFence, MayTakeOver

(* A fenced operation keeps leases or ends the one of its Run.              *)
LEMMA LeaseFenced ==
  ASSUME OwnershipInv, NEW r \in Runs, NEW w \in Writers, FencedStep(r, w)
  PROVE  StepAt(r)
<1> USE DEF OwnershipInv
<1> DEFINE t == head[r].token  n == head[r].revision
<1>0. /\ head[r] \in HeadType /\ head[r].status \in Statuses
      /\ {"RUNNING", "CANCELLING"} \subseteq Statuses \ {"ABSENT"}
  BY DEF TypeOK, HeadType, Statuses, ActiveStatuses
<1>1. ASSUME NEW target \in LauncherTargets, NEW type \in EventsFor(target),
             Transition(r, w, t, target, type)
      PROVE  StepAt(r)
  <2>1. SameFence(r) /\ head'[r].status = target
    BY <1>0, <1>1 DEF Transition, SameFence, TypeOK, HeadType
  <2>2. \A q \in Runs \ {r} : head'[q] = head[q] BY <1>1 DEF Transition, TypeOK
  <2>3. CASE target \in EndStatuses
    <3>1. /\ lease'[r].writer = NoWriter /\ lease'[r].ttl = 0
          /\ \A q \in Runs \ {r} : lease'[q] = lease[q]
      BY <1>1, <2>3, OwnedReleaseEndsLease DEF Transition, MayTransition, LeaseAfter
    <3> QED BY <2>1, <2>2, <3>1 DEF StepAt, LeaseEnded, LeaseKept, SameFence, Exists
  <2>4. CASE target \notin EndStatuses
    <3>1. lease' = lease BY <1>1, <2>4 DEF Transition, LeaseAfter
    <3> QED BY <2>1, <2>2, <3>1 DEF StepAt, LeaseKept, SameFence, Exists, LauncherTargets
  <2> QED BY <2>3, <2>4
<1>2. ASSUME NEW status \in Statuses \ {"ABSENT"}, head' = Advance(r, status), lease' = lease
      PROVE  StepAt(r)
  BY <1>2, AdvanceKeepsFence DEF StepAt
<1>3. ASSUME ObserveInterruption(r, w, t) PROVE StepAt(r)
  BY <1>0, <1>2, <1>3 DEF ObserveInterruption, MayObserve
<1>4. ASSUME FinalizeInterruption(r, w, t) PROVE StepAt(r)
  <2>1. OutcomeOf(intent[r].reason) \in Statuses \ {"ABSENT"}
    BY DEF OutcomeOf, Statuses, EndStatuses, FinalStatuses
  <2> QED BY <1>2, <1>4, <2>1 DEF FinalizeInterruption
<1>5. ASSUME NEW k \in Keys, NEW op \in {"resume", "workflow"},
             PrepareOperation(r, w, t, n, k, op)
      PROVE  StepAt(r)
  BY <1>0, <1>2, <1>5 DEF PrepareOperation, WriteHead, Owns, Exists
<1>6. ASSUME \/ BootstrapIndex(r, w, t, n) \/ ActivateWorkflow(r, w, t, n)
             \/ \E k \in Keys, done \in BOOLEAN : FinalizeBundle(r, w, t, n, k, done)
      PROVE  StepAt(r)
  BY <1>0, <1>2, <1>6 DEF BootstrapIndex, ActivateWorkflow, FinalizeBundle
<1> QED BY <1>1, <1>3, <1>4, <1>5, <1>6 DEF FencedStep

(* Every step of the store is one operation on leases or shortens them.     *)
LEMMA EveryLeaseStep ==
  ASSUME OwnershipInv, [Next]_vars
  PROVE  (\E r \in Runs : StepAt(r)) \/ (\A q \in Runs : LeaseShortened(q))
<1> USE DEF OwnershipInv
<1>1. CASE Tick
  <2> SUFFICES ASSUME NEW q \in Runs PROVE LeaseShortened(q) OBVIOUS
  <2>1. head[q] \in HeadType /\ lease[q] \in LeaseType BY DEF TypeOK
  <2> QED BY <1>1, <2>1 DEF Tick, LeaseShortened, SameFence, HeadType, LeaseType
<1>2. CASE UNCHANGED vars BY <1>2 DEF vars, LeaseShortened, SameFence
<1>3. ASSUME NEW r \in Runs, UnfencedStep(r) PROVE StepAt(r)
  <2>1. ASSUME NEW reason \in Reasons, RequestInterruption(r, reason) PROVE StepAt(r)
    <3>1. "CANCELLING" \in Statuses \ {"ABSENT"} BY DEF Statuses, ActiveStatuses
    <3> QED BY <2>1, <3>1, AdvanceKeepsFence DEF RequestInterruption, StepAt
  <2>2. ASSUME NEW n \in 1..head[r].revision, AppendProgress(r, n) PROVE StepAt(r)
    BY <2>2 DEF AppendProgress, StepAt, LeaseKept, SameFence, Exists
  <2> QED BY <1>3, <2>1, <2>2 DEF UnfencedStep
<1> QED BY <1>1, <1>2, <1>3, LeaseOwnership, LeaseFenced DEF Next


(* OwnershipInv is inductive.                                               *)
LEMMA OwnershipNext == ASSUME OwnershipInv, [Next]_vars PROVE OwnershipInv'
<1> USE DEF OwnershipInv
<1>1. TypeOK' BY TypeNext
<1>2. \A q \in Runs :
        /\ Leased(q) => /\ head[q].writer = lease[q].writer
                        /\ head[q].token = lease[q].token
        /\ LeaseLive(q) => Leased(q)
        /\ Leased(q) => Exists(q)
        /\ lease[q].ttl \in Nat
  BY DEF LeaseFollowsFence, TypeOK, LeaseType
<1>3. ASSUME NEW q \in Runs,
             LeaseKept(q) \/ LeaseEnded(q) \/ LeaseGranted(q) \/ LeaseShortened(q)
      PROVE  /\ Leased(q)' => /\ head'[q].writer = lease'[q].writer
                              /\ head'[q].token = lease'[q].token
             /\ LeaseLive(q)' => Leased(q)'
             /\ Leased(q)' => Exists(q)'
  <2>1. CASE LeaseKept(q)
    BY <1>2, <2>1 DEF LeaseKept, SameFence, Leased, LeaseLive, Exists
  <2>2. CASE LeaseEnded(q) BY <2>2 DEF LeaseEnded, Leased, LeaseLive
  <2>3. CASE LeaseGranted(q)
    BY <2>3, StoreAssumption DEF LeaseGranted, Leased, Exists
  <2>4. CASE LeaseShortened(q)
    BY <1>2, <2>4 DEF LeaseShortened, SameFence, Leased, LeaseLive, Exists
  <2> QED BY <1>3, <2>1, <2>2, <2>3, <2>4
<1>4. LeaseFollowsFence' /\ \A q \in Runs : Leased(q)' => Exists(q)'
  BY <1>3, EveryLeaseStep DEF StepAt, LeaseFollowsFence
<1>5. OneLiveRunPerSession'
  <2>1. ASSUME NEW q \in Runs, LeaseLive(q)', LeaseKept(q) \/ LeaseEnded(q) \/ LeaseShortened(q)
        PROVE  LeaseLive(q)
    BY <2>1 DEF LeaseKept, LeaseEnded, LeaseShortened, LeaseLive
  <2>2. ASSUME NEW r \in Runs, StepAt(r), NEW q \in Runs, q # r,
               LeaseLive(q)', LeaseLive(r)'
        PROVE  SessionOf[q] # SessionOf[r]
    <3>1. LeaseLive(q) BY <2>1, <2>2 DEF StepAt
    <3>2. CASE LeaseLive(r) BY <2>2, <3>1, <3>2 DEF OneLiveRunPerSession
    <3>3. CASE ~LeaseLive(r)
      <4>1. SessionAvailable(r) BY <2>1, <2>2, <3>3 DEF StepAt, LeaseGranted
      <4>2. q \notin Rivals(r) BY <3>1, <4>1 DEF SessionAvailable
      <4> QED BY <1>2, <2>2, <3>1, <4>2 DEF Rivals
    <3> QED BY <3>2, <3>3
  <2> SUFFICES ASSUME NEW q \in Runs, NEW r \in Runs, q # r, LeaseLive(q)', LeaseLive(r)'
               PROVE  SessionOf[q] # SessionOf[r]
    BY DEF OneLiveRunPerSession
  <2>3. CASE \A p \in Runs : LeaseShortened(p)
    BY <2>1, <2>3 DEF OneLiveRunPerSession
  <2>4. ASSUME NEW p \in Runs, StepAt(p) PROVE SessionOf[q] # SessionOf[r]
    <3>1. CASE p = q BY <2>2, <2>4, <3>1
    <3>2. CASE p = r BY <2>2, <2>4, <3>2
    <3>3. CASE p # q /\ p # r
      BY <2>1, <2>4, <3>3 DEF StepAt, OneLiveRunPerSession
    <3> QED BY <3>1, <3>2, <3>3
  <2> QED BY <2>3, <2>4, EveryLeaseStep
<1> QED BY <1>1, <1>4, <1>5

(* OwnershipInv holds in every reachable state.                             *)
LEMMA OwnershipInvariant == Spec => []OwnershipInv
<1>1. ASSUME Init PROVE OwnershipInv
  <2>1. TypeOK BY <1>1, TypeInit
  <2>2. \A r \in Runs : lease[r].writer = NoWriter /\ lease[r].ttl = 0
    BY <1>1 DEF Init, NoLease
  <2> QED BY <2>1, <2>2 DEF OwnershipInv, LeaseFollowsFence, OneLiveRunPerSession,
                            Leased, LeaseLive
<1>2. OwnershipInv /\ [Next]_vars => OwnershipInv' BY OwnershipNext
<1> QED BY <1>1, <1>2, PTL DEF Spec

(* Takeover, release, reaping and the terminal transitions never leave a    *)
(* worker lease that outlives or precedes the fence it was granted with.    *)
THEOREM LeaseFollowsFenceProved == Spec => []LeaseFollowsFence
<1>1. OwnershipInv => LeaseFollowsFence BY DEF OwnershipInv
<1> QED BY <1>1, OwnershipInvariant, PTL

(* However many processes start, resume, take over and renew, two Runs of a *)
(* session never have unexpired leases at the same time.                    *)
THEOREM OneLiveRunProved == Spec => []OneLiveRunPerSession
<1>1. OwnershipInv => OneLiveRunPerSession BY DEF OwnershipInv
<1> QED BY <1>1, OwnershipInvariant, PTL

(* While a lease is unexpired the fence stays with its holder until the     *)
(* holder gives it back, and nobody but the holder fails the Run.           *)
THEOREM LiveOwnerKeptProved == Spec => LiveOwnerKept
<1>1. ASSUME OwnershipInv, [Next]_vars
      PROVE  [\A r \in Runs : LeaseLive(r) =>
                /\ head'[r].token = head[r].token
                /\ head'[r].writer \in {head[r].writer, NoWriter}
                /\ head'[r].status = "FAILED_TERMINAL" =>
                     head[r].status \in {"RUNNING", "FAILED_TERMINAL"}]_vars
  <2> SUFFICES ASSUME NEW r \in Runs, LeaseLive(r)
               PROVE  /\ head'[r].token = head[r].token
                      /\ head'[r].writer \in {head[r].writer, NoWriter}
                      /\ head'[r].status = "FAILED_TERMINAL" =>
                           head[r].status \in {"RUNNING", "FAILED_TERMINAL"}
    OBVIOUS
  <2>1. LeaseKept(r) \/ LeaseEnded(r) \/ LeaseGranted(r) \/ LeaseShortened(r)
    BY <1>1, EveryLeaseStep DEF StepAt
  <2>2. head'[r].token = head[r].token /\ head'[r].writer \in {head[r].writer, NoWriter}
    BY <2>1 DEF LeaseKept, LeaseEnded, LeaseGranted, LeaseShortened, SameFence
  <2>3. head'[r].status = "FAILED_TERMINAL" =>
          head[r].status \in {"RUNNING", "FAILED_TERMINAL"}
    <3>1. StepOf(r) BY <1>1, EveryStepOf DEF OwnershipInv
    <3>2. Moved(r) /\ head'[r].status = "FAILED_TERMINAL" =>
            head[r].status \in {"RUNNING", "FAILED_TERMINAL"}
      BY DEF Moved, AllowedTargets, FinalStatuses
    <3> QED
      BY <3>1, <3>2
      DEF StepOf, Kept, Reaped, Admitted, Interrupted, Observed, Finalized,
          Progressed, Bootstrapped, Activated, Committed, SameStatus, NextRevision,
          OutcomeOf
  <2> QED BY <2>2, <2>3
<1> QED BY <1>1, OwnershipInvariant, PTL DEF Spec, LiveOwnerKept

----------------------------------------------------------------------------
(* The event log as a write-once outcome                                    *)

OutcomeAfter(type) ==
  CASE type = "run_completed" -> "completed"
    [] type = "run_failed"    -> "failed"
    [] type = "run_blocked"   -> "blocked"
    [] type = "run_cancelled" -> "cancelled"
    [] type = "run_timed_out" -> "timed_out"
    [] OTHER                  -> "open"

(* The outcome of a Run is a function of its last event.                    *)
LEMMA LoggedOutcomeNow ==
  ASSUME NEW q \in Runs
  PROVE  LoggedOutcome(q) = IF log[q] = <<>> THEN "none" ELSE OutcomeAfter(LastType(q))
BY DEF LoggedOutcome, OutcomeAfter

(* An append finds the register open, or blocked for a resume, and sets it  *)
(* to what the event says.                                                  *)
LEMMA OutcomeWhenLogged ==
  ASSUME AgreementInv, NEW q \in Runs, Exists(q), NEW type, Logged(q, type)
  PROVE  /\ LoggedOutcome(q) = "open" \/ (LoggedOutcome(q) = "blocked" /\ type = "run_resumed")
         /\ LoggedOutcome(q)' = OutcomeAfter(type)
<1>1. log[q] # <<>> BY DEF AgreementInv, RevisionOrder
<1>2. LoggedOutcome(q) = "open" \/ (LoggedOutcome(q) = "blocked" /\ type = "run_resumed")
  BY <1>1, LoggedOutcomeNow DEF Logged, CanAppend, OutcomeAfter, TerminalEvents
<1>3. log'[q] # <<>> /\ log'[q][Len(log'[q])].type = type
  BY LoggedFacts DEF AgreementInv
<1> QED BY <1>2, <1>3 DEF LoggedOutcome, LastType, OutcomeAfter

(* The step of the abstract register that each step of a Run maps to.       *)
RegisterStep(o, a, o2, a2) ==
  \/ o2 = o /\ a2 = a
  \/ o = "none" /\ o2 = "open" /\ a2 = a
  \/ o = "open" /\ o2 = "open" /\ a = "nothing" /\ a2 \in {"cancelled", "timed_out"}
  \/ o = "open" /\ a2 = a
     /\ o2 \in IF a = "nothing" THEN {"completed", "failed", "blocked"} ELSE {a, "failed"}
  \/ o = "blocked" /\ o2 = "open" /\ a2 = a

(* One thing of StepOf is one step of the register, or a stutter.           *)
LEMMA StepMapsToRegister ==
  ASSUME AgreementInv, [Next]_vars, NEW q \in Runs
  PROVE  RegisterStep(LoggedOutcome(q), AskedOf(q), LoggedOutcome(q)', AskedOf(q)')
<1> DEFINE o == LoggedOutcome(q)  a == AskedOf(q)
<1>1. StepOf(q) BY EveryStepOf DEF AgreementInv
<1>2. log'[q] = log[q] => LoggedOutcome(q)' = o
  BY DEF LoggedOutcome, LastType
<1>3. intent'[q] = intent[q] => AskedOf(q)' = a BY DEF AskedOf
<1>4. ASSUME NEW type \in EventTypes \ TerminalEvents, Logged(q, type), Exists(q),
             intent'[q] = intent[q]
      PROVE  RegisterStep(o, a, LoggedOutcome(q)', AskedOf(q)')
  <2>1. OutcomeAfter(type) = "open" BY DEF OutcomeAfter, TerminalEvents
  <2> QED BY <1>3, <1>4, <2>1, OutcomeWhenLogged DEF RegisterStep
<1>5. CASE Kept(q) \/ Bootstrapped(q)
  BY <1>2, <1>3, <1>5 DEF Kept, Bootstrapped, RegisterStep
<1>6. CASE Reaped(q)
  <2>1. Exists(q) BY <1>6 DEF Reaped, Active, ActiveStatuses, Exists
  <2>2. o = "open" /\ LoggedOutcome(q)' = "failed"
    BY <1>6, <2>1, OutcomeWhenLogged DEF Reaped, OutcomeAfter
  <2> QED BY <1>3, <1>6, <2>2 DEF Reaped, RegisterStep
<1>7. CASE Admitted(q)
  <2>1. o = "none"
    BY <1>7, LoggedOutcomeNow DEF Admitted, AgreementInv, RevisionOrder
  <2>2. LoggedOutcome(q)' = "open"
    <3>1. PICK e \in EventType : e.type = "run_created" /\ log'[q] = <<e>>
      BY <1>7 DEF Admitted
    <3> QED BY <3>1 DEF LoggedOutcome, LastType
  <2> QED BY <1>3, <1>7, <2>1, <2>2 DEF Admitted, RegisterStep
<1>8. CASE Moved(q)
  <2>1. a = "nothing" BY <1>8, MovedIsOpen DEF AskedOf
  <2>0. PICK target \in LauncherTargets : \E type \in EventsFor(target) :
          target \in AllowedTargets(head[q].status) /\ Logged(q, type)
    BY <1>8 DEF Moved
  <2>2. PICK type \in EventsFor(target) :
          target \in AllowedTargets(head[q].status) /\ Logged(q, type)
    BY <2>0
  <2>3. Exists(q) BY <2>2 DEF AllowedTargets, FinalStatuses, Exists
  <2>4. CASE type \notin TerminalEvents
    BY <1>4, <1>8, <2>2, <2>3, <2>4, EventsForType DEF Moved
  <2>5. CASE type \in TerminalEvents
    <3>1. type \in {"run_completed", "run_failed", "run_blocked"}
      BY <2>2, <2>5 DEF LauncherTargets, EventsFor, TerminalEvents
    <3>2. OutcomeAfter(type) \in {"completed", "failed", "blocked"}
      BY <3>1 DEF OutcomeAfter
    <3>3. o = "open" /\ LoggedOutcome(q)' \in {"completed", "failed", "blocked"}
      BY <2>2, <2>3, <3>1, <3>2, OutcomeWhenLogged
    <3> QED BY <1>3, <1>8, <2>1, <3>3 DEF Moved, RegisterStep
  <2> QED BY <2>4, <2>5
<1>9. CASE Interrupted(q)
  <2>1. OutcomeAfter("run_cancelling") = "open" BY DEF OutcomeAfter
  <2>2. o = "open" /\ LoggedOutcome(q)' = "open"
    BY <1>9, <2>1, OutcomeWhenLogged DEF Interrupted
  <2>3. a = "nothing" /\ AskedOf(q)' \in {"cancelled", "timed_out"}
    BY <1>9 DEF Interrupted, AskedOf
  <2> QED BY <2>2, <2>3 DEF RegisterStep
<1>10. CASE Observed(q)
  BY <1>2, <1>10 DEF Observed, AskedOf, RegisterStep
<1>11. CASE Finalized(q)
  <2>1. a \in {"cancelled", "timed_out"} /\ AskedOf(q)' = a
    BY <1>11 DEF Finalized, AskedOf
  <2>2. PICK type \in EventsFor(OutcomeOf(intent[q].reason)) : Logged(q, type)
    BY <1>11 DEF Finalized
  <2>3. OutcomeAfter(type) = a /\ type # "run_resumed"
    BY <1>11, <2>2 DEF Finalized, AskedOf, OutcomeOf, EventsFor, OutcomeAfter,
                       AgreementInv, TypeOK, IntentType, Reasons
  <2>4. Exists(q) BY <1>11 DEF Finalized, Exists
  <2> QED BY <2>1, <2>2, <2>3, <2>4, OutcomeWhenLogged DEF RegisterStep
<1>12. CASE Progressed(q) \/ Activated(q)
  BY <1>4, <1>12 DEF Progressed, Activated, EventTypes, TerminalEvents
<1>13. CASE Committed(q)
  <2>1. o = "open"
    BY <1>13, LoggedOutcomeNow
    DEF Committed, CanAppend, AgreementInv, RevisionOrder, OutcomeAfter, TerminalEvents
  <2>2. LoggedOutcome(q)' = "open"
    <3>1. PICK e \in EventType, f \in EventType :
            /\ e.type = "checkpoint_committed" /\ f.type = "workflow_completed"
            /\ \/ log'[q] = Append(log[q], e)
               \/ log'[q] = Append(Append(log[q], e), f)
      BY <1>13 DEF Committed
    <3>2. log[q] \in Seq(EventType) /\ Append(log[q], e) \in Seq(EventType)
      BY AppendFacts DEF AgreementInv, TypeOK
    <3>3. /\ log'[q] # <<>>
          /\ log'[q][Len(log'[q])].type \in {"checkpoint_committed", "workflow_completed"}
      BY <3>1, <3>2, AppendFacts
    <3> QED BY <3>3 DEF LoggedOutcome, LastType
  <2> QED BY <1>3, <1>13, <2>1, <2>2 DEF Committed, RegisterStep
<1> QED
  BY <1>1, <1>5, <1>6, <1>7, <1>8, <1>9, <1>10, <1>11, <1>12, <1>13 DEF StepOf

(* Every interleaving of the store's transactions is a behaviour of         *)
(* RunOutcome: each Run has one outcome per attempt, and a decided one is   *)
(* reopened only when it is blocked.                                        *)
THEOREM StoreImplementsOutcome == Spec => ImplementsOutcome
<1>1. Init => Outcome!Init
  BY DEF Init, Outcome!Init, LoggedOutcome, AskedOf, NoIntent
<1>2. ASSUME AgreementInv, [Next]_vars
      PROVE  Outcome!Next
  <2> DEFINE o(r) == LoggedOutcome(r)  a(r) == AskedOf(r)
  <2>1. \A r \in Runs : RegisterStep(o(r), a(r), o(r)', a(r)')
    BY <1>2, StepMapsToRegister
  <2>2. \A r \in Runs : o(r)' \in Outcome!Outcomes /\ a(r)' \in Outcome!Asks
    BY DEF LoggedOutcome, AskedOf, Outcome!Outcomes, Outcome!Asks
  <2>3. \A r \in Runs : Outcome!RunStep(r)
    <3> SUFFICES ASSUME NEW r \in Runs PROVE Outcome!RunStep(r) OBVIOUS
    <3> QED
      BY <2>1, <2>2
      DEF RegisterStep, Outcome!RunStep, Outcome!Open, Outcome!Ask, Outcome!Decide,
          Outcome!Reopen, Outcome!Stay, Outcome!Become, Outcome!Asks
  <2> QED BY <2>2, <2>3 DEF Outcome!Next
<1> QED
  BY <1>1, <1>2, AgreementInvariant, PTL DEF Spec, ImplementsOutcome, Outcome!Spec

----------------------------------------------------------------------------
(* Every transaction is a step of the log that readers are shown            *)

TypesOf(s) == [i \in DOMAIN s |-> s[i].type]

(* What a log shows is the type of each of its events.                      *)
LEMMA TypesOfLog ==
  ASSUME NEW s \in Seq(EventType)
  PROVE  /\ TypesOf(s) \in Seq(EventTypes) /\ Len(TypesOf(s)) = Len(s)
         /\ \A i \in 1..Len(s) : TypesOf(s)[i] = s[i].type
<1>1. Len(s) \in Nat /\ DOMAIN s = 1..Len(s) OBVIOUS
<1>2. \A i \in 1..Len(s) : s[i] \in EventType OBVIOUS
<1>3. TypesOf(s) \in [1..Len(s) -> EventTypes] BY <1>1, <1>2 DEF TypesOf, EventType
<1>4. TypesOf(s) \in Seq(EventTypes) BY <1>1, <1>3
<1>5. Len(TypesOf(s)) = Len(s) BY <1>1, <1>3, <1>4
<1> QED BY <1>1, <1>4, <1>5 DEF TypesOf

(* The types of a log that has grown by one event have grown by its type.   *)
LEMMA TypesOfAppend ==
  ASSUME NEW s \in Seq(EventType), NEW e \in EventType
  PROVE  TypesOf(Append(s, e)) = TypesOf(s) \o <<e.type>>
<1> DEFINE a == TypesOf(s)  b == TypesOf(Append(s, e))  c == a \o <<e.type>>
<1>1. a \in Seq(EventTypes) /\ Len(a) = Len(s) BY TypesOfLog
<1>2. e.type \in EventTypes BY DEF EventType
<1>3. /\ Append(s, e) \in Seq(EventType) /\ Len(Append(s, e)) = Len(s) + 1
      /\ \A i \in 1..Len(s) : Append(s, e)[i] = s[i]
      /\ Append(s, e)[Len(s) + 1] = e
  OBVIOUS
<1>4. b \in Seq(EventTypes) /\ Len(b) = Len(s) + 1 BY <1>3, TypesOfLog
<1> HIDE DEF a
<1>5. c \in Seq(EventTypes) /\ Len(c) = Len(s) + 1 BY <1>1, <1>2
<1>6. ASSUME NEW i \in 1..(Len(s) + 1) PROVE b[i] = c[i]
  <2>0. b[i] = Append(s, e)[i].type BY <1>3, TypesOfLog
  <2>1. CASE i \in 1..Len(s)
    <3>1. a[i] = s[i].type BY <2>1, TypesOfLog DEF a
    <3>2. c[i] = a[i] BY <1>1, <1>2, <2>1
    <3> QED BY <1>3, <2>0, <2>1, <3>1, <3>2
  <2>2. CASE i = Len(s) + 1
    <3>1. c[i] = e.type BY <1>1, <1>2, <2>2
    <3> QED BY <1>3, <2>0, <2>2, <3>1
  <2>3. Len(s) \in Nat OBVIOUS
  <2> HIDE DEF b, c
  <2> QED BY <2>1, <2>2, <2>3
<1> HIDE DEF b, c
<1>7. b = c BY <1>4, <1>5, <1>6
<1> QED BY <1>7 DEF a, b, c

(* The store and RunLog allow the same events.                              *)
LEMMA SeenAppendable ==
  ASSUME TypeOK, NEW q \in Runs, NEW type, CanAppend(q, type)
  PROVE  Read(q)!Appendable(type)
<1> DEFINE ev == TypesOf(log[q])
<1>1. log[q] \in Seq(EventType) BY DEF TypeOK
<1>2. ev \in Seq(EventTypes) /\ Len(ev) = Len(log[q])
  BY <1>1, TypesOfLog
<1>3. log[q] = <<>> => ev = <<>> BY <1>1, <1>2
<1>4. log[q] # <<>> => ev[Len(ev)] = LastType(q)
  BY <1>1, <1>2, TypesOfLog DEF LastType
<1>5. CASE log[q] = <<>> BY <1>3, <1>5 DEF Read!Appendable, TypesOf
<1>6. CASE log[q] # <<>>
  BY <1>4, <1>6 DEF CanAppend, Read!Appendable, Read!TerminalEvents, TerminalEvents, TypesOf
<1> QED BY <1>5, <1>6

(* One event of the store is one event of RunLog.                           *)
LEMMA SeenWrite ==
  ASSUME TypeOK, NEW q \in Runs, NEW type, Logged(q, type)
  PROVE  Read(q)!Appendable(type) /\ Read(q)!Write(<<type>>)
<1>0. Read(q)!Appendable(type) BY SeenAppendable DEF Logged
<1>1. log[q] \in Seq(EventType) BY DEF TypeOK
<1>2. PICK e \in EventType : e.type = type /\ log'[q] = Append(log[q], e)
  BY DEF Logged
<1>3. /\ TypesOf(log'[q]) = TypesOf(log[q]) \o <<type>>
      /\ Len(TypesOf(log[q])) = Len(log[q])
  BY <1>1, <1>2, TypesOfAppend, TypesOfLog
<1>4. Len(TypesOf(log[q])) + Len(<<type>>) <= MaxEvents
  BY <1>3 DEF Logged, Room
<1> QED BY <1>0, <1>3, <1>4 DEF Read!Write, TypesOf

(* RunLog counts with the same cardinality.                                 *)
LEMMA SeenCardinality ==
  ASSUME NEW q \in Runs, NEW S
  PROVE  Read(q)!Cardinality(S) = Cardinality(S)
BY DEF Cardinality, Read!Cardinality

(* A Run that is never asked to stop.                                       *)
LEMMA OpenIsNotInterrupted ==
  ASSUME AgreementInv, NEW q \in Runs, intent[q].phase = "NONE"
  PROVE  ~Read(q)!Interrupted
BY DEF AgreementInv, InterruptionAgreement, Read!Interrupted

(* A bundle of the store is one Commit of RunLog: one event, or two when it *)
(* completes the Workflow.                                                  *)
LEMMA SeenCommit ==
  ASSUME AgreementInv, NEW q \in Runs, Committed(q)
  PROVE  \E done \in BOOLEAN : Read(q)!Commit(done)
<1>0. TypeOK /\ ~Read(q)!Interrupted
  BY CommittedIsOpen, OpenIsNotInterrupted DEF AgreementInv
<1>1. Read(q)!Appendable("checkpoint_committed")
  BY <1>0, SeenAppendable DEF Committed
<1>2. PICK e \in EventType, f \in EventType :
        /\ e.type = "checkpoint_committed" /\ f.type = "workflow_completed"
        /\ \/ /\ index'[q].workflow = "RUNNING"
              /\ log'[q] = Append(log[q], e)
           \/ /\ index'[q].workflow = "COMPLETED"
              /\ log'[q] = Append(Append(log[q], e), f)
  BY DEF Committed
<1>3. /\ log[q] \in Seq(EventType) /\ Append(log[q], e) \in Seq(EventType)
      /\ TypesOf(log[q]) \in Seq(EventTypes)
      /\ Len(TypesOf(log[q])) = Len(log[q]) /\ Len(log[q]) + 2 <= MaxEvents
      /\ Len(log[q]) \in Nat /\ MaxEvents \in Nat
  BY <1>0, TypesOfLog, StoreAssumption DEF TypeOK, Committed, Room
<1>4. TypesOf(Append(log[q], e)) = TypesOf(log[q]) \o <<"checkpoint_committed">>
  BY <1>2, <1>3, TypesOfAppend
<1>5. head'[q].status = "RUNNING" /\ index[q].workflow = "RUNNING"
  BY DEF Committed, NextRevision
<1>6. CASE index'[q].workflow = "RUNNING" /\ log'[q] = Append(log[q], e)
  <2>1. TypesOf(log'[q]) = TypesOf(log[q]) \o (<<"checkpoint_committed">> \o <<>>)
    BY <1>4, <1>6
  <2>2. Len(TypesOf(log[q])) + Len(<<"checkpoint_committed">> \o <<>>) <= MaxEvents
    BY <1>3
  <2>3. Read(q)!Write(<<"checkpoint_committed">> \o <<>>)
    BY <2>1, <2>2 DEF Read!Write, TypesOf
  <2>4. Read(q)!Commit(FALSE)
    BY <1>0, <1>1, <1>5, <1>6, <2>3 DEF Read!Commit
  <2> QED BY <2>4
<1>7. CASE index'[q].workflow = "COMPLETED" /\ log'[q] = Append(Append(log[q], e), f)
  <2> DEFINE two == <<"checkpoint_committed">> \o <<"workflow_completed">>
  <2>1. TypesOf(log'[q]) = TypesOf(log[q]) \o two
    <3>1. TypesOf(log'[q]) =
            (TypesOf(log[q]) \o <<"checkpoint_committed">>) \o <<"workflow_completed">>
      BY <1>2, <1>3, <1>4, <1>7, TypesOfAppend
    <3>2. "checkpoint_committed" \in EventTypes /\ "workflow_completed" \in EventTypes
      BY DEF EventTypes
    <3>3. (TypesOf(log[q]) \o <<"checkpoint_committed">>) \o <<"workflow_completed">>
            = TypesOf(log[q]) \o two
      BY <1>3, <3>2
    <3> QED BY <3>1, <3>3
  <2>2. Len(TypesOf(log[q])) + Len(two) <= MaxEvents BY <1>3
  <2>3. Read(q)!Write(two)
    BY <2>1, <2>2 DEF Read!Write, TypesOf
  <2>4. Read(q)!Commit(TRUE)
    BY <1>0, <1>1, <1>5, <1>7, <2>3 DEF Read!Commit
  <2> QED BY <2>4
<1> QED BY <1>2, <1>6, <1>7

(* One thing of StepOf is one step of RunLog, or leaves it alone.           *)
LEMMA StepMapsToRunLog ==
  ASSUME AgreementInv, [Next]_vars, NEW q \in Runs
  PROVE  Read(q)!LogNext \/ UNCHANGED Read(q)!logVars
<1>1. StepOf(q) /\ TypeOK BY EveryStepOf DEF AgreementInv
<1>2. \A type : Logged(q, type) => Read(q)!Appendable(type) /\ Read(q)!Write(<<type>>)
  BY <1>1, SeenWrite
<1>3. CASE Kept(q) \/ Observed(q)
  BY <1>3 DEF Kept, Observed, SameStatus, NextRevision, Read!logVars
<1>4. CASE Reaped(q)
  <2>1. Read(q)!Reap
    BY <1>2, <1>4
    DEF Reaped, Active, ActiveStatuses, Read!Reap, Read!ActiveStatuses
  <2> QED BY <2>1 DEF Read!LogNext
<1>5. CASE Admitted(q)
  <2>1. log[q] = <<>> BY <1>5 DEF Admitted, AgreementInv, RevisionOrder
  <2>2. PICK e \in EventType : e.type = "run_created" /\ log'[q] = <<e>>
    BY <1>5 DEF Admitted
  <2>3. log'[q] = Append(log[q], e) BY <2>1, <2>2
  <2>4. CanAppend(q, "run_created") /\ Room(q, 1)
    BY <2>1, StoreAssumption DEF CanAppend, Room
  <2>5. Read(q)!Write(<<"run_created">>) BY <1>2, <2>2, <2>3, <2>4 DEF Logged
  <2>6. Read(q)!Admit BY <1>5, <2>5 DEF Admitted, Exists, Read!Admit
  <2> QED BY <2>6 DEF Read!LogNext
<1>6. CASE Moved(q)
  <2>1. PICK target \in LauncherTargets : \E type \in EventsFor(target) :
          /\ target \in AllowedTargets(head[q].status)
          /\ Logged(q, type) /\ head'[q].status = target
    BY <1>6 DEF Moved
  <2>2. PICK type \in EventsFor(target) :
          /\ target \in AllowedTargets(head[q].status)
          /\ Logged(q, type) /\ head'[q].status = target
    BY <2>1
  <2>3. Read(q)!Publish(target, type)
    BY <1>2, <1>6, <2>2 DEF Moved, LauncherTargets, Read!Publish
  <2>4. target \in Read(q)!AllowedTargets(head[q].status)
    BY <2>2
    DEF AllowedTargets, FinalStatuses, Read!AllowedTargets, Read!FinalStatuses
  <2>5. type \in Read(q)!EventsFor(target)
    BY DEF EventsFor, Read!EventsFor
  <2> QED BY <2>3, <2>4, <2>5 DEF Read!LogNext
<1>7. CASE Interrupted(q)
  <2>1. Read(q)!Interrupt
    BY <1>2, <1>7
    DEF Interrupted, Exists, NextRevision, Read!Interrupt, Read!Interruptible,
        EndStatuses, FinalStatuses, Read!EndStatuses, Read!FinalStatuses
  <2> QED BY <2>1 DEF Read!LogNext
<1>8. CASE Finalized(q)
  <2>0. PICK outcome \in {"CANCELLED", "TIMED_OUT"} : outcome = OutcomeOf(intent[q].reason)
    BY DEF OutcomeOf
  <2>1. PICK type \in EventsFor(outcome) : Logged(q, type)
    BY <1>8, <2>0 DEF Finalized
  <2>2. type \in Read(q)!EventsFor(outcome) /\ type # "run_resumed"
    BY <2>1 DEF EventsFor, Read!EventsFor
  <2>3. CanAppend(q, "run_cancelled") BY <2>1, <2>2 DEF Logged, CanAppend
  <2>4. Read(q)!Appendable("run_cancelled") BY <1>1, <2>3, SeenAppendable
  <2>5. Read(q)!Settle(outcome)
    BY <1>2, <1>8, <2>0, <2>1, <2>2, <2>4 DEF Finalized, NextRevision, Read!Settle
  <2> QED BY <2>5 DEF Read!LogNext
<1>9. CASE Progressed(q)
  <2>1. {i \in DOMAIN TypesOf(log[q]) : TypesOf(log[q])[i] = "progress"} = ProgressOf(q)
    BY DEF TypesOf, ProgressOf
  <2>2. Cardinality({i \in DOMAIN TypesOf(log[q]) : TypesOf(log[q])[i] = "progress"})
          < MaxProgress
    BY <1>9, <2>1 DEF Progressed
  <2>3. Read(q)!Report
    BY <1>2, <1>9, <2>2, SeenCardinality DEF Progressed, SameStatus, Exists, TypesOf, Read!Report
  <2> QED BY <2>3 DEF Read!LogNext
<1>10. CASE Bootstrapped(q)
  <2>1. intent[q].phase = "NONE"
    BY <1>10 DEF Bootstrapped, AgreementInv, RevisionOrder
  <2>2. Read(q)!Bootstrap
    BY <1>10, <2>1, OpenIsNotInterrupted
    DEF Bootstrapped, NextRevision, Exists, Read!Bootstrap
  <2> QED BY <2>2 DEF Read!LogNext
<1>11. CASE Activated(q)
  <2>1. intent[q].phase = "NONE"
    <3>1. head[q].revision \in Nat BY <1>1 DEF TypeOK, HeadType
    <3> QED BY <1>11, <3>1 DEF Activated, AgreementInv, RevisionOrder
  <2>2. Read(q)!Activate
    BY <1>2, <1>11, <2>1, OpenIsNotInterrupted
    DEF Activated, NextRevision, Read!Activate
  <2> QED BY <2>2 DEF Read!LogNext
<1>12. CASE Committed(q) BY <1>12, SeenCommit DEF Read!LogNext
<1> QED
  BY <1>1, <1>3, <1>4, <1>5, <1>6, <1>7, <1>8, <1>9, <1>10, <1>11, <1>12 DEF StepOf

(* Seen through the status, the Workflow state and the event types of any   *)
(* one Run, every interleaving of the store's transactions is a behaviour   *)
(* of RunLog: what the readers are shown correct against RunLog holds over  *)
(* the store.                                                               *)
THEOREM StoreImplementsRunLog == Spec => ImplementsRunLog
<1>1. ASSUME Init, NEW r \in Runs PROVE Read(r)!LogInit
  <2>1. log[r] = <<>> /\ DOMAIN log[r] = {} BY <1>1 DEF Init
  <2>2. [i \in DOMAIN log[r] |-> log[r][i].type] = <<>> BY <2>1
  <2>3. head[r].status = "ABSENT" /\ index[r].workflow = "NONE"
    BY <1>1 DEF Init, NoHead, NoIndex
  <2> QED BY <2>2, <2>3 DEF Read!LogInit
<1>2. ASSUME AgreementInv, [Next]_vars
      PROVE  [\A r \in Runs : Read(r)!LogNext \/ UNCHANGED Read(r)!logVars]_vars
  BY <1>2, StepMapsToRunLog
<1>3. Init => \A r \in Runs : Read(r)!LogInit BY <1>1
<1> QED BY <1>2, <1>3, AgreementInvariant, PTL DEF Spec, ImplementsRunLog
=============================================================================
