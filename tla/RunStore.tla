------------------------------ MODULE RunStore ------------------------------
(***************************************************************************)
(* The durable truth of agent/runtime_store/sqlite.py: Run heads, fences,  *)
(* worker leases, interruption intents, the idempotency ledger, the        *)
(* RunResumeIndex revision and the event log.  One action stands for one   *)
(* BEGIN IMMEDIATE transaction; an operation that raises is rolled back    *)
(* and is the absence of a step.                                           *)
(*                                                                         *)
(* Data is abstracted to what decides the control flow.  A digest          *)
(* identifies a revision, so a CAS on (revision, digest) is a CAS on the   *)
(* revision.  Event ids are fresh, so an event is its type and revision.   *)
(* Time is relative: a lease carries the ticks it has left and a head the  *)
(* ticks since updated_at, so no clock value has to be bounded.            *)
(***************************************************************************)
EXTENDS RunVocabulary, Naturals, Sequences, FiniteSets

CONSTANTS
  Runs,         \* run ids
  Sessions,     \* sessions of one tenant
  Writers,      \* writer ids, one per AgentService process
  NoWriter,     \* the empty current_writer_id
  Keys,         \* idempotency keys (request ids and workflow operation keys)
  SessionOf,    \* the session each run id belongs to
  LeaseTTL,     \* WORKER_LEASE_SECONDS in ticks
  MaxToken,     \* bound on fence tokens
  MaxRevision,  \* bound on Run revisions
  MaxEvents,    \* bound on the length of an event log
  MaxProgress   \* bound on the progress events in a log

ASSUME StoreAssumption ==
  /\ NoWriter \notin Writers
  /\ SessionOf \in [Runs -> Sessions]
  /\ LeaseTTL \in Nat \ {0}
  /\ MaxToken \in Nat \ {0}
  /\ MaxRevision \in Nat \ {0}
  /\ MaxEvents \in Nat \ {0}
  /\ MaxProgress \in Nat

VARIABLES
  head,    \* run_heads: status, revision, writer, fence token, age of updated_at
  lease,   \* run_worker_leases: holder, its token, ticks until expires_at
  intent,  \* run_interruption_intents: phase and reason
  index,   \* newest RunResumeIndex row: its revision, the state of its workflow
  ledger,  \* idempotency_ledger
  log      \* run_events, in sequence order

vars == <<head, lease, intent, index, ledger, log>>

----------------------------------------------------------------------------
(* Vocabulary *)

Reasons == {"USER_CANCEL", "RUN_TIMEOUT"}
Phases  == {"NONE", "REQUESTED", "OBSERVED", "FINALIZED"}
OutcomeOfSwapped(reason) == IF reason = "USER_CANCEL" THEN "TIMED_OUT" ELSE "CANCELLED"
OutcomeOf(reason) == IF reason = "USER_CANCEL" THEN "CANCELLED" ELSE "TIMED_OUT"

NoHead   == [status |-> "ABSENT", revision |-> 0, writer |-> NoWriter,
             token |-> 0, age |-> 0]
NoLease  == [writer |-> NoWriter, token |-> 0, ttl |-> 0]
NoIntent == [phase |-> "NONE", reason |-> "USER_CANCEL"]
NoIndex  == [revision |-> 0, workflow |-> "NONE"]
NoEntry  == [op |-> "none", state |-> "NONE", token |-> 0, revision |-> 0]

HeadType   == [status: Statuses, revision: Nat, writer: Writers \cup {NoWriter},
               token: Nat, age: 0..LeaseTTL]
LeaseType  == [writer: Writers \cup {NoWriter}, token: Nat, ttl: 0..LeaseTTL]
IntentType == [phase: Phases, reason: Reasons]
IndexType  == [revision: Nat, workflow: {"NONE", "PENDING", "RUNNING", "COMPLETED"}]
EntryType  == [op: {"none", "start", "resume", "workflow"},
               state: {"NONE", "PREPARED", "COMMITTED"}, token: Nat,
               revision: Nat]
EventType  == [type: EventTypes, revision: Nat]

TypeOK ==
  /\ head   \in [Runs -> HeadType]
  /\ lease  \in [Runs -> LeaseType]
  /\ intent \in [Runs -> IntentType]
  /\ index  \in [Runs -> IndexType]
  /\ ledger \in [Runs -> [Keys -> EntryType]]
  /\ log    \in [Runs -> Seq(EventType)]

----------------------------------------------------------------------------
(* Parts shared by the transactions *)

Exists(r)   == head[r].status # "ABSENT"
Active(r)   == head[r].status \in ActiveStatuses
Leased(r)   == lease[r].writer # NoWriter
LeaseLive(r) == lease[r].ttl > 0
Owns(r, w, t) == Exists(r) /\ head[r].writer = w /\ head[r].token = t
HoldsLease(r, w, t) == lease[r].writer = w /\ lease[r].token = t

Event(type, revision) == [type |-> type, revision |-> revision]
LastType(r) == log[r][Len(log[r])].type

(* _append_event_tx: nothing follows a terminal event, except run_resumed   *)
(* after run_blocked.                                                       *)
CanAppendAnything(r, type) == TRUE
CanAppend(r, type) ==
  \/ log[r] = <<>>
  \/ LastType(r) \notin TerminalEvents
  \/ LastType(r) = "run_blocked" /\ type = "run_resumed"

Room(r, n) == Len(log[r]) + n <= MaxEvents
ProgressOf(r) == {i \in DOMAIN log[r] : log[r][i].type = "progress"}

GrantOffByOne(w, t) == [writer |-> w, token |-> t, ttl |-> LeaseTTL + 1]
Grant(w, t) == [writer |-> w, token |-> t, ttl |-> LeaseTTL]

(* _assert_session_run_available_tx: every other Run of the session must be *)
(* dead, and a dead one that still looks active is converged to             *)
(* FAILED_TERMINAL in the same transaction (_converge_orphaned_run_tx).     *)
Rivals(r)  == {q \in Runs \ {r} : Exists(q) /\ SessionOf[q] = SessionOf[r]}
Orphans(r) == {q \in Rivals(r) : Active(q)}

SessionAvailableByHead(r) ==
  \A q \in Orphans(r) : ~LeaseLive(q) /\ CanAppend(q, "run_failed")
SessionAvailableByLog(r) == \A q \in Orphans(r) : CanAppend(q, "run_failed")
SessionAvailable(r) ==
  /\ \A q \in Rivals(r) : ~LeaseLive(q)
  /\ \A q \in Orphans(r) :
       /\ Leased(q) \/ head[q].age = LeaseTTL
       /\ CanAppend(q, "run_failed")

RoomToReap(r) == \A q \in Orphans(r) : Room(q, 1)

HeadNotReaped(r) == head
HeadReaped(r) ==
  [q \in Runs |-> IF q \in Orphans(r)
                  THEN [head[q] EXCEPT !.status = "FAILED_TERMINAL", !.age = 0]
                  ELSE head[q]]
LeaseReaped(r) ==
  [q \in Runs |-> IF q \in Orphans(r) THEN NoLease ELSE lease[q]]
LogReaped(r) ==
  [q \in Runs |-> IF q \in Orphans(r)
                  THEN Append(log[q], Event("run_failed", head[q].revision))
                  ELSE log[q]]

(* A new revision of the head, written together with a status.             *)
AdvanceKeepsStatus(r, status) ==
  [head EXCEPT ![r].revision = @ + 1, ![r].age = 0]
Advance(r, status) ==
  [head EXCEPT ![r].status = status, ![r].revision = @ + 1, ![r].age = 0]

(* Every release of a lease names the writer and the token it belongs to.   *)
LeaseReleased(r, w, t) ==
  [lease EXCEPT ![r] = IF HoldsLease(r, w, t) THEN NoLease ELSE @]

----------------------------------------------------------------------------
(* Admission and ownership *)

(* reserve_service_start for a request id no Run has used.                  *)
ReserveStart(k, r, w) ==
  /\ ~Exists(r)
  /\ \A q \in Runs : ledger[q][k] = NoEntry
  /\ SessionAvailable(r)
  /\ RoomToReap(r)
  /\ head' = [HeadReaped(r) EXCEPT
       ![r] = [status |-> "CREATED", revision |-> 1, writer |-> w,
               token |-> 1, age |-> 0]]
  /\ lease' = [LeaseReaped(r) EXCEPT ![r] = Grant(w, 1)]
  /\ log' = [LogReaped(r) EXCEPT ![r] = <<Event("run_created", 1)>>]
  /\ ledger' = [ledger EXCEPT
       ![r][k] = [op |-> "start", state |-> "PREPARED", token |-> 1,
                  revision |-> 1]]
  /\ UNCHANGED <<intent, index>>

MayRenew(r, w, t) == Owns(r, w, t) /\ HoldsLease(r, w, t) /\ LeaseLive(r)

(* acquire_fence / takeover_fence by the writer that already holds both the *)
(* fence and an unexpired lease: the lease is renewed, nothing else moves.  *)
MayReacquire(r, w, t) == MayRenew(r, w, t) /\ SessionAvailable(r)
Reacquire(r, w, t) ==
  /\ MayReacquire(r, w, t)
  /\ RoomToReap(r)
  /\ head' = HeadReaped(r)
  /\ lease' = [LeaseReaped(r) EXCEPT ![r] = Grant(w, t)]
  /\ log' = LogReaped(r)
  /\ UNCHANGED <<intent, index, ledger>>

(* _insert_fence_tx: tokens count up.                                       *)
SameToken(r) == head[r].token
NextToken(r) == head[r].token + 1

(* What acquire_fence and takeover_fence share once they are granted: the   *)
(* next token, the new writer and a fresh lease.                            *)
GrantFence(r, w) ==
  /\ head[r].token < MaxToken
  /\ RoomToReap(r)
  /\ head' = [HeadReaped(r) EXCEPT
       ![r] = [head[r] EXCEPT !.writer = w, !.token = NextToken(r), !.age = 0]]
  /\ lease' = [LeaseReaped(r) EXCEPT ![r] = Grant(w, NextToken(r))]
  /\ log' = LogReaped(r)
  /\ UNCHANGED <<intent, index, ledger>>

(* acquire_fence of a released Run.  The view passes no expected token when *)
(* get_current_fence found no owner.                                        *)
MayAcquire(r) ==
  /\ Exists(r)
  /\ head[r].writer = NoWriter
  /\ ~LeaseLive(r)
  /\ SessionAvailable(r)
AcquireFence(r, w) == MayAcquire(r) /\ GrantFence(r, w)

(* takeover_fence against the token the caller read.                        *)
MayTakeOverAnyway(r, expected) ==
  Exists(r) /\ head[r].token = expected /\ SessionAvailable(r)
MayTakeOver(r, expected) ==
  /\ Exists(r)
  /\ head[r].token = expected
  /\ ~LeaseLive(r)
  /\ head[r].status = "RUNNING" /\ head[r].writer # NoWriter => Leased(r)
  /\ SessionAvailable(r)
TakeoverFence(r, w, expected) == MayTakeOver(r, expected) /\ GrantFence(r, w)

(* renew_worker_lease *)
RenewLease(r, w, t) ==
  /\ MayRenew(r, w, t)
  /\ lease' = [lease EXCEPT ![r] = Grant(w, t)]
  /\ UNCHANGED <<head, intent, index, ledger, log>>

(* release_fence *)
ReleaseFence(r, w, t) ==
  /\ Owns(r, w, t)
  /\ head' = [head EXCEPT ![r].writer = NoWriter, ![r].age = 0]
  /\ lease' = LeaseReleased(r, w, t)
  /\ UNCHANGED <<intent, index, ledger, log>>

----------------------------------------------------------------------------
(* Run status *)

(* transition_run_with_event: status and state event in one transaction.    *)
MayTransitionUnfenced(r, w, t, target, type) ==
  /\ target \in AllowedTargets(head[r].status)
  /\ type \in EventsFor(target)
  /\ CanAppend(r, type)
MayTransition(r, w, t, target, type) ==
  /\ Owns(r, w, t)
  /\ target \in AllowedTargets(head[r].status)
  /\ type \in EventsFor(target)
  /\ CanAppend(r, type)

(* A Run whose attempt ends has no lease any more.                          *)
LeaseDropped(r, w, t, target) == LeaseReleased(r, w, t)
LeaseAfter(r, w, t, target) ==
  IF target \in EndStatuses THEN LeaseReleased(r, w, t) ELSE lease

Transition(r, w, t, target, type) ==
  /\ MayTransition(r, w, t, target, type)
  /\ Room(r, 1)
  /\ log' = [log EXCEPT ![r] = Append(@, Event(type, head[r].revision))]
  /\ head' = [head EXCEPT ![r].status = target, ![r].age = 0]
  /\ lease' = LeaseAfter(r, w, t, target)
  /\ UNCHANGED <<intent, index, ledger>>

(* request_interruption: the control plane, which holds no fence.           *)
MayInterrupt(r) ==
  /\ Exists(r)
  /\ intent[r].phase = "NONE"
  /\ head[r].status \notin {"CANCELLING"} \cup EndStatuses
  /\ CanAppend(r, "run_cancelling")
RequestInterruption(r, reason) ==
  /\ MayInterrupt(r)
  /\ Room(r, 1)
  /\ head[r].revision < MaxRevision
  /\ intent' = [intent EXCEPT ![r] = [phase |-> "REQUESTED", reason |-> reason]]
  /\ head' = Advance(r, "CANCELLING")
  /\ log' = [log EXCEPT
       ![r] = Append(@, Event("run_cancelling", head[r].revision + 1))]
  /\ UNCHANGED <<lease, index, ledger>>

(* advance_interruption_phase to OBSERVED, the one target the coordinator   *)
(* asks for.                                                                *)
MayObserve(r, w, t) ==
  /\ Owns(r, w, t)
  /\ intent[r].phase = "REQUESTED"
  /\ head[r].status = "CANCELLING"
ObserveInterruption(r, w, t) ==
  /\ MayObserve(r, w, t)
  /\ head[r].revision < MaxRevision
  /\ intent' = [intent EXCEPT ![r].phase = "OBSERVED"]
  /\ head' = Advance(r, head[r].status)
  /\ UNCHANGED <<lease, index, ledger, log>>

(* finalize_interruption.  The lease is left to release_fence.              *)
MayFinalize(r, w, t) ==
  /\ Owns(r, w, t)
  /\ intent[r].phase = "OBSERVED"
  /\ head[r].status = "CANCELLING"
  /\ CanAppend(r, "run_cancelled")
FinalizeInterruption(r, w, t) ==
  /\ MayFinalize(r, w, t)
  /\ head[r].revision < MaxRevision
  /\ Room(r, 1)
  /\ \E type \in EventsFor(OutcomeOf(intent[r].reason)) :
       log' = [log EXCEPT ![r] = Append(@, Event(type, head[r].revision + 1))]
  /\ intent' = [intent EXCEPT ![r].phase = "FINALIZED"]
  /\ head' = Advance(r, OutcomeOf(intent[r].reason))
  /\ UNCHANGED <<lease, index, ledger>>

(* append_event, which carries the progress of a Runtime and the            *)
(* resume_decided of a resume: no fence and no status check, and the caller *)
(* names a revision it has read.                                            *)
AppendProgress(r, revision) ==
  /\ Exists(r)
  /\ CanAppend(r, "progress")
  /\ Room(r, 1)
  /\ Cardinality(ProgressOf(r)) < MaxProgress
  /\ log' = [log EXCEPT ![r] = Append(@, Event("progress", revision))]
  /\ UNCHANGED <<head, lease, intent, index, ledger>>

----------------------------------------------------------------------------
(* Idempotent operations and the Workflow index *)

(* _validate_write_head_tx *)
WriteHead(r, w, t, revision) ==
  /\ Owns(r, w, t)
  /\ head[r].revision = revision
  /\ revision < MaxRevision

(* prepare_operation for a key this Run has not used.                       *)
PrepareOperation(r, w, t, revision, k, op) ==
  /\ ledger[r][k] = NoEntry
  /\ WriteHead(r, w, t, revision)
  /\ ledger' = [ledger EXCEPT
       ![r][k] = [op |-> op, state |-> "PREPARED", token |-> t,
                  revision |-> revision + 1]]
  /\ head' = Advance(r, head[r].status)
  /\ UNCHANGED <<lease, intent, index, log>>

(* DurableRuntimeStoreView.bootstrap_run_index over append_revision: only   *)
(* directly after the Service reservation, under the fence it granted.      *)
BootstrapIndex(r, w, t, revision) ==
  /\ index[r] = NoIndex
  /\ revision = 1
  /\ \E k \in Keys : ledger[r][k].op = "start" /\ ledger[r][k].token = t
  /\ WriteHead(r, w, t, revision)
  /\ index' = [index EXCEPT ![r] = [revision |-> revision + 1, workflow |-> "PENDING"]]
  /\ head' = Advance(r, "RUNNING")
  /\ UNCHANGED <<lease, intent, ledger, log>>

(* activate_workflow_with_checkpoint; the coordinator's expected revision   *)
(* is the revision of the index row it read.                                *)
ActivateWorkflow(r, w, t, revision) ==
  /\ index[r].workflow = "PENDING"
  /\ index[r].revision = revision
  /\ WriteHead(r, w, t, revision)
  /\ CanAppend(r, "workflow_activated")
  /\ Room(r, 1)
  /\ index' = [index EXCEPT ![r] = [revision |-> revision + 1, workflow |-> "RUNNING"]]
  /\ head' = Advance(r, "RUNNING")
  /\ log' = [log EXCEPT
       ![r] = Append(@, Event("workflow_activated", revision + 1))]
  /\ UNCHANGED <<lease, intent, ledger>>

CommittableAlways(r) == TRUE
Committable(r) == head[r].status \notin {"CANCELLING", "CANCELLED", "TIMED_OUT"}

(* finalize_bundle: checkpoint chain, artifacts, ledger, index, head and    *)
(* one or two events, or nothing.  done: the bundle completes the Workflow. *)
FinalizeBundle(r, w, t, revision, k, done) ==
  /\ ledger[r][k].op = "workflow" /\ ledger[r][k].state = "PREPARED"
  /\ Committable(r)
  /\ index[r].workflow = "RUNNING"
  /\ WriteHead(r, w, t, revision)
  /\ CanAppend(r, "checkpoint_committed")
  /\ Room(r, 2)
  /\ ledger' = [ledger EXCEPT ![r][k].state = "COMMITTED"]
  /\ index' = [index EXCEPT
       ![r] = [revision |-> revision + 1,
               workflow |-> IF done THEN "COMPLETED" ELSE "RUNNING"]]
  /\ head' = Advance(r, "RUNNING")
  /\ log' = [log EXCEPT
       ![r] = @ \o <<Event("checkpoint_committed", revision + 1)>>
                \o (IF done THEN <<Event("workflow_completed", revision + 1)>>
                            ELSE <<>>)]
  /\ UNCHANGED <<lease, intent>>

----------------------------------------------------------------------------
(* Time: leases run down and heads grow old.                                *)
Tick ==
  /\ lease' = [r \in Runs |->
       [lease[r] EXCEPT !.ttl = IF @ > 0 THEN @ - 1 ELSE 0]]
  /\ head' = [r \in Runs |->
       [head[r] EXCEPT !.age = IF @ < LeaseTTL THEN @ + 1 ELSE LeaseTTL]]
  /\ UNCHANGED <<intent, index, ledger, log>>

Init ==
  /\ head   = [r \in Runs |-> NoHead]
  /\ lease  = [r \in Runs |-> NoLease]
  /\ intent = [r \in Runs |-> NoIntent]
  /\ index  = [r \in Runs |-> NoIndex]
  /\ ledger = [r \in Runs |-> [k \in Keys |-> NoEntry]]
  /\ log    = [r \in Runs |-> <<>>]

(* Statuses RuntimeExecutionLauncher passes to transition_run_with_event.   *)
LauncherTargets == {"RUNNING", "COMPLETED", "FAILED_TERMINAL", "BLOCKED", "WAITING_USER"}

(* The most general client: any writer at any time.                         *)
OwnershipStep(r, w) ==
  \/ \E k \in Keys : ReserveStart(k, r, w)
  \/ Reacquire(r, w, head[r].token)
  \/ AcquireFence(r, w)
  \/ TakeoverFence(r, w, head[r].token)
  \/ RenewLease(r, w, head[r].token)
  \/ ReleaseFence(r, w, head[r].token)

FencedStep(r, w) ==
  \/ \E target \in LauncherTargets : \E type \in EventsFor(target) :
       Transition(r, w, head[r].token, target, type)
  \/ ObserveInterruption(r, w, head[r].token)
  \/ FinalizeInterruption(r, w, head[r].token)
  \/ \E k \in Keys, op \in {"resume", "workflow"} :
       PrepareOperation(r, w, head[r].token, head[r].revision, k, op)
  \/ BootstrapIndex(r, w, head[r].token, head[r].revision)
  \/ ActivateWorkflow(r, w, head[r].token, head[r].revision)
  \/ \E k \in Keys, done \in BOOLEAN :
       FinalizeBundle(r, w, head[r].token, head[r].revision, k, done)

UnfencedStep(r) ==
  \/ \E reason \in Reasons : RequestInterruption(r, reason)
  \/ \E revision \in 1..head[r].revision : AppendProgress(r, revision)

Next ==
  \/ \E r \in Runs, w \in Writers : OwnershipStep(r, w) \/ FencedStep(r, w)
  \/ \E r \in Runs : UnfencedStep(r)
  \/ Tick

Spec == Init /\ [][Next]_vars

----------------------------------------------------------------------------
(* Properties *)

(* A worker lease row always names the writer and the token of the current  *)
(* fence, and only a row can be unexpired: takeover, release, the reaper    *)
(* and the terminal transitions never leave a lease that outlives or        *)
(* precedes its fence.                                                      *)
LeaseFollowsFence ==
  \A r \in Runs :
    /\ Leased(r) => /\ head[r].writer = lease[r].writer
                    /\ head[r].token = lease[r].token
    /\ LeaseLive(r) => Leased(r)

(* Two Service instances never hold unexpired leases on two Runs of one     *)
(* session, whichever of start, resume, takeover and renewal they race      *)
(* (docs/quality/known-debt.md section 1).                                  *)
OneLiveRunPerSession ==
  \A q, r \in Runs :
    q # r /\ LeaseLive(q) /\ LeaseLive(r) => SessionOf[q] # SessionOf[r]

(* A Run with a durable interruption intent is never published as running,  *)
(* waiting, blocked or completed: activation, finalization and bootstrap    *)
(* cannot overwrite CANCELLING.  CANCELLED and TIMED_OUT are published      *)
(* exactly when the intent is FINALIZED, for the intent's own reason.       *)
InterruptionAgreement ==
  \A r \in Runs :
    /\ intent[r].phase \in {"REQUESTED", "OBSERVED"} =>
         head[r].status \in {"CANCELLING", "FAILED_TERMINAL"}
    /\ intent[r].phase = "FINALIZED" =>
         head[r].status = OutcomeOf(intent[r].reason)
    /\ head[r].status = "CANCELLING" =>
         intent[r].phase \in {"REQUESTED", "OBSERVED"}
    /\ head[r].status \in {"CANCELLED", "TIMED_OUT"} =>
         intent[r].phase = "FINALIZED"

(* What get_run reads as status and as terminal event agree: a Run whose    *)
(* status ends an attempt has the matching terminal event as its last event *)
(* ("Terminal Snapshot/Event mismatch 0", ADR-0023 section 8).              *)
OutcomeAgreement ==
  \A r \in Runs :
    head[r].status \in EndStatuses =>
      log[r] # <<>> /\ LastType(r) \in EventsFor(head[r].status)

(* One terminal event per attempt: only run_resumed follows one, and only   *)
(* after run_blocked (ADR-0021 section 2.4, rules 5 and 6), whether it was  *)
(* written by a worker, by the interruption or by the reaper.               *)
OneOutcomePerAttempt ==
  \A r \in Runs : \A i \in 1..Len(log[r]) - 1 :
    log[r][i].type \in TerminalEvents =>
      log[r][i].type = "run_blocked" /\ log[r][i + 1].type = "run_resumed"

(* While its lease is unexpired no other writer takes a Run over and the    *)
(* reaper does not fail it: the fence stays with its holder until that      *)
(* holder releases it, and run_failed needs the holder's own transition.    *)
LiveOwnerKept ==
  [][\A r \in Runs : LeaseLive(r) =>
       /\ head'[r].token = head[r].token
       /\ head'[r].writer \in {head[r].writer, NoWriter}
       /\ head'[r].status = "FAILED_TERMINAL" =>
            head[r].status \in {"RUNNING", "FAILED_TERMINAL"}]_vars

(* Once a cancellation or a timeout is durable no Workflow effect is        *)
(* committed ("Post-cancel new side effect 0", ADR-0023 section 8), and     *)
(* none is committed behind a terminal event.                               *)
NoCommitAfterOutcome ==
  [][\A r \in Runs, k \in Keys :
       ledger'[r][k].state = "COMMITTED" /\ ledger[r][k].state # "COMMITTED" =>
         intent[r].phase = "NONE" /\ LastType(r) \notin TerminalEvents]_vars

(* The outcome that the event log of a Run tells, and the interruption its  *)
(* intent asks for.                                                         *)
LoggedOutcome(r) ==
  IF log[r] = <<>> THEN "none"
  ELSE CASE LastType(r) = "run_completed" -> "completed"
         [] LastType(r) = "run_failed"    -> "failed"
         [] LastType(r) = "run_blocked"   -> "blocked"
         [] LastType(r) = "run_cancelled" -> "cancelled"
         [] LastType(r) = "run_timed_out" -> "timed_out"
         [] OTHER                         -> "open"
AskedOf(r) ==
  IF intent[r].phase = "NONE" THEN "nothing"
  ELSE IF intent[r].reason = "USER_CANCEL" THEN "cancelled" ELSE "timed_out"

Outcome == INSTANCE RunOutcome WITH
  outcome <- [r \in Runs |-> LoggedOutcome(r)],
  asked   <- [r \in Runs |-> AskedOf(r)]

(* The event stream is a write-once outcome per attempt: any interleaving   *)
(* of the store's transactions implements RunOutcome.                       *)
ImplementsOutcome == Outcome!Spec

Read(r) == INSTANCE RunLog WITH
  status <- head[r].status,
  work   <- index[r].workflow,
  events <- [i \in DOMAIN log[r] |-> log[r][i].type]

(* Seen through one Run's status, Workflow state and event types the store  *)
(* is RunLog: every transaction, whoever ran it, is one step of it for each *)
(* Run or leaves the Run alone, so what readers are shown correct against   *)
(* RunLog holds over the store.                                             *)
ImplementsRunLog ==
  /\ \A r \in Runs : Read(r)!LogInit
  /\ [][\A r \in Runs : Read(r)!LogNext \/ UNCHANGED Read(r)!logVars]_vars
=============================================================================
