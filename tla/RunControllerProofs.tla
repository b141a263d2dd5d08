------------------------ MODULE RunControllerProofs ------------------------
(***************************************************************************)
(* Proofs about the readers of a Run, the stream of EventStream and the     *)
(* desktop of RunController, for every size of a batch and of an answer:    *)
(* their types, CursorNeverSkips and StreamEndsAtOutcome.                   *)
(***************************************************************************)
EXTENDS RunController, WellFoundedInduction, SequenceTheorems, TLAPS

(* The log as the writers leave it: an attempt that has ended is followed   *)
(* by nothing, or by its resume.                                            *)
NothingFollows ==
  \A i \in 1..Len(events) - 1 :
    events[i] \in TerminalEvents =>
      events[i] = "run_blocked" /\ events[i + 1] = "run_resumed"

LogInv ==
  /\ LogTypeOK
  /\ Len(events) <= MaxEvents
  /\ status = "ABSENT" => Len(events) = 0
  /\ NothingFollows

(* The reader hands out nothing beyond the log, and while it hands out a    *)
(* batch there is an event to hand out.                                     *)
ReaderInv ==
  /\ StreamTypeOK
  /\ reader.batch <= Len(events)
  /\ reader.pc = "yielding" => reader.cursor < reader.batch
  /\ reader.pc = "checking" => reader.cursor \in 1..Len(events)

(* Before the Run is known to the desktop nothing polls it.                 *)
Unpolled == ~polling /\ handler["poll"].pc = "idle" /\ cursor.last = 0
Quiet ==
  /\ operation = "idle" <=> handler["op"].pc = "idle"
  /\ handler["op"].pc = "started" => operation = "starting"
  /\ operation = "starting" => Unpolled
  /\ status = "ABSENT" =>
       Unpolled /\ view.status = "unknown" /\ handler["op"].pc \in {"idle", "started"}

(* What an answer under way starts from and holds: the events up to its     *)
(* cursor have been received, and it leaves none out.                       *)
NoGap(after, got) == \A i \in got : i > after /\ after + 1..i \subseteq got
AnswerInv ==
  \A h \in Handlers :
    /\ handler[h].pc \in {"reading", "read"} =>
         IF Hydrating(h) THEN handler[h].after = 0
         ELSE 1..handler[h].after \subseteq cursor.seen
    /\ handler[h].pc = "read" => NoGap(handler[h].after, handler[h].got)

DesktopInv == DesktopTypeOK /\ Quiet /\ AnswerInv /\ CursorNeverSkips

ControllerInv == LogInv /\ ReaderInv /\ DesktopInv

----------------------------------------------------------------------------
(* Numbers and positions *)

(* A set of numbers that is not empty has a least one.                      *)
LEMMA LeastExists ==
  ASSUME NEW S, S \subseteq Nat, S # {}
  PROVE  \E i \in S : \A j \in S : i <= j
<1> DEFINE R == OpToRel(<, Nat)
<1>1. IsWellFoundedOn(R, Nat)
  BY NatLessThanWellFounded
<1>2. PICK i \in S : \A j \in S : ~(<<j, i>> \in R)
  <2> HIDE DEF R
  <2> QED BY <1>1, WFMin
<1>3. \A j \in S : ~(j < i)
  BY <1>2 DEF OpToRel
<1> HIDE DEF R
<1> QED BY <1>3

(* LatestOf is the greatest of a bounded set. *)
LEMMA LatestIsGreatest ==
  ASSUME NEW S, NEW m \in Nat, S \subseteq 1..m
  PROVE  /\ LatestOf(S) \in 0..m
         /\ \A j \in S : j <= LatestOf(S)
         /\ IF S = {} THEN LatestOf(S) = 0 ELSE LatestOf(S) \in S
<1>1. CASE S = {}
  BY <1>1 DEF LatestOf
<1>2. CASE S # {}
  <2> DEFINE T == {m - i : i \in S}
  <2>1. T \subseteq Nat
    OBVIOUS
  <2>2. T # {}
    BY <1>2
  <2>3. \A j \in S : m - j \in T
    OBVIOUS
  <2>4. \A k \in T : \E i \in S : k = m - i
    OBVIOUS
  <2> HIDE DEF T
  <2>5. PICK k \in T : \A l \in T : k <= l
    BY <2>1, <2>2, LeastExists
  <2>6. PICK i \in S : k = m - i
    BY <2>4
  <2>7. \E g \in S : \A j \in S : j <= g
    BY <2>3, <2>5, <2>6
  <2>8. LatestOf(S) = CHOOSE g \in S : \A j \in S : j <= g
    BY <1>2 DEF LatestOf
  <2>9. LatestOf(S) \in S /\ \A j \in S : j <= LatestOf(S)
    <3> DEFINE P(g) == g \in S /\ \A j \in S : j <= g
    <3>1. LatestOf(S) = CHOOSE g : P(g)
      BY <2>8
    <3>2. \E g : P(g)
      BY <2>7
    <3> HIDE DEF P
    <3>3. P(LatestOf(S))
      BY <3>1, <3>2, Zenon
    <3> QED BY <3>3 DEF P
  <2>10. LatestOf(S) \in 1..m
    BY <2>9
  <2>11. 1..m \subseteq 0..m
    OBVIOUS
  <2> QED BY <1>2, <2>9, <2>10, <2>11
<1> QED BY <1>1, <1>2

----------------------------------------------------------------------------
(* The log *)

(* What a step does to the log: it grows, and stays well-formed.            *)
Grown ==
  /\ events' \in Seq(EventTypes)
  /\ Len(events) <= Len(events') /\ Len(events') <= MaxEvents
  /\ \A i \in 1..Len(events) : events'[i] = events[i]
  /\ NothingFollows'

(* A log that one event is written to only grows, within its bound.         *)
LEMMA OneWritten ==
  ASSUME LogInv, NEW type \in EventTypes, Appendable(type), Write(<<type>>)
  PROVE  Grown
<1>1. /\ events' \in Seq(EventTypes) /\ Len(events') = Len(events) + 1
      /\ \A i \in 1..Len(events) : events'[i] = events[i]
      /\ events'[Len(events) + 1] = type
      /\ Len(events) \in Nat /\ Len(events') <= MaxEvents
  BY DEF Write, LogInv, LogTypeOK
<1>2. Len(events) > 0 /\ events[Len(events)] \in TerminalEvents =>
        events[Len(events)] = "run_blocked" /\ type = "run_resumed"
  BY DEF Appendable, LogInv, LogTypeOK
<1>3. ASSUME NEW i \in 1..Len(events') - 1, events'[i] \in TerminalEvents
      PROVE  events'[i] = "run_blocked" /\ events'[i + 1] = "run_resumed"
  <2>1. CASE i = Len(events)
    BY <1>1, <1>2, <1>3, <2>1
  <2>2. CASE i < Len(events)
    <3>1. i \in 1..Len(events) - 1 /\ i + 1 \in 1..Len(events)
      BY <1>1, <2>2
    <3> QED BY <1>1, <1>3, <3>1 DEF LogInv, NothingFollows
  <2> QED BY <1>1, <2>1, <2>2
<1> QED BY <1>1, <1>3 DEF Grown, NothingFollows

(* Appending two events of which only the second may end the attempt.       *)
LEMMA TwoWritten ==
  ASSUME LogInv, NEW types \in Seq(EventTypes), Len(types) = 2,
         types[1] \notin TerminalEvents \cup {"run_resumed"}, Appendable(types[1]),
         Write(types)
  PROVE  Grown
<1>1. /\ events' \in Seq(EventTypes) /\ Len(events') = Len(events) + 2
      /\ \A i \in 1..Len(events) : events'[i] = events[i]
      /\ events'[Len(events) + 1] = types[1]
      /\ Len(events) \in Nat /\ Len(events') <= MaxEvents
  <2>1. /\ events \in Seq(EventTypes) /\ events' = events \o types
        /\ Len(events) + Len(types) <= MaxEvents
    BY DEF Write, LogInv, LogTypeOK
  <2>2. /\ Len(events \o types) = Len(events) + Len(types)
        /\ \A i \in 1..Len(events) + Len(types) :
             (events \o types)[i] = IF i <= Len(events) THEN events[i] ELSE types[i - Len(events)]
    BY <2>1, ConcatProperties
  <2>3. Len(events) + 1 \in 1..Len(events) + Len(types) /\ Len(events) + 1 - Len(events) = 1
    BY <2>1
  <2> QED BY <2>1, <2>2, <2>3
<1>2. Len(events) > 0 => events[Len(events)] \notin TerminalEvents
  BY DEF Appendable, LogInv, LogTypeOK
<1>3. ASSUME NEW i \in 1..Len(events') - 1, events'[i] \in TerminalEvents
      PROVE  events'[i] = "run_blocked" /\ events'[i + 1] = "run_resumed"
  <2>1. CASE i = Len(events) + 1
    BY <1>1, <1>3, <2>1
  <2>2. CASE i = Len(events)
    BY <1>1, <1>2, <1>3, <2>2
  <2>3. CASE i < Len(events)
    <3>1. i \in 1..Len(events) - 1 /\ i + 1 \in 1..Len(events)
      BY <1>1, <2>3
    <3> QED BY <1>1, <1>3, <3>1 DEF LogInv, NothingFollows
  <2> QED BY <1>1, <2>1, <2>2, <2>3
<1> QED BY <1>1, <1>3 DEF Grown, NothingFollows

(* The tables of statuses yield event types, and statuses a Run can have.   *)
LEMMA TablesTyped ==
  /\ \A s : EventsFor(s) \subseteq EventTypes
  /\ \A s : AllowedTargets(s) \subseteq Statuses \ {"ABSENT"}
<1>1. ASSUME NEW s
      PROVE  EventsFor(s) \subseteq EventTypes
  BY DEF EventsFor, EventTypes, TerminalEvents
<1>2. ASSUME NEW s
      PROVE  AllowedTargets(s) \subseteq Statuses \ {"ABSENT"}
  BY DEF AllowedTargets, Statuses, ActiveStatuses, EndStatuses, FinalStatuses
<1> QED BY <1>1, <1>2

(* Every step of the Run keeps the log well-formed, and a Run is not        *)
(* forgotten.                                                               *)
LEMMA LogSteps ==
  ASSUME LogInv, LogNext
  PROVE  LogInv' /\ Grown /\ status' # "ABSENT"
<1> USE DEF LogInv
<1>0. Len(events) \in Nat /\ (UNCHANGED events => Grown)
  BY DEF LogTypeOK, Grown, NothingFollows
<1>1. SUFFICES Grown /\ status' \in Statuses \ {"ABSENT"} /\ work' \in WorkStates
  BY DEF Grown, LogTypeOK
<1>2. CASE Admit
  <2>1. Len(events) = 0 /\ events \in Seq(EventTypes)
    BY <1>2 DEF Admit, LogTypeOK
  <2>2. events = <<>>
    BY <2>1
  <2>3. Appendable("run_created") /\ "run_created" \in EventTypes
    BY <2>2 DEF Appendable, EventTypes
  <2> QED BY <1>2, <2>3, OneWritten DEF Admit, LogTypeOK, Statuses, ActiveStatuses
<1>3. ASSUME NEW target \in AllowedTargets(status), NEW type \in EventsFor(target),
             Publish(target, type)
      PROVE  Grown /\ status' \in Statuses \ {"ABSENT"} /\ work' \in WorkStates
  BY <1>3, TablesTyped, OneWritten DEF Publish, LogTypeOK
<1>4. CASE Interrupt
  <2>1. "run_cancelling" \in EventTypes /\ "CANCELLING" \in Statuses
    BY DEF EventTypes, Statuses, ActiveStatuses
  <2> QED BY <1>4, <2>1, OneWritten DEF Interrupt, Interruptible, LogTypeOK
<1>5. ASSUME NEW outcome \in {"CANCELLED", "TIMED_OUT"}, Settle(outcome)
      PROVE  Grown /\ status' \in Statuses \ {"ABSENT"} /\ work' \in WorkStates
  <2>1. PICK type \in EventsFor(outcome) : Write(<<type>>)
    BY <1>5 DEF Settle
  <2>2. type \in EventTypes /\ Appendable(type)
    BY <1>5, TablesTyped DEF Settle, Appendable
  <2>3. outcome \in Statuses
    BY DEF Statuses, EndStatuses, FinalStatuses
  <2> QED BY <1>5, <2>1, <2>2, <2>3, OneWritten DEF Settle, LogTypeOK
<1>6. CASE Reap
  <2>1. "run_failed" \in EventTypes /\ "FAILED_TERMINAL" \in Statuses
    BY DEF EventTypes, TerminalEvents, Statuses, EndStatuses, FinalStatuses
  <2> QED BY <1>6, <2>1, OneWritten DEF Reap, LogTypeOK
<1>7. CASE Report
  <2>1. "progress" \in EventTypes
    BY DEF EventTypes
  <2> QED BY <1>7, <2>1, OneWritten DEF Report, LogTypeOK
<1>8. CASE Bootstrap
  <2>1. "RUNNING" \in Statuses /\ "PENDING" \in WorkStates
    BY DEF Statuses, ActiveStatuses, WorkStates
  <2> QED BY <1>0, <1>8, <2>1 DEF Bootstrap
<1>9. CASE Activate
  <2>1. "RUNNING" \in Statuses /\ "RUNNING" \in WorkStates /\ "workflow_activated" \in EventTypes
    BY DEF Statuses, ActiveStatuses, WorkStates, EventTypes
  <2> QED BY <1>9, <2>1, OneWritten DEF Activate
<1>10. ASSUME NEW done \in BOOLEAN, Commit(done)
       PROVE  Grown /\ status' \in Statuses \ {"ABSENT"} /\ work' \in WorkStates
  <2>1. /\ "RUNNING" \in Statuses /\ {"RUNNING", "COMPLETED"} \subseteq WorkStates
        /\ {"checkpoint_committed", "workflow_completed"} \subseteq EventTypes
        /\ "checkpoint_committed" \notin TerminalEvents
    BY DEF Statuses, ActiveStatuses, WorkStates, EventTypes, TerminalEvents
  <2>2. CASE done
    <3> DEFINE types == <<"checkpoint_committed">> \o <<"workflow_completed">>
    <3>1. types \in Seq(EventTypes) /\ Len(types) = 2 /\ types[1] = "checkpoint_committed"
      BY <2>1
    <3>2. Write(types)
      BY <1>10, <2>2 DEF Commit
    <3> HIDE DEF types
    <3>3. Grown
      BY <1>10, <2>1, <3>1, <3>2, TwoWritten DEF Commit
    <3> QED BY <1>10, <2>1, <3>3 DEF Commit
  <2>3. CASE ~done
    <3>1. <<"checkpoint_committed">> \o <<>> = <<"checkpoint_committed">>
      OBVIOUS
    <3>2. Write(<<"checkpoint_committed">>)
      BY <1>10, <2>3, <3>1 DEF Commit
    <3>3. Grown
      BY <1>10, <2>1, <3>2, OneWritten DEF Commit
    <3> QED BY <1>10, <2>1, <3>3 DEF Commit
  <2> QED BY <2>2, <2>3
<1> QED BY <1>2, <1>3, <1>4, <1>5, <1>6, <1>7, <1>8, <1>9, <1>10 DEF LogNext

----------------------------------------------------------------------------
(* The stream *)

(* A terminal event of the current attempt is the last of the log.          *)
LEMMA TerminalIsLast ==
  ASSUME LogInv, TerminalSequence # 0
  PROVE  /\ TerminalSequence = Len(events) /\ Len(events) > 0
         /\ events[Len(events)] \in TerminalEvents
<1> DEFINE resumed == LatestOf(PositionsOf({"run_resumed"}))
           S == {i \in PositionsOf(TerminalEvents) : i > resumed}
<1>1. Len(events) \in Nat /\ DOMAIN events = 1..Len(events)
  BY DEF LogInv, LogTypeOK
<1>2. S \subseteq 1..Len(events) /\ PositionsOf({"run_resumed"}) \subseteq 1..Len(events)
  BY <1>1 DEF PositionsOf
<1>3. TerminalSequence = LatestOf(S)
  BY DEF TerminalSequence
<1>4. TerminalSequence \in S
  <2> HIDE DEF S
  <2>1. IF S = {} THEN LatestOf(S) = 0 ELSE LatestOf(S) \in S
    BY <1>1, <1>2, LatestIsGreatest
  <2> QED BY <1>3, <2>1
<1>5. \A j \in PositionsOf({"run_resumed"}) : j <= resumed
  BY <1>1, <1>2, LatestIsGreatest
<1>6. PICK last \in 1..Len(events) :
        last = TerminalSequence /\ events[last] \in TerminalEvents /\ last > resumed
  BY <1>1, <1>4 DEF PositionsOf
<1>7. resumed \in 0..Len(events)
  BY <1>1, <1>2, LatestIsGreatest
<1>8. ~(last < Len(events))
  <2> SUFFICES ASSUME last < Len(events)
               PROVE  FALSE
    OBVIOUS
  <2>1. last + 1 \in 1..Len(events) /\ events[last + 1] = "run_resumed"
    BY <1>1, <1>6 DEF LogInv, NothingFollows
  <2>2. last + 1 \in PositionsOf({"run_resumed"})
    BY <1>1, <2>1 DEF PositionsOf
  <2> HIDE DEF resumed
  <2> QED BY <1>5, <1>6, <1>7, <2>2
<1>9. last = Len(events)
  <2>1. last \in Nat /\ last <= Len(events) /\ Len(events) \in Nat
    BY <1>1
  <2> QED BY <1>8, <2>1
<1>10. TerminalSequence = last /\ events[last] \in TerminalEvents
  BY <1>6
<1> QED BY <1>1, <1>9, <1>10

(* The step by which the stream ends on an outcome leaves no event behind.  *)
EndsAtOutcome ==
  reader.pc # "ended" /\ reader'.pc = "ended" =>
    /\ reader.cursor >= Len(events)
    /\ events[Len(events)] \in TerminalEvents

(* What the steps of the reader need of the types.                          *)
LEMMA ReaderTyped ==
  ASSUME ReaderInv
  PROVE  /\ reader.cursor \in Nat /\ reader.batch \in Nat /\ reader.left \in Nat
         /\ reader = [pc |-> reader.pc, cursor |-> reader.cursor,
                      batch |-> reader.batch, left |-> reader.left]
BY DEF ReaderInv, StreamTypeOK, ReaderType

(* A stream that has ended forgets its cursor and its batch.                *)
LEMMA EndSteps ==
  ASSUME NEW point \in Endings, End(point)
  PROVE  /\ reader' \in ReaderType /\ reader'.pc = point
         /\ reader'.cursor = 0 /\ reader'.batch = 0
         /\ point \notin {"yielding", "checking"}
BY DEF End, Endings, ReaderType

(* After an event the reader yields the next of its batch, reads on, or     *)
(* ends at its limit.                                                       *)
LEMMA OnwardSteps ==
  ASSUME LogInv, ReaderInv, UNCHANGED logVars, NEW n \in 1..Len(events), Onward(n)
  PROVE  /\ reader' \in ReaderType
         /\ reader'.batch <= Len(events)
         /\ reader'.pc \notin {"ended", "checking"}
         /\ reader'.pc = "yielding" => reader'.cursor < reader'.batch
<1>0. Len(events) \in Nat /\ n \in Nat
  BY DEF LogInv, LogTypeOK
<1>1. CASE reader.left = 1
  <2>1. End("limit") /\ "limit" \in Endings
    BY <1>1 DEF Onward, Endings
  <2> QED BY <1>0, <2>1, EndSteps
<1>2. CASE reader.left # 1
  <2>1. /\ reader'.pc = IF n < reader.batch THEN "yielding" ELSE "reading"
        /\ reader'.cursor = n
        /\ reader'.batch = IF n < reader.batch THEN reader.batch ELSE 0
    BY <1>2 DEF Onward
  <2>2. reader' \in ReaderType
    BY <1>0, <1>2, ReaderTyped DEF Onward, ReaderType
  <2>3. reader.batch <= Len(events)
    BY DEF ReaderInv
  <2> QED BY <1>0, <2>1, <2>2, <2>3
<1> QED BY <1>1, <1>2

(* A step of the stream keeps ReaderInv, and ends only at the outcome.      *)
LEMMA StreamSteps ==
  ASSUME LogInv, ReaderInv, StreamNext, UNCHANGED logVars
  PROVE  ReaderInv' /\ EndsAtOutcome
<1> DEFINE Goal ==
      /\ floor' \in Nat /\ open' \in BOOLEAN /\ reader' \in ReaderType
      /\ reader'.batch <= Len(events)
      /\ reader'.pc = "yielding" => reader'.cursor < reader'.batch
      /\ reader'.pc = "checking" => reader'.cursor \in 1..Len(events)
      /\ EndsAtOutcome
<1>0. /\ Len(events) \in Nat /\ DOMAIN events = 1..Len(events) /\ UNCHANGED events
      /\ floor \in Nat /\ open \in BOOLEAN /\ reader \in ReaderType
      /\ reader.batch <= Len(events)
  BY DEF LogInv, LogTypeOK, logVars, ReaderInv, StreamTypeOK
<1>1. SUFFICES Goal
  BY <1>0 DEF ReaderInv, StreamTypeOK
<1>2. ASSUME NEW after \in 0..MaxEvents, NEW limit \in Limits, Connect(after, limit)
      PROVE  Goal
  BY <1>0, <1>2, LogAssumption, StreamAssumption DEF Connect, ReaderType, EndsAtOutcome
<1>3. CASE ReadBatch
  <2> DEFINE size == IF reader.left = 0 THEN BatchSize ELSE Smaller(BatchSize, reader.left)
             last == BatchEnd(reader.cursor, size)
  <2>1. size \in Nat
    BY StreamAssumption, ReaderTyped DEF Smaller
  <2>2. last \in Nat /\ reader.cursor <= last /\ (last # reader.cursor => last <= Len(events))
    <3> HIDE DEF size
    <3> QED BY <1>0, <2>1, ReaderTyped DEF BatchEnd, Smaller
  <2>3. UNCHANGED <<floor, open>> /\ reader.pc = "reading"
    BY <1>3 DEF ReadBatch
  <2>4. \/ End("closed") \/ End("expired") \/ Goto("waiting")
        \/ last # reader.cursor /\ reader' = [reader EXCEPT !.pc = "yielding", !.batch = last]
    BY <1>3 DEF ReadBatch
  <2> HIDE DEF last
  <2>5. CASE End("closed") \/ End("expired")
    <3>1. {"closed", "expired"} \subseteq Endings
      BY DEF Endings
    <3> QED BY <1>0, <2>3, <2>5, <3>1, EndSteps DEF EndsAtOutcome
  <2>6. CASE Goto("waiting")
    BY <1>0, <2>3, <2>6, ReaderTyped DEF Goto, ReaderType, EndsAtOutcome
  <2>7. CASE last # reader.cursor /\ reader' = [reader EXCEPT !.pc = "yielding", !.batch = last]
    <3>1. /\ reader'.pc = "yielding" /\ reader'.cursor = reader.cursor /\ reader'.batch = last
          /\ reader' \in ReaderType
      BY <1>0, <2>2, <2>7 DEF ReaderType
    <3> QED BY <1>0, <2>2, <2>3, <2>7, <3>1, ReaderTyped DEF EndsAtOutcome
  <2> QED BY <2>4, <2>5, <2>6, <2>7
<1>4. CASE YieldEvent
  <2> DEFINE next == reader.cursor + 1
  <2>1. /\ reader.pc = "yielding" /\ reader.batch <= Len(events)
        /\ next \in 1..Len(events) /\ UNCHANGED <<floor, open>>
    BY <1>0, <1>4, ReaderTyped DEF YieldEvent, ReaderInv
  <2>2. CASE Onward(next)
    <3> HIDE DEF next
    <3> QED BY <1>0, <2>1, <2>2, OnwardSteps DEF EndsAtOutcome
  <2>3. CASE reader' = [reader EXCEPT !.pc = "checking", !.cursor = next]
    <3>1. reader \in ReaderType /\ next \in Nat
      BY <1>0, <2>1
    <3> HIDE DEF next
    <3>2. reader'.pc = "checking" /\ reader'.cursor = next /\ reader'.batch = reader.batch
      BY <2>3, <3>1 DEF ReaderType
    <3>3. reader' \in ReaderType
      BY <2>3, <3>1 DEF ReaderType
    <3> QED BY <1>0, <2>1, <3>2, <3>3, ReaderTyped DEF EndsAtOutcome
  <2> QED BY <1>4, <2>2, <2>3 DEF YieldEvent
<1>5. CASE CheckTerminal
  <2>1. reader.pc = "checking" /\ reader.cursor \in 1..Len(events) /\ UNCHANGED <<floor, open>>
    BY <1>5 DEF CheckTerminal, ReaderInv
  <2>2. {"closed", "ended"} \subseteq Endings
    BY DEF Endings
  <2>3. CASE End("closed")
    BY <1>0, <2>1, <2>2, <2>3, EndSteps DEF EndsAtOutcome
  <2>4. CASE EndsHere /\ End("ended")
    <3>1. TerminalSequence = reader.cursor /\ TerminalSequence # 0
      BY <1>0, <2>1, <2>4, ReaderTyped DEF EndsHere
    <3> QED BY <1>0, <2>1, <2>2, <2>4, <3>1, TerminalIsLast, EndSteps DEF EndsAtOutcome
  <2>5. CASE Onward(reader.cursor)
    <3> QED BY <1>0, <2>1, <2>5, OnwardSteps DEF EndsAtOutcome
  <2> QED BY <1>5, <2>3, <2>4, <2>5 DEF CheckTerminal
<1>6. CASE CheckHead
  <2>1. reader.pc = "waiting" /\ UNCHANGED <<floor, open>>
    BY <1>6 DEF CheckHead
  <2>2. CASE EndsBehind /\ End("ended")
    <3>1. "ended" \in Endings
      BY DEF Endings
    <3>2. TerminalSequence # 0 /\ TerminalSequence <= reader.cursor
      BY <2>2 DEF EndsBehind
    <3> QED BY <1>0, <2>1, <2>2, <3>1, <3>2, ReaderTyped, TerminalIsLast, EndSteps DEF EndsAtOutcome
  <2>3. CASE Goto("reading")
    BY <1>0, <2>1, <2>3, ReaderTyped DEF Goto, ReaderType, EndsAtOutcome
  <2> QED BY <1>6, <2>2, <2>3 DEF CheckHead
<1>7. ASSUME NEW n \in 1..MaxFloor, RaiseFloor(n)
      PROVE  Goal
  BY <1>0, <1>7 DEF RaiseFloor, ReaderInv, EndsAtOutcome
<1>8. CASE CloseRepository
  BY <1>0, <1>8 DEF CloseRepository, ReaderInv, EndsAtOutcome
<1> QED BY <1>2, <1>3, <1>4, <1>5, <1>6, <1>7, <1>8 DEF StreamNext, ReaderStep

----------------------------------------------------------------------------
(* The desktop *)

Slot == [pc: {"idle", "started", "asking", "snapped", "reading", "read"},
         base: SUBSET (1..MaxEvents), after: 0..MaxEvents,
         status: ViewStatuses, got: SUBSET (1..MaxEvents)]

(* A handler that does nothing has its type.                                *)
LEMMA IdleTyped == Idle \in Slot
BY LogAssumption DEF Idle, Slot, ViewStatuses

(* The answer to read_events leaves no event out, wherever it breaks off.   *)
LEMMA AnswerHasNoGap ==
  ASSUME LogInv, NEW after \in Nat
  PROVE  /\ Answer(after) \subseteq 1..MaxEvents /\ NoGap(after, Answer(after))
         /\ \A late \in Answer(after) : NoGap(after, {i \in Answer(after) : i < late})
<1>1. /\ Len(events) \in Nat /\ DOMAIN events = 1..Len(events)
      /\ Len(events) <= MaxEvents /\ MaxEvents \in Nat /\ EventLimit \in Nat
  BY LogAssumption, ControllerAssumption DEF LogInv, LogTypeOK
<1>2. Answer(after) \subseteq 1..MaxEvents
  BY <1>1 DEF Answer
<1>3. ASSUME NEW i \in Answer(after)
      PROVE  i > after /\ after + 1..i \subseteq Answer(after)
  <2>1. /\ i \in 1..Len(events) /\ i > after /\ i <= after + EventLimit
        /\ \A j \in after + 1..i - 1 : events[j] \notin TerminalEvents
    BY <1>1, <1>3 DEF Answer
  <2>2. ASSUME NEW k \in after + 1..i
        PROVE  k \in Answer(after)
    <3>1. /\ k \in 1..Len(events) /\ k > after /\ k <= after + EventLimit
          /\ after + 1..k - 1 \subseteq after + 1..i - 1
      BY <1>1, <2>1
    <3> QED BY <1>1, <2>1, <3>1 DEF Answer
  <2> QED BY <2>1, <2>2
<1>4. ASSUME NEW late \in Answer(after), NEW i \in Answer(after), i < late
      PROVE  \A k \in after + 1..i : k < late
  BY <1>1, <1>2, <1>4
<1> QED BY <1>2, <1>3, <1>4 DEF NoGap

(* The cursor an answer leads to is covered by it and what it starts from.  *)
LEMMA LatestCovered ==
  ASSUME NEW after \in 0..MaxEvents, NEW got \in SUBSET (1..MaxEvents), NoGap(after, got)
  PROVE  /\ Latest(after, got) \in 0..MaxEvents
         /\ 1..Latest(after, got) \subseteq 1..after \cup got
<1>1. CASE got = {}
  BY <1>1 DEF Latest
<1>2. CASE got # {}
  <2>1. LatestOf(got) \in got /\ LatestOf(got) \in 0..MaxEvents
    BY <1>2, LogAssumption, LatestIsGreatest
  <2>2. after + 1..LatestOf(got) \subseteq got /\ Latest(after, got) = LatestOf(got)
    BY <1>2, <2>1 DEF NoGap, Latest
  <2>3. ASSUME NEW k \in 1..LatestOf(got), k \notin 1..after
        PROVE  k \in after + 1..LatestOf(got)
    BY <2>1, <2>3, LogAssumption
  <2> QED BY <2>1, <2>2, <2>3
<1> QED BY <1>1, <1>2

(* Every status of a Run has one that the desktop shows.                    *)
LEMMA ViewStatusTyped == \A s : ViewStatus(s) \in ViewStatuses
<1> TAKE s
<1> QED BY DEF ViewStatus, ViewStatuses

(* A step that writes one handler's slot and leaves view, cursor and timer  *)
(* alone: what is left to show is that the slot is in order.                *)
LEMMA SlotWritten ==
  ASSUME DesktopInv, NEW h \in Handlers, NEW slot \in Slot, Set(h, slot),
         UNCHANGED <<view, cursor, polling, sidecar>>,
         failures' \in 0..MaxFailures, operation' \in {"idle", "starting", "cancelling"},
         slot.pc \in {"reading", "read"} =>
           IF Hydrating(h)' THEN slot.after = 0 ELSE 1..slot.after \subseteq cursor.seen,
         slot.pc = "read" => NoGap(slot.after, slot.got),
         h = "op" \/ UNCHANGED operation
  PROVE  /\ DesktopTypeOK' /\ AnswerInv' /\ CursorNeverSkips'
         /\ handler'[h] = slot /\ \A k \in Handlers \ {h} : handler'[k] = handler[k]
<1>1. /\ handler \in [Handlers -> Slot] /\ handler' = [handler EXCEPT ![h] = slot]
  BY DEF DesktopInv, DesktopTypeOK, Set, Slot
<1>2. /\ handler' \in [Handlers -> Slot]
      /\ handler'[h] = slot /\ \A k \in Handlers \ {h} : handler'[k] = handler[k]
  BY <1>1
<1>3. DesktopTypeOK' /\ CursorNeverSkips'
  BY <1>2 DEF DesktopInv, DesktopTypeOK, CursorNeverSkips, Slot
<1>4. ASSUME NEW k \in Handlers
      PROVE  /\ handler'[k].pc \in {"reading", "read"} =>
                  IF Hydrating(k)' THEN handler'[k].after = 0
                  ELSE 1..handler'[k].after \subseteq cursor'.seen
             /\ handler'[k].pc = "read" => NoGap(handler'[k].after, handler'[k].got)
  <2>1. CASE k = h
    BY <1>2, <2>1
  <2>2. CASE k # h
    <3>1. Hydrating(k)' = Hydrating(k)
      BY <2>2 DEF Hydrating, Handlers
    <3> QED BY <1>2, <2>2, <3>1 DEF DesktopInv, AnswerInv
  <2> QED BY <2>1, <2>2
<1> QED BY <1>2, <1>3, <1>4 DEF AnswerInv, NoGap

(* What the steps of the desktop need of the types.                         *)
LEMMA SlotTyped ==
  ASSUME DesktopInv, NEW h \in Handlers
  PROVE  /\ handler[h] \in Slot /\ "poll" \in Handlers /\ "op" \in Handlers
         /\ view.status \in ViewStatuses /\ view.shown \in SUBSET (1..MaxEvents)
         /\ cursor.last \in 0..MaxEvents /\ cursor.seen \in SUBSET (1..MaxEvents)
         /\ polling \in BOOLEAN /\ operation \in {"idle", "starting", "cancelling"}
         /\ failures \in 0..MaxFailures
BY DEF DesktopInv, DesktopTypeOK, Slot, Handlers

(* The handlers start, ...                                                  *)
LEMMA StartSteps ==
  ASSUME LogInv, DesktopInv, UNCHANGED logVars, PollTick \/ StartRun \/ CancelRun
  PROVE  DesktopInv'
<1>0. UNCHANGED status
  BY DEF logVars
<1>1. CASE PollTick
  <2> DEFINE slot == [Idle EXCEPT !.pc = "asking", !.base = view.shown]
  <2>1. slot \in Slot /\ slot.pc = "asking"
    BY IdleTyped, SlotTyped DEF Slot, Handlers
  <2>2. Set("poll", slot) /\ UNCHANGED <<view, cursor, polling, operation, sidecar, failures>>
    BY <1>1 DEF PollTick
  <2>3. polling /\ "poll" \in Handlers
    BY <1>1 DEF PollTick, Handlers
  <2> HIDE DEF slot
  <2>4. /\ DesktopTypeOK' /\ AnswerInv' /\ CursorNeverSkips'
        /\ handler'["op"] = handler["op"]
    BY <2>1, <2>2, <2>3, SlotWritten, SlotTyped DEF Handlers
  <2>5. Quiet'
    BY <1>0, <2>2, <2>3, <2>4 DEF DesktopInv, Quiet, Unpolled
  <2> QED BY <2>4, <2>5 DEF DesktopInv
<1>2. CASE StartRun
  <2> DEFINE slot == [Idle EXCEPT !.pc = "started"]
  <2>1. slot \in Slot /\ slot.pc = "started"
    BY IdleTyped DEF Slot
  <2>2. /\ Set("op", slot) /\ UNCHANGED <<view, cursor, polling, sidecar, failures>>
        /\ operation' = "starting" /\ "op" \in Handlers
    BY <1>2 DEF StartRun, Handlers
  <2>3. status = "ABSENT"
    BY <1>2 DEF StartRun
  <2> HIDE DEF slot
  <2>4. /\ DesktopTypeOK' /\ AnswerInv' /\ CursorNeverSkips'
        /\ handler'["op"].pc = "started" /\ handler'["poll"] = handler["poll"]
    BY <2>1, <2>2, SlotWritten, SlotTyped DEF Handlers
  <2>5. Quiet'
    BY <1>0, <2>2, <2>3, <2>4 DEF DesktopInv, Quiet, Unpolled
  <2> QED BY <2>4, <2>5 DEF DesktopInv
<1>3. CASE CancelRun
  <2> DEFINE slot == [Idle EXCEPT !.pc = "asking", !.base = view.shown]
  <2>1. slot \in Slot /\ slot.pc = "asking"
    BY IdleTyped, SlotTyped DEF Slot, Handlers
  <2>2. /\ Set("op", slot) /\ UNCHANGED <<view, cursor, polling, sidecar, failures>>
        /\ operation' = "cancelling" /\ "op" \in Handlers
    BY <1>3 DEF CancelRun, Handlers
  <2>3. status # "ABSENT"
    BY <1>3 DEF CancelRun, DesktopInv, Quiet
  <2> HIDE DEF slot
  <2>4. /\ DesktopTypeOK' /\ AnswerInv' /\ CursorNeverSkips'
        /\ handler'["op"].pc = "asking" /\ handler'["poll"] = handler["poll"]
    BY <2>1, <2>2, SlotWritten, SlotTyped DEF Handlers
  <2>5. Quiet'
    BY <1>0, <2>2, <2>3, <2>4 DEF DesktopInv, Quiet, Unpolled
  <2> QED BY <2>4, <2>5 DEF DesktopInv
<1> QED BY <1>1, <1>2, <1>3

(* ... a request is served, ...                                             *)
LEMMA ServeSteps ==
  ASSUME LogInv, DesktopInv, status' # "ABSENT", NEW h \in Handlers, NEW slot \in Slot,
         Set(h, slot), UNCHANGED <<view, cursor, polling, operation, sidecar>>,
         failures' \in 0..MaxFailures, handler[h].pc \notin {"idle", "snapped", "read"},
         slot.pc \in {"asking", "snapped", "read"},
         slot.pc = "read" =>
           /\ handler[h].pc = "reading" /\ slot.after = handler[h].after
           /\ NoGap(slot.after, slot.got)
  PROVE  DesktopInv'
<1>1. slot.pc = "read" =>
        IF Hydrating(h) THEN slot.after = 0 ELSE 1..slot.after \subseteq cursor.seen
  BY DEF DesktopInv, AnswerInv
<1>2. Hydrating(h)' = Hydrating(h)
  BY DEF Hydrating
<1>3. /\ DesktopTypeOK' /\ AnswerInv' /\ CursorNeverSkips'
      /\ handler'[h] = slot /\ \A k \in Handlers \ {h} : handler'[k] = handler[k]
  BY <1>1, <1>2, SlotWritten, SlotTyped
<1>4. Quiet'
  BY <1>3 DEF DesktopInv, Quiet, Unpolled, Handlers
<1> QED BY <1>3, <1>4 DEF DesktopInv

(* A handler that has gone past the start works for a Run that exists.      *)
LEMMA Known ==
  ASSUME DesktopInv, NEW h \in Handlers, handler[h].pc \notin {"idle", "started"}
  PROVE  status # "ABSENT"
BY DEF DesktopInv, Quiet, Unpolled, Handlers

(* A request that the sidecar serves keeps DesktopInv: the answer holds     *)
(* no event that the log does not.                                          *)
LEMMA RequestSteps ==
  ASSUME LogInv, DesktopInv, NEW h \in Handlers,
         \/ h = "op" /\ ServeStart
         \/ ServeSnapshot(h)
         \/ h = "op" /\ ServeCancel
         \/ UNCHANGED logVars /\ (ServeEvents(h) \/ ServeShort(h))
  PROVE  DesktopInv'
<1>1. CASE h = "op" /\ ServeStart
  <2> DEFINE slot == [handler["op"] EXCEPT !.pc = "asking"]
  <2>1. slot \in Slot /\ slot.pc = "asking"
    BY <1>1, SlotTyped DEF Slot
  <2>2. /\ Set("op", slot) /\ UNCHANGED <<view, cursor, polling, operation, sidecar, failures>>
        /\ status' = "CREATED" /\ handler["op"].pc = "started"
    BY <1>1 DEF ServeStart, Admit
  <2> HIDE DEF slot
  <2> QED BY <1>1, <2>1, <2>2, ServeSteps, SlotTyped
<1>2. CASE ServeSnapshot(h) \/ (h = "op" /\ ServeCancel)
  <2>1. PICK s : s = ViewStatus(PublicStatus')
    OBVIOUS
  <2> DEFINE slot == [handler[h] EXCEPT !.pc = "snapped", !.status = s]
  <2>2. slot \in Slot /\ slot.pc = "snapped"
    BY <2>1, SlotTyped, ViewStatusTyped DEF Slot
  <2>3. /\ Set(h, slot) /\ UNCHANGED <<view, cursor, polling, operation, sidecar, failures>>
        /\ handler[h].pc = "asking"
    BY <1>2, <2>1 DEF ServeSnapshot, ServeCancel, Snapped
  <2>4. status' # "ABSENT"
    BY <1>2, <2>3, Known DEF ServeSnapshot, ServeCancel, Interrupt, logVars
  <2> HIDE DEF slot
  <2> QED BY <2>2, <2>3, <2>4, ServeSteps, SlotTyped
<1>3. CASE UNCHANGED logVars /\ (ServeEvents(h) \/ ServeShort(h))
  <2>1. handler[h].after \in Nat /\ handler[h] \in Slot
    BY SlotTyped, LogAssumption DEF Slot
  <2>2. PICK got \in SUBSET (1..MaxEvents) :
          AnswerWith(h, got) /\ NoGap(handler[h].after, got)
    <3>1. CASE ServeEvents(h)
      BY <2>1, <3>1, AnswerHasNoGap DEF ServeEvents
    <3>2. CASE ServeShort(h)
      <4>1. PICK late \in Answer(handler[h].after) :
              AnswerWith(h, {i \in Answer(handler[h].after) : i < late})
        BY <3>2 DEF ServeShort
      <4> QED BY <2>1, <4>1, AnswerHasNoGap
    <3> QED BY <1>3, <3>1, <3>2
  <2> DEFINE slot == [handler[h] EXCEPT !.pc = "read", !.got = got]
  <2>3. /\ slot \in Slot /\ slot.pc = "read" /\ slot.after = handler[h].after
        /\ slot.got = got
    BY <2>1, <2>2 DEF Slot
  <2>4. /\ Set(h, slot) /\ UNCHANGED <<view, cursor, polling, operation, sidecar>>
        /\ handler[h].pc = "reading" /\ failures' \in 0..MaxFailures
    <3>1. ServeEvents(h) => failures' = failures
      BY DEF ServeEvents
    <3>2. ServeShort(h) => failures < MaxFailures /\ failures' = failures + 1
      BY DEF ServeShort
    <3>3. failures \in 0..MaxFailures /\ MaxFailures \in Nat
      BY SlotTyped, ControllerAssumption
    <3>4. failures' \in 0..MaxFailures
      BY <1>3, <3>1, <3>2, <3>3
    <3> QED BY <2>2, <3>4 DEF AnswerWith
  <2>5. status' # "ABSENT"
    BY <1>3, <2>4, Known DEF logVars
  <2> HIDE DEF slot
  <2> QED BY <2>2, <2>3, <2>4, <2>5, ServeSteps
<1> QED BY <1>1, <1>2, <1>3

(* ... the events are asked for from the cursor of now, ...                 *)
LEMMA AskSteps ==
  ASSUME LogInv, DesktopInv, UNCHANGED logVars, NEW h \in Handlers, AskEvents(h)
  PROVE  DesktopInv'
<1> DEFINE after == IF Hydrating(h) THEN 0 ELSE cursor.last
           slot == [handler[h] EXCEPT !.pc = "reading", !.after = after]
<1>1. after \in 0..MaxEvents
  BY SlotTyped, LogAssumption
<1>2. slot \in Slot /\ slot.pc = "reading" /\ slot.after = after
  <2> HIDE DEF after
  <2> QED BY <1>1, SlotTyped DEF Slot
<1>3. /\ Set(h, slot) /\ UNCHANGED <<view, cursor, polling, operation, sidecar, failures>>
      /\ handler[h].pc = "snapped"
  BY DEF AskEvents
<1>4. Hydrating(h)' = Hydrating(h) /\ UNCHANGED status
  BY <1>3 DEF Hydrating, logVars
<1>5. IF Hydrating(h)' THEN slot.after = 0 ELSE 1..slot.after \subseteq cursor.seen
  BY <1>2, <1>4 DEF DesktopInv, CursorNeverSkips
<1> HIDE DEF slot
<1>6. /\ DesktopTypeOK' /\ AnswerInv' /\ CursorNeverSkips'
      /\ handler'[h] = slot /\ \A k \in Handlers \ {h} : handler'[k] = handler[k]
  BY <1>2, <1>3, <1>5, SlotWritten, SlotTyped
<1>7. Quiet'
  BY <1>2, <1>3, <1>4, <1>6, Known DEF DesktopInv, Quiet, Unpolled, Handlers
<1> QED BY <1>6, <1>7 DEF DesktopInv

(* ... the answer is merged, ...                                            *)
LEMMA ApplySteps ==
  ASSUME LogInv, DesktopInv, UNCHANGED logVars, NEW h \in Handlers, Apply(h)
  PROVE  DesktopInv'
<1> DEFINE after == handler[h].after
           got == handler[h].got
<1>1. /\ handler[h] \in Slot /\ handler[h].pc = "read"
      /\ after \in 0..MaxEvents /\ got \in SUBSET (1..MaxEvents)
      /\ handler[h].status \in ViewStatuses /\ handler[h].base \in SUBSET (1..MaxEvents)
  BY SlotTyped DEF Apply, Slot
<1>2. /\ NoGap(after, got)
      /\ IF Hydrating(h) THEN after = 0 ELSE 1..after \subseteq cursor.seen
  BY <1>1 DEF DesktopInv, AnswerInv
<1>3. /\ Latest(after, got) \in 0..MaxEvents
      /\ 1..Latest(after, got) \subseteq 1..after \cup got
  BY <1>1, <1>2, LatestCovered
<1>4. /\ view' = [status |-> handler[h].status, shown |-> handler[h].base \cup Unseen(h)]
      /\ cursor' = [last |-> Latest(after, got),
                    seen |-> IF Hydrating(h) THEN got ELSE cursor.seen \cup got]
      /\ polling' = Live(handler[h].status) /\ operation' = Released(h)
      /\ handler' = [handler EXCEPT ![h] = Idle] /\ UNCHANGED <<sidecar, failures>>
  BY DEF Apply, Set
<1>5. status' # "ABSENT"
  BY <1>1, Known DEF logVars
<1>6. cursor'.last = Latest(after, got) /\ cursor'.seen = IF Hydrating(h) THEN got ELSE cursor.seen \cup got
  BY <1>4
<1>7. CursorNeverSkips'
  <2>1. CASE Hydrating(h)
    <3>1. 1..after = {}
      BY <1>2, <2>1
    <3> QED BY <1>3, <1>6, <2>1, <3>1 DEF CursorNeverSkips
  <2>2. CASE ~Hydrating(h)
    BY <1>2, <1>3, <1>6, <2>2 DEF CursorNeverSkips
  <2> QED BY <2>1, <2>2
<1>8. /\ handler \in [Handlers -> Slot] /\ handler' \in [Handlers -> Slot]
      /\ handler'[h] = Idle /\ \A k \in Handlers \ {h} : handler'[k] = handler[k]
      /\ Idle.pc = "idle"
  BY <1>4, IdleTyped DEF DesktopInv, DesktopTypeOK, Slot, Idle
<1>9. DesktopTypeOK'
  <2>1. view' \in [status: ViewStatuses, shown: SUBSET (1..MaxEvents)]
    BY <1>1, <1>4, SlotTyped DEF Unseen
  <2>2. cursor' \in [last: 0..MaxEvents, seen: SUBSET (1..MaxEvents)]
    <3>1. (IF Hydrating(h) THEN got ELSE cursor.seen \cup got) \in SUBSET (1..MaxEvents)
      BY <1>1, SlotTyped
    <3> QED BY <1>3, <1>4, <3>1
  <2>3. polling' \in BOOLEAN /\ operation' \in {"idle", "starting", "cancelling"}
    BY <1>4, SlotTyped DEF Live, Released
  <2> QED BY <1>4, <1>8, <2>1, <2>2, <2>3 DEF DesktopInv, DesktopTypeOK, Slot
<1>10. operation' # "starting"
  BY <1>1, <1>4 DEF DesktopInv, Quiet, Unpolled, Released, Handlers
<1>11. Quiet'
  <2>1. CASE h = "op"
    BY <1>4, <1>5, <1>8, <1>10, <2>1 DEF Quiet, Released
  <2>2. CASE h = "poll"
    BY <1>4, <1>5, <1>8, <1>10, <2>2 DEF DesktopInv, Quiet, Released, Handlers
  <2> QED BY <2>1, <2>2 DEF Handlers
<1>12. AnswerInv'
  <2>1. ASSUME NEW k \in Handlers
        PROVE  /\ handler'[k].pc \in {"reading", "read"} =>
                    IF Hydrating(k)' THEN handler'[k].after = 0
                    ELSE 1..handler'[k].after \subseteq cursor'.seen
               /\ handler'[k].pc = "read" => NoGap(handler'[k].after, handler'[k].got)
    <3>1. CASE k = h
      BY <1>8, <3>1
    <3>2. CASE k # h /\ handler[k].pc \in {"reading", "read"}
      <4>1. ~Hydrating(k) /\ ~Hydrating(h) /\ ~Hydrating(k)'
        BY <1>1, <1>10, <3>2 DEF Hydrating, DesktopInv, Quiet, Unpolled, Handlers
      <4> QED BY <1>6, <1>8, <3>2, <4>1 DEF DesktopInv, AnswerInv
    <3>3. CASE k # h /\ handler[k].pc \notin {"reading", "read"}
      BY <1>8, <3>3
    <3> QED BY <3>1, <3>2, <3>3
  <2> QED BY <2>1 DEF AnswerInv, NoGap
<1> QED BY <1>7, <1>9, <1>11, <1>12 DEF DesktopInv

(* ... or the handler gives up, alone or with the sidecar.                  *)
LEMMA GiveUpSteps ==
  ASSUME LogInv, DesktopInv, UNCHANGED logVars, NEW h \in Handlers,
         Reject(h) \/ TimeOut(h) \/ SidecarExit
  PROVE  DesktopInv'
<1>0. UNCHANGED status /\ Idle \in Slot /\ Idle.pc = "idle"
  BY IdleTyped DEF logVars, Idle
<1>1. CASE Reject(h) \/ TimeOut(h)
  <2>1. /\ handler[h].pc # "idle" /\ Set(h, Idle) /\ operation' = Released(h)
        /\ UNCHANGED <<view, cursor, polling, sidecar>> /\ failures' \in 0..MaxFailures
    BY <1>1, SlotTyped, ControllerAssumption DEF Reject, TimeOut, Stop
  <2>2. operation' \in {"idle", "starting", "cancelling"} /\ (h = "op" \/ UNCHANGED operation)
    BY <2>1, SlotTyped DEF Released
  <2>3. /\ DesktopTypeOK' /\ AnswerInv' /\ CursorNeverSkips'
        /\ handler'[h] = Idle /\ \A k \in Handlers \ {h} : handler'[k] = handler[k]
    BY <1>0, <2>1, <2>2, SlotWritten
  <2>4. Quiet'
    <3>1. CASE h = "op"
      BY <1>0, <2>1, <2>3, <3>1 DEF DesktopInv, Quiet, Unpolled, Released, Handlers
    <3>2. CASE h = "poll"
      BY <1>0, <2>1, <2>3, <3>2 DEF DesktopInv, Quiet, Unpolled, Released, Handlers
    <3> QED BY <3>1, <3>2 DEF Handlers
  <2> QED BY <2>3, <2>4 DEF DesktopInv
<1>2. CASE SidecarExit
  <2>1. /\ handler' = [k \in Handlers |-> Idle] /\ operation' = "idle" /\ sidecar' = "gone"
        /\ UNCHANGED <<view, cursor, polling, failures>>
    BY <1>2 DEF SidecarExit
  <2>2. \A k \in Handlers : handler'[k].pc = "idle"
    BY <1>0, <2>1
  <2>3. DesktopTypeOK' /\ CursorNeverSkips'
    BY <1>0, <2>1 DEF DesktopInv, DesktopTypeOK, CursorNeverSkips, Slot
  <2>4. AnswerInv'
    BY <2>2 DEF AnswerInv
  <2>5. Quiet'
    BY <1>0, <2>1, <2>2 DEF DesktopInv, Quiet, Unpolled, Handlers
  <2> QED BY <2>3, <2>4, <2>5 DEF DesktopInv
<1> QED BY <1>1, <1>2

(* Every step of the desktop keeps the log's facts, its length and          *)
(* DesktopInv.                                                              *)
LEMMA DesktopSteps ==
  ASSUME LogInv, DesktopInv, DesktopNext
  PROVE  LogInv' /\ Len(events) <= Len(events)' /\ DesktopInv'
<1>1. UNCHANGED logVars \/ Admit \/ Interrupt
  BY DEF DesktopNext, HandlerStep, ServeStart, ServeCancel, ServeSnapshot
<1>2. LogInv' /\ Len(events) <= Len(events)'
  <2>1. CASE UNCHANGED logVars
    BY <2>1 DEF logVars, LogInv, LogTypeOK, NothingFollows
  <2>2. CASE Admit \/ Interrupt
    BY <2>2, LogSteps DEF LogNext, Grown
  <2> QED BY <1>1, <2>1, <2>2
<1>3. DesktopInv'
  <2>1. CASE UNCHANGED logVars /\ (PollTick \/ StartRun \/ CancelRun)
    BY <2>1, StartSteps
  <2>2. CASE UNCHANGED logVars /\ SidecarExit
    BY <2>2, GiveUpSteps DEF Handlers
  <2>3. CASE ServeStart \/ ServeCancel
    BY <2>3, RequestSteps DEF Handlers
  <2>4. ASSUME NEW h \in Handlers, HandlerStep(h) \/ (UNCHANGED logVars /\ (TimeOut(h) \/ ServeShort(h)))
        PROVE  DesktopInv'
    BY <2>4, RequestSteps, AskSteps, ApplySteps, GiveUpSteps DEF HandlerStep
  <2> QED BY <2>1, <2>2, <2>3, <2>4 DEF DesktopNext
<1> QED BY <1>2, <1>3

(* A step of the Run alone leaves reader and desktop in order.              *)
LEMMA FrameSteps ==
  ASSUME LogInv, ReaderInv, LogInv', Len(events) <= Len(events)', UNCHANGED streamVars
  PROVE  ReaderInv' /\ EndsAtOutcome
<1>1. Len(events) \in Nat /\ Len(events)' \in Nat
  BY DEF LogInv, LogTypeOK
<1> QED BY <1>1, ReaderTyped DEF ReaderInv, StreamTypeOK, streamVars, EndsAtOutcome

(* What the Run does behind the desktop's back does not disturb             *)
(* DesktopInv.                                                              *)
LEMMA DesktopFrame ==
  ASSUME DesktopInv, UNCHANGED desktopVars, status' = "ABSENT" => status = "ABSENT"
  PROVE  DesktopInv'
BY DEF DesktopInv, DesktopTypeOK, Quiet, Unpolled, AnswerInv, NoGap, CursorNeverSkips,
       Hydrating, desktopVars

(* ControllerInv is inductive, and a stream ends only at the outcome.       *)
LEMMA ControllerInvNext ==
  ASSUME ControllerInv, [Next]_vars
  PROVE  ControllerInv' /\ [EndsAtOutcome]_<<logVars, streamVars>>
<1> USE DEF ControllerInv
<1>1. CASE LogNext /\ UNCHANGED <<streamVars, desktopVars>>
  <2>1. LogInv' /\ Len(events) <= Len(events)' /\ status' # "ABSENT"
    BY <1>1, LogSteps DEF Grown
  <2> QED BY <1>1, <2>1, FrameSteps, DesktopFrame
<1>2. CASE StreamNext /\ UNCHANGED <<logVars, desktopVars>>
  <2>1. LogInv' /\ UNCHANGED status
    BY <1>2 DEF logVars, LogInv, LogTypeOK, NothingFollows
  <2> QED BY <1>2, <2>1, StreamSteps, DesktopFrame
<1>3. ASSUME NEW n \in 1..MaxFloor, RaiseFloor(n), UNCHANGED <<logVars, desktopVars>>
      PROVE  ControllerInv' /\ EndsAtOutcome
  <2>1. StreamNext /\ LogInv' /\ UNCHANGED status
    BY <1>3 DEF StreamNext, logVars, LogInv, LogTypeOK, NothingFollows
  <2> QED BY <1>3, <2>1, StreamSteps, DesktopFrame
<1>4. CASE DesktopNext /\ UNCHANGED streamVars
  BY <1>4, DesktopSteps, FrameSteps
<1>5. CASE UNCHANGED vars
  <2>1. /\ LogInv' /\ UNCHANGED <<status, logVars, streamVars, desktopVars>>
        /\ Len(events) <= Len(events)'
    BY <1>5 DEF vars, logVars, streamVars, desktopVars, LogInv, LogTypeOK, NothingFollows
  <2> QED BY <2>1, FrameSteps, DesktopFrame
<1> QED BY <1>1, <1>2, <1>3, <1>4, <1>5 DEF Next

(* ControllerInv holds before the Run is started.                           *)
LEMMA ControllerInvInit == Init => ControllerInv
<1> SUFFICES ASSUME Init
             PROVE  ControllerInv
  OBVIOUS
<1>1. LogInv
  BY LogAssumption DEF Init, LogInit, LogInv, LogTypeOK, NothingFollows, Statuses, WorkStates
<1>2. ReaderInv
  BY DEF Init, LogInit, StreamInit, ReaderInv, StreamTypeOK, ReaderType
<1>3. DesktopTypeOK
  <2>1. handler \in [Handlers -> Slot]
    BY IdleTyped DEF Init, DesktopInit
  <2>2. view \in [status: ViewStatuses, shown: SUBSET (1..MaxEvents)]
    BY DEF Init, DesktopInit, ViewStatuses
  <2>3. /\ cursor \in [last: 0..MaxEvents, seen: SUBSET (1..MaxEvents)]
        /\ failures \in 0..MaxFailures
    BY LogAssumption, ControllerAssumption DEF Init, DesktopInit
  <2> QED BY <2>1, <2>2, <2>3 DEF Init, DesktopInit, DesktopTypeOK, Slot
<1>4. \A h \in Handlers : handler[h].pc = "idle"
  BY DEF Init, DesktopInit, Idle
<1>5. Quiet /\ AnswerInv /\ CursorNeverSkips
  BY <1>4 DEF Init, DesktopInit, Quiet, Unpolled, AnswerInv, CursorNeverSkips, Handlers
<1> QED BY <1>1, <1>2, <1>3, <1>5 DEF ControllerInv, DesktopInv

(* ControllerInv holds in every reachable state.                            *)
LEMMA ControllerInvariant == Spec => []ControllerInv
<1>1. Init => ControllerInv
  BY ControllerInvInit
<1>2. ControllerInv /\ [Next]_vars => ControllerInv'
  BY ControllerInvNext
<1> QED BY <1>1, <1>2, PTL DEF Spec

----------------------------------------------------------------------------
(* The log, the reader and the desktop keep their types, however the reads, *)
(* the handlers and the sidecar's exit interleave.                          *)
THEOREM ControllerTypeCorrect == Spec => []TypeOK
<1>1. ControllerInv => TypeOK
  BY DEF ControllerInv, LogInv, ReaderInv, DesktopInv, TypeOK
<1> QED BY <1>1, ControllerInvariant, PTL

(* The cursor of the desktop never passes an event it has not received: for *)
(* every size of an answer, whatever polls and operations overlap.          *)
THEOREM CursorNeverSkipsProved == Spec => []CursorNeverSkips
<1>1. ControllerInv => CursorNeverSkips
  BY DEF ControllerInv, DesktopInv
<1> QED BY <1>1, ControllerInvariant, PTL

(* The stream ends by itself only at the outcome of the current attempt and *)
(* with everything delivered: for every batch size and every limit.         *)
THEOREM StreamEndsAtOutcomeProved == Spec => StreamEndsAtOutcome
<1>1. ControllerInv /\ [Next]_vars => [EndsAtOutcome]_<<logVars, streamVars>>
  BY ControllerInvNext
<1>2. ControllerInv /\ [Next]_vars =>
        [reader.pc # "ended" /\ reader'.pc = "ended" =>
           /\ reader.cursor >= Len(events)
           /\ events[Len(events)] \in TerminalEvents]_<<logVars, streamVars>>
  BY <1>1 DEF EndsAtOutcome
<1> QED BY <1>2, ControllerInvariant, PTL DEF Spec, StreamEndsAtOutcome
=============================================================================
