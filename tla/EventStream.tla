---------------------------- MODULE EventStream ----------------------------
(***************************************************************************)
(* SqliteEventRepository.stream over the store's read_events and            *)
(* get_event_head: one reader follows the log of one Run while the Run      *)
(* goes on, the retention floor moves and the repository is closed.         *)
(*                                                                         *)
(* An event is its sequence number, its position in the log.  A read of    *)
(* the store is one step; the reader's consumer may take any time between   *)
(* two events, so everything may happen between two steps of the reader.    *)
(***************************************************************************)
EXTENDS RunLog

CONSTANTS
  BatchSize,  \* max_batch_size of the repository
  Limits,     \* the request limits tried; 0 stands for no limit
  MaxFloor    \* bound on the retention floor

ASSUME StreamAssumption ==
  BatchSize \in Nat \ {0} /\ Limits \subseteq Nat /\ MaxFloor \in Nat

VARIABLES
  floor,   \* run_event_heads.retained_from_sequence
  open,    \* whether the repository is open
  reader   \* the locals of _stream

streamVars == <<floor, open, reader>>

Endings == {"ended", "limit", "closed", "expired"}
ReaderType ==
  [pc: {"idle", "reading", "yielding", "checking", "waiting"} \cup Endings,
   cursor: Nat, batch: Nat, left: Nat]  \* left: 0 stands for no limit

StreamTypeOK == floor \in Nat /\ open \in BOOLEAN /\ reader \in ReaderType

----------------------------------------------------------------------------
(* get_event_head: the terminal event of the current attempt, 0 for none.   *)
LatestOf(S) == IF S = {} THEN 0 ELSE CHOOSE i \in S : \A j \in S : j <= i
PositionsOf(types) == {i \in DOMAIN events : events[i] \in types}
TerminalSequence ==
  LET resumed == LatestOf(PositionsOf({"run_resumed"}))
  IN  LatestOf({i \in PositionsOf(TerminalEvents) : i > resumed})

(* read_events after a cursor: refused below the floor, and otherwise the   *)
(* last position of the batch.                                              *)
Expired(cursor) == cursor < floor
Smaller(m, n) == IF m <= n THEN m ELSE n
BatchEnd(cursor, size) ==
  IF cursor > Len(events) THEN cursor ELSE Smaller(Len(events), cursor + size)

----------------------------------------------------------------------------
End(pc) == reader' = [pc |-> pc, cursor |-> 0, batch |-> 0, left |-> 0]
Goto(pc) == reader' = [reader EXCEPT !.pc = pc]

(* stream, asked for the events after a cursor: any number that is not      *)
(* negative, one beyond the log too (EventStreamRequest).                   *)
Connect(after, limit) ==
  /\ reader.pc = "idle"
  /\ open
  /\ reader' = [pc |-> "reading", cursor |-> after, batch |-> 0, left |-> limit]
  /\ UNCHANGED <<floor, open>>

(* The head of the loop, with the read it starts with.                      *)
ReadBatch ==
  /\ reader.pc = "reading"
  /\ LET size == IF reader.left = 0 THEN BatchSize ELSE Smaller(BatchSize, reader.left)
         last == BatchEnd(reader.cursor, size)
     IN  IF ~open THEN End("closed")
         ELSE IF Expired(reader.cursor) THEN End("expired")
         ELSE IF last = reader.cursor THEN Goto("waiting")
         ELSE reader' = [reader EXCEPT !.pc = "yielding", !.batch = last]
  /\ UNCHANGED <<floor, open>>

(* Where the loop goes on after an event that did not end the stream.       *)
Onward(cursor) ==
  IF reader.left = 1 THEN End("limit")
  ELSE LET more == cursor < reader.batch
       IN  reader' = [pc |-> IF more THEN "yielding" ELSE "reading",
                      cursor |-> cursor,
                      batch |-> IF more THEN reader.batch ELSE 0,
                      left |-> IF reader.left = 0 THEN 0 ELSE reader.left - 1]

YieldEvent ==
  /\ reader.pc = "yielding"
  /\ LET next == reader.cursor + 1
     IN  IF events[next] \in TerminalEvents
         THEN reader' = [reader EXCEPT !.pc = "checking", !.cursor = next]
         ELSE Onward(next)
  /\ UNCHANGED <<floor, open>>

(* The consumer asks on after a terminal event: is it still the last of its *)
(* attempt?                                                                 *)
EndsHere == TerminalSequence = reader.cursor
CheckTerminal ==
  /\ reader.pc = "checking"
  /\ IF ~open THEN End("closed")
     ELSE IF EndsHere THEN End("ended") ELSE Onward(reader.cursor)
  /\ UNCHANGED <<floor, open>>

(* Nothing to read: the second look at the head, then the sleep.            *)
EndsBehindAnyCursor == TerminalSequence # 0
EndsBehindStrictly == TerminalSequence # 0 /\ TerminalSequence < reader.cursor
EndsBehind == TerminalSequence # 0 /\ TerminalSequence <= reader.cursor
CheckHead ==
  /\ reader.pc = "waiting"
  /\ IF EndsBehind THEN End("ended") ELSE Goto("reading")
  /\ UNCHANGED <<floor, open>>

(* set_event_retention_floor, and the close that AgentService.close runs    *)
(* together with the store's in one turn of the event loop: a reader about  *)
(* to look at the head has not given that turn away.                        *)
RaiseFloor(n) ==
  /\ floor < n /\ n <= Len(events) /\ n <= MaxFloor
  /\ floor' = n
  /\ UNCHANGED <<open, reader>>

CloseRepository ==
  /\ open
  /\ reader.pc # "waiting"
  /\ open' = FALSE
  /\ UNCHANGED <<floor, reader>>

ReaderStep == ReadBatch \/ YieldEvent \/ CheckTerminal \/ CheckHead

StreamInit ==
  /\ floor = 0
  /\ open = TRUE
  /\ reader = [pc |-> "idle", cursor |-> 0, batch |-> 0, left |-> 0]

StreamNext ==
  \/ \E after \in 0..MaxEvents, limit \in Limits :
       status # "ABSENT" /\ Connect(after, limit)
  \/ ReaderStep
  \/ \E n \in 1..MaxFloor : RaiseFloor(n)
  \/ CloseRepository

----------------------------------------------------------------------------
(* Properties *)

(* The stream never ends by itself on an outcome that a resume has already  *)
(* reopened or before events it has not delivered: at that step no event    *)
(* follows the reader's cursor and the last one is terminal, although the   *)
(* log is read in batches and the head in a transaction of its own.         *)
StreamEndsAtOutcome ==
  [][reader.pc # "ended" /\ reader'.pc = "ended" =>
       /\ reader.cursor >= Len(events)
       /\ events[Len(events)] \in TerminalEvents]_<<logVars, streamVars>>

(* Once the Run's outcome is final a connected reader comes to an end.      *)
Decided == events # <<>> /\ events[Len(events)] \in TerminalEvents \ {"run_blocked"}
StreamEnds == (reader.pc # "idle" /\ Decided) ~> (reader.pc \in Endings)
=============================================================================
