--------------------------- MODULE MemoryLearning ---------------------------
(***************************************************************************)
(* What a user said becomes a durable fact: learn_from_interaction of      *)
(* agent/services/memory_service.py, the policy of agent/memory/learning.py*)
(* and the write of agent/memory/persistence.py and long_term.py.          *)
(*                                                                         *)
(* A turn looks up what is stored for each of its candidates, asks the     *)
(* Provider for one proposal per candidate, and then authorizes and        *)
(* commits them one by one.  Turns of different Runs, the save_fact tool   *)
(* (in a worker thread) and a reset of the facts interleave at every       *)
(* await and every statement: sqlite3 opens no transaction for the SELECT  *)
(* of _persist_fact, so the row may change before its INSERT or UPDATE.    *)
(* What was looked up first is never looked up again.                      *)
(***************************************************************************)
EXTENDS Integers, Sequences, FiniteSets

CONSTANTS
  Turns,         \* the calls of learn_from_interaction
  Candidates,    \* Candidates[t]: the sequence of [key, value, vetoed] of t
  SourceOf,      \* SourceOf[t]: its source_ref (save_fact always uses one)
  NoRow          \* no stored row, no stored value

ASSUME CandidatesAssumption ==
  /\ DOMAIN Candidates = Turns /\ DOMAIN SourceOf = Turns
  /\ \A t \in Turns :
       /\ Candidates[t] \in Seq({Candidates[t][i] : i \in DOMAIN Candidates[t]})
       /\ \A i \in DOMAIN Candidates[t] : Candidates[t][i].vetoed \in BOOLEAN

VARIABLES
  facts,         \* the table: key -> row or NoRow
  lastId,        \* the AUTOINCREMENT sequence of its ids
  turn           \* the local variables of each call

vars == <<facts, lastId, turn>>

Keys == UNION {{c.key : c \in {Candidates[t][i] : i \in DOMAIN Candidates[t]}} :
               t \in Turns}
Values == UNION {{c.value : c \in {Candidates[t][i] : i \in DOMAIN Candidates[t]}} :
                 t \in Turns}
Rows == [id : Nat, value : Values, revision : Nat \ {0},
         source : {SourceOf[t] : t \in Turns}]
ASSUME NoRowAssumption == NoRow \notin Rows \cup Values

(* An action and whether the other fields of the proposal copy the evidence. *)
Proposals == [action : {"STORE", "UPDATE", "IGNORE"}, exact : BOOLEAN]
Receipts == [committed : {FALSE}] \cup
            [committed : {TRUE}, id : Nat, revision : Nat \ {0}]
NotCommitted == [committed |-> FALSE]
Committed(id, revision) == [committed |-> TRUE, id |-> id, revision |-> revision]

-----------------------------------------------------------------------------
(* The policy. *)

(* decide_memory_learning: "vetoed" stands for its guards on secrets,       *)
(* volatile and sensitive values, sources, scopes and types; what is stored *)
(* counts as the turn looked it up.                                         *)
Decision(c, existing) ==
  CASE c.vetoed \/ existing = c.value -> "IGNORE"
    [] ~c.vetoed /\ existing = NoRow  -> "STORE"
    [] OTHER                          -> "UPDATE"

(* [variant] The Provider has the last word.                                *)
AuthorizedOnTrust(c, existing, proposal) ==
  IF proposal.exact THEN proposal.action ELSE "IGNORE"

(* authorize_memory_learning_proposal: a proposal may give up a write the   *)
(* policy allows and may change nothing else.                               *)
Authorized(c, existing, proposal) ==
  IF proposal = [action |-> Decision(c, existing), exact |-> TRUE]
  THEN proposal.action ELSE "IGNORE"

-----------------------------------------------------------------------------
(* One call of learn_from_interaction. *)

Todo(t) == Candidates[t]
Current(t) == Todo(t)[Len(turn[t].receipts) + 1]
CurrentAction(t) ==
  LET n == Len(turn[t].receipts) + 1
  IN Authorized(Current(t), turn[t].existing[n], turn[t].proposals[n])

(* The pc of a turn whose list of results has become n long. *)
PhaseAfter(t, n, pc, next) == IF n = Len(Todo(t)) THEN next ELSE pc

(* get_fact of the next candidate; an error of sqlite reads as None. *)
Look(t) ==
  /\ turn[t].pc = "look"
  /\ \E seen \in {NoRow, LET row == facts[Todo(t)[Len(turn[t].existing) + 1].key]
                         IN IF row = NoRow THEN NoRow ELSE row.value} :
       turn' = [turn EXCEPT
         ![t].existing = Append(@, seen),
         ![t].pc = PhaseAfter(t, Len(turn[t].existing) + 1, "look", "propose")]
  /\ UNCHANGED <<facts, lastId>>

(* select_with_evidence: the structured answer, or the raw one after it     *)
(* failed.  The commits begin when the last proposal has come.              *)
Propose(t) ==
  /\ turn[t].pc = "propose"
  /\ \E proposal \in {p \in Proposals : p.action = "IGNORE" => p.exact} :
       turn' = [turn EXCEPT
         ![t].proposals = Append(@, proposal),
         ![t].pc = PhaseAfter(t, Len(turn[t].proposals) + 1, "propose", "commit")]
  /\ UNCHANGED <<facts, lastId>>

(* MemoryLearningSelectionError, the 15 s of FACT_EXTRACTION_TIMEOUT, or an *)
(* interruption of the Run at the await: the exception ends the call.       *)
Abort(t) ==
  /\ turn[t].pc = "propose"
  /\ turn' = [turn EXCEPT ![t].pc = "aborted"]
  /\ UNCHANGED <<facts, lastId>>

(* commit has its result for the current candidate. *)
Conclude(t, receipt) ==
  turn' = [turn EXCEPT
    ![t].receipts = Append(@, receipt),
    ![t].row = NoRow,
    ![t].pc = PhaseAfter(t, Len(turn[t].receipts) + 1, "commit", "done")]

(* An IGNORE writes nothing. *)
CommitNothing(t) ==
  /\ turn[t].pc = "commit" /\ CurrentAction(t) = "IGNORE"
  /\ Conclude(t, NotCommitted)
  /\ UNCHANGED <<facts, lastId>>

(* [variant] Evidence is recognized by its source alone.                    *)
SameSource(t, row) == row.source = SourceOf[t]

(* [variant] A STORE may replace too.                                       *)
MayReplaceAnyway(t) == TRUE

(* The SELECT of _persist_fact settles the commit when it finds this very   *)
(* evidence (its receipt again) or a row that a STORE must not touch.       *)
SameEvidence(t, row) == row.source = SourceOf[t] /\ row.value = Current(t).value
MayReplace(t) == CurrentAction(t) = "UPDATE"

SelectRow(t) ==
  LET row == facts[Current(t).key]
  IN /\ turn[t].pc = "commit" /\ CurrentAction(t) # "IGNORE"
     /\ \/ /\ row # NoRow /\ SameEvidence(t, row)
           /\ Conclude(t, Committed(row.id, row.revision))
        \/ /\ row # NoRow /\ ~SameEvidence(t, row) /\ ~MayReplace(t)
           /\ Conclude(t, NotCommitted)
        \/ /\ row # NoRow => ~SameEvidence(t, row) /\ MayReplace(t)
           /\ turn' = [turn EXCEPT ![t].row = row, ![t].pc = "write"]
     /\ UNCHANGED <<facts, lastId>>

(* An error of sqlite in the SELECT or the write becomes evidence. *)
CommitFails(t) ==
  /\ \/ turn[t].pc = "commit" /\ CurrentAction(t) # "IGNORE"
     \/ turn[t].pc = "write"
  /\ Conclude(t, NotCommitted)
  /\ UNCHANGED <<facts, lastId>>

(* The SELECT found no row: INSERT, which the UNIQUE constraint refuses if  *)
(* one has been inserted since.                                             *)
Insertable(k) == facts[k] = NoRow
InsertRow(t) ==
  LET k == Current(t).key
  IN /\ turn[t].pc = "write" /\ turn[t].row = NoRow
     /\ IF Insertable(k)
        THEN /\ lastId' = lastId + 1
             /\ facts' = [facts EXCEPT ![k] =
                  [id |-> lastId + 1, value |-> Current(t).value, revision |-> 1,
                   source |-> SourceOf[t]]]
             /\ Conclude(t, Committed(lastId + 1, 1))
        ELSE Conclude(t, NotCommitted) /\ UNCHANGED <<facts, lastId>>

(* UPDATE ... WHERE id: nothing if that row is gone, and a receipt anyway. *)
UpdateRow(t) ==
  LET k == Current(t).key
      next == turn[t].row.revision + 1
  IN /\ turn[t].pc = "write" /\ turn[t].row # NoRow
     /\ facts' = IF facts[k] # NoRow /\ facts[k].id = turn[t].row.id
                 THEN [facts EXCEPT ![k].value = Current(t).value,
                                    ![k].revision = next,
                                    ![k].source = SourceOf[t]]
                 ELSE facts
     /\ Conclude(t, Committed(turn[t].row.id, next))
     /\ UNCHANGED lastId

(* clear_facts, by MemoryRuntime.reset(facts=True). *)
Forget ==
  /\ \E k \in Keys : facts[k] # NoRow
  /\ facts' = [k \in Keys |-> NoRow]
  /\ UNCHANGED <<lastId, turn>>

(* The process of a call ends between two of its statements. *)
Crash(t) ==
  /\ turn[t].pc \notin {"done", "aborted"}
  /\ turn' = [turn EXCEPT ![t].pc = "aborted", ![t].row = NoRow]
  /\ UNCHANGED <<facts, lastId>>

Step(t) == \/ Look(t) \/ Propose(t) \/ Abort(t)
           \/ CommitNothing(t) \/ SelectRow(t) \/ CommitFails(t)
           \/ InsertRow(t) \/ UpdateRow(t)

Init ==
  /\ facts = [k \in Keys |-> NoRow]
  /\ lastId = 0
  /\ turn = [t \in Turns |->
       [pc |-> IF Todo(t) = <<>> THEN "done" ELSE "look", existing |-> <<>>,
        proposals |-> <<>>, receipts |-> <<>>, row |-> NoRow]]

Next == Forget \/ \E t \in Turns : Step(t) \/ Crash(t)

Spec == Init /\ [][Next]_vars

-----------------------------------------------------------------------------
(* The table has at most one row per key, and a call one list per loop.      *)
Phases == {"look", "propose", "commit", "write", "done", "aborted"}
MemoryTypeOK ==
  /\ facts \in [Keys -> Rows \cup {NoRow}]
  /\ lastId \in Nat
  /\ turn \in [Turns ->
       [pc : Phases, existing : Seq(Values \cup {NoRow}), proposals : Seq(Proposals),
        receipts : Seq(Receipts), row : Rows \cup {NoRow}]]

(* The turns and candidates a row can come from. *)
Origins(k, row) ==
  UNION {{<<t, i>> : i \in {j \in DOMAIN Todo(t) :
     SourceOf[t] = row.source /\ Todo(t)[j].key = k /\ Todo(t)[j].value = row.value}} :
   t \in Turns}

(* A Provider can decline a write and never cause one, and no turn is       *)
(* learned in part because its Provider failed, ran out of time or was      *)
(* interrupted ("Complete every Provider proposal before the first durable  *)
(* write"): what is stored comes from a turn that had all its proposals,    *)
(* one of them for exactly this write, of a value the policy does not veto. *)
StoredWasAuthorized ==
  \A k \in Keys : facts[k] # NoRow =>
    \E o \in Origins(k, facts[k]) :
      LET asked == turn[o[1]].proposals
      IN  /\ Len(asked) = Len(Todo(o[1]))
          /\ ~Todo(o[1])[o[2]].vetoed
          /\ asked[o[2]].exact /\ asked[o[2]].action # "IGNORE"

(* A value is replaced only by a turn that had seen some stored value of    *)
(* that key: a failed lookup or a concurrent first write never loses one.   *)
OverwriteWasKnown ==
  [][\A k \in Keys :
       facts[k] # NoRow /\ facts'[k] # NoRow /\ facts'[k].value # facts[k].value =>
         /\ facts'[k].id = facts[k].id
         /\ \E o \in Origins(k, facts'[k]) :
              o[2] \in DOMAIN turn[o[1]].existing /\ turn[o[1]].existing[o[2]] # NoRow]_vars

(* A receipt that says "committed" names a value that is in the table when  *)
(* it is given, unless that row has been forgotten since it was selected.   *)
ReceiptIsTruthful ==
  [][\A t \in Turns :
       LET n == Len(turn'[t].receipts)
           k == Todo(t)[n].key
       IN n > Len(turn[t].receipts) /\ turn'[t].receipts[n].committed =>
            \/ facts'[k] # NoRow /\ facts'[k].value = Todo(t)[n].value
            \/ turn[t].row # NoRow /\
                 (facts[k] = NoRow \/ facts[k].id # turn[t].row.id)]_vars

=============================================================================
