------------------------ MODULE MemoryLearningProofs ------------------------
(***************************************************************************)
(* Proofs about MemoryLearning, for every number of turns and candidates:   *)
(* its types, StoredWasAuthorized, OverwriteWasKnown and ReceiptIsTruthful. *)
(***************************************************************************)
EXTENDS MemoryLearning, TLAPS

Turn == [pc : Phases, existing : Seq(Values \cup {NoRow}), proposals : Seq(Proposals),
         receipts : Seq(Receipts), row : Rows \cup {NoRow}]

(* The decision on the candidate that follows the receipts of a call q.     *)
ActionOf(t, q) ==
  LET n == Len(q.receipts) + 1
  IN Authorized(Todo(t)[n], q.existing[n], q.proposals[n])

(* How far each of the three loops of a call q has come in each phase, and  *)
(* what the SELECT of the current candidate has established by the write.   *)
InStepOf(t, q) ==
  /\ q.pc = "look" =>
       /\ Len(q.existing) < Len(Todo(t))
       /\ Len(q.proposals) = 0 /\ Len(q.receipts) = 0
  /\ q.pc = "propose" =>
       /\ Len(q.existing) = Len(Todo(t)) /\ Len(q.proposals) < Len(Todo(t))
       /\ Len(q.receipts) = 0
  /\ q.pc \in {"commit", "write"} =>
       /\ Len(q.existing) = Len(Todo(t)) /\ Len(q.proposals) = Len(Todo(t))
       /\ Len(q.receipts) < Len(Todo(t))
  /\ q.pc = "write" =>
       /\ ActionOf(t, q) # "IGNORE"
       /\ q.row # NoRow => ActionOf(t, q) = "UPDATE"

InStep == \A t \in Turns : InStepOf(t, turn[t])

(* Candidate i of turn t was proposed as a write, by a call that had asked  *)
(* for all its proposals.                                                   *)
Asked(t, i) ==
  /\ Len(turn[t].proposals) = Len(Todo(t))
  /\ ~Todo(t)[i].vetoed
  /\ turn[t].proposals[i].exact /\ turn[t].proposals[i].action # "IGNORE"

(* Every stored row has such a candidate behind it. *)
RowsBacked ==
  \A k \in Keys : facts[k] # NoRow =>
    \E t \in Turns : \E i \in DOMAIN Todo(t) :
      /\ SourceOf[t] = facts[k].source
      /\ Todo(t)[i].key = k /\ Todo(t)[i].value = facts[k].value
      /\ Asked(t, i)

MemoryInv == MemoryTypeOK /\ InStep /\ RowsBacked

(* A candidate list is a sequence whose keys and values are those of the    *)
(* table.                                                                   *)
LEMMA CandidateTyped ==
  ASSUME NEW t \in Turns
  PROVE  /\ Len(Todo(t)) \in Nat /\ DOMAIN Todo(t) = 1..Len(Todo(t))
         /\ Todo(t) # <<>> => Len(Todo(t)) > 0
         /\ \A i \in DOMAIN Todo(t) :
              /\ Todo(t)[i].key \in Keys /\ Todo(t)[i].value \in Values
              /\ Todo(t)[i].vetoed \in BOOLEAN
<1> DEFINE S == {Candidates[t][i] : i \in DOMAIN Candidates[t]}
<1>1. Candidates[t] \in Seq(S) /\ \A i \in DOMAIN Candidates[t] : Candidates[t][i].vetoed \in BOOLEAN
  BY CandidatesAssumption
<1>2. \A i \in DOMAIN Candidates[t] : Candidates[t][i] \in S
  OBVIOUS
<1>3. \A c \in S : c.key \in Keys /\ c.value \in Values
  BY DEF Keys, Values
<1> HIDE DEF S
<1>4. /\ Len(Candidates[t]) \in Nat /\ DOMAIN Candidates[t] = 1..Len(Candidates[t])
      /\ Candidates[t] # <<>> => Len(Candidates[t]) > 0
  BY <1>1
<1> QED BY <1>1, <1>2, <1>3, <1>4 DEF Todo

(* What the policy lets through is an exact proposal of a write, and an     *)
(* UPDATE only where the lookup found something.                            *)
LEMMA PolicyHolds ==
  ASSUME NEW c, c.vetoed \in BOOLEAN, c.value # NoRow, NEW existing, NEW proposal \in Proposals,
         Authorized(c, existing, proposal) # "IGNORE"
  PROVE  /\ ~c.vetoed
         /\ proposal.exact /\ proposal.action # "IGNORE"
         /\ Authorized(c, existing, proposal) \in {"STORE", "UPDATE"}
         /\ Authorized(c, existing, proposal) = "UPDATE" => existing # NoRow
<1>1. /\ proposal = [action |-> Decision(c, existing), exact |-> TRUE]
      /\ Authorized(c, existing, proposal) = proposal.action
  BY DEF Authorized
<1>2. proposal.exact = TRUE /\ proposal.action = Decision(c, existing)
  BY <1>1
<1>3. Decision(c, existing) # "IGNORE"
  BY <1>1, <1>2
<1>4. CASE c.vetoed \/ existing = c.value
  <2>1. Decision(c, existing) = "IGNORE"
    BY <1>4 DEF Decision
  <2> QED BY <1>3, <2>1
<1>5. CASE ~c.vetoed /\ existing # c.value /\ existing = NoRow
  <2>1. Decision(c, existing) = "STORE"
    BY <1>5 DEF Decision
  <2> QED BY <1>1, <1>2, <1>5, <2>1
<1>6. CASE ~c.vetoed /\ existing # c.value /\ existing # NoRow
  <2>1. Decision(c, existing) = "UPDATE"
    BY <1>6 DEF Decision
  <2> QED BY <1>1, <1>2, <1>6, <2>1
<1> QED BY <1>4, <1>5, <1>6

(* The origins of a row are the candidates that say what it says. *)
LEMMA OriginsAre ==
  ASSUME NEW k, NEW row, NEW t \in Turns, NEW i \in DOMAIN Todo(t),
         SourceOf[t] = row.source, Todo(t)[i].key = k, Todo(t)[i].value = row.value
  PROVE  <<t, i>> \in Origins(k, row)
BY DEF Origins

(* An origin of a row is a proposal of its key and value by a turn of its   *)
(* source.                                                                  *)
LEMMA OriginsOnly ==
  ASSUME NEW k, NEW row, NEW o \in Origins(k, row)
  PROVE  \E t \in Turns : \E i \in DOMAIN Todo(t) :
           /\ o = <<t, i>>
           /\ SourceOf[t] = row.source /\ Todo(t)[i].key = k /\ Todo(t)[i].value = row.value
BY DEF Origins

(* A list grows by one at its end. *)
LEMMA AppendOne ==
  ASSUME NEW S, NEW s \in Seq(S), NEW e \in S
  PROVE  /\ Append(s, e) \in Seq(S)
         /\ Len(Append(s, e)) = Len(s) + 1 /\ Len(s) \in Nat
         /\ Append(s, e)[Len(s) + 1] = e
         /\ \A i \in 1..Len(s) : Append(s, e)[i] = s[i]
OBVIOUS

(* One call moves on. *)
LEMMA OneCallMoves ==
  ASSUME MemoryTypeOK, InStep, NEW t \in Turns, NEW new \in Turn, InStepOf(t, new),
         turn' = [turn EXCEPT ![t] = new]
  PROVE  /\ turn' \in [Turns -> Turn]
         /\ InStep'
         /\ turn'[t] = new /\ \A s \in Turns \ {t} : turn'[s] = turn[s]
<1>1. turn \in [Turns -> Turn]
  BY DEF MemoryTypeOK, Turn
<1>2. /\ turn' \in [Turns -> Turn]
      /\ turn'[t] = new /\ \A s \in Turns \ {t} : turn'[s] = turn[s]
  BY <1>1
<1>3. \A s \in Turns : InStepOf(s, turn'[s])
  BY <1>2 DEF InStep
<1> QED BY <1>2, <1>3 DEF InStep

(* Complete proposals stay, and what was asked stays asked. *)
LEMMA AskedStays ==
  ASSUME NEW s \in Turns, NEW i,
         Len(turn[s].proposals) = Len(Todo(s)) => turn'[s].proposals = turn[s].proposals,
         Asked(s, i)
  PROVE  Asked(s, i)'
BY DEF Asked, Todo

(* Rows stay backed when only calls move and rows are forgotten.            *)
LEMMA BackedStays ==
  ASSUME RowsBacked,
         \A s \in Turns : Len(turn[s].proposals) = Len(Todo(s)) =>
                            turn'[s].proposals = turn[s].proposals,
         \A k \in Keys : facts'[k] # NoRow => facts'[k] = facts[k]
  PROVE  RowsBacked'
<1> SUFFICES ASSUME NEW k \in Keys, facts'[k] # NoRow
             PROVE \E t \in Turns : \E i \in DOMAIN Todo(t) :
                     /\ SourceOf[t] = facts'[k].source
                     /\ Todo(t)[i].key = k /\ Todo(t)[i].value = facts'[k].value
                     /\ Asked(t, i)'
  BY DEF RowsBacked, Todo
<1>0. PICK t \in Turns : \E i \in DOMAIN Todo(t) :
        /\ SourceOf[t] = facts[k].source
        /\ Todo(t)[i].key = k /\ Todo(t)[i].value = facts[k].value
        /\ Asked(t, i)
  BY DEF RowsBacked
<1>1. PICK i \in DOMAIN Todo(t) :
        /\ SourceOf[t] = facts[k].source
        /\ Todo(t)[i].key = k /\ Todo(t)[i].value = facts[k].value
        /\ Asked(t, i)
  BY <1>0
<1>2. Asked(t, i)'
  BY <1>1, AskedStays
<1> QED BY <1>1, <1>2

(* The candidate of a call that is about to write.                          *)
LEMMA CurrentIsAsked ==
  ASSUME MemoryTypeOK, InStep, NEW t \in Turns, turn[t].pc \in {"commit", "write"},
         CurrentAction(t) # "IGNORE"
  PROVE  /\ Len(turn[t].receipts) + 1 \in DOMAIN Todo(t)
         /\ Current(t).key \in Keys /\ Current(t).value \in Values
         /\ Asked(t, Len(turn[t].receipts) + 1)
         /\ CurrentAction(t) = "UPDATE" =>
              /\ Len(turn[t].receipts) + 1 \in DOMAIN turn[t].existing
              /\ turn[t].existing[Len(turn[t].receipts) + 1] # NoRow
<1> DEFINE n == Len(turn[t].receipts) + 1
<1>1. turn[t] \in Turn /\ InStepOf(t, turn[t])
  BY DEF MemoryTypeOK, Turn, InStep
<1>2. /\ turn[t].existing \in Seq(Values \cup {NoRow})
      /\ turn[t].proposals \in Seq(Proposals)
      /\ turn[t].receipts \in Seq(Receipts)
  BY <1>1 DEF Turn
<1>3. /\ Len(turn[t].existing) = Len(Todo(t)) /\ Len(turn[t].proposals) = Len(Todo(t))
      /\ Len(turn[t].receipts) < Len(Todo(t))
  BY <1>1 DEF InStepOf
<1>4. /\ Len(Todo(t)) \in Nat /\ DOMAIN Todo(t) = 1..Len(Todo(t))
      /\ \A i \in DOMAIN Todo(t) :
           /\ Todo(t)[i].key \in Keys /\ Todo(t)[i].value \in Values
           /\ Todo(t)[i].vetoed \in BOOLEAN
  BY CandidateTyped
<1>5. n \in 1..Len(Todo(t))
  BY <1>2, <1>3, <1>4
<1>6. /\ n \in DOMAIN Todo(t) /\ n \in DOMAIN turn[t].existing
      /\ turn[t].proposals[n] \in Proposals
  BY <1>2, <1>3, <1>4, <1>5
<1>7. /\ Todo(t)[n].key \in Keys /\ Todo(t)[n].value \in Values
      /\ Todo(t)[n].vetoed \in BOOLEAN
  BY <1>4, <1>6
<1>8. Authorized(Todo(t)[n], turn[t].existing[n], turn[t].proposals[n]) # "IGNORE"
  BY DEF CurrentAction, Current
<1>9. Todo(t)[n].value # NoRow
  BY <1>7, NoRowAssumption
<1> HIDE DEF n
<1>10. /\ ~Todo(t)[n].vetoed
       /\ turn[t].proposals[n].exact /\ turn[t].proposals[n].action # "IGNORE"
       /\ Authorized(Todo(t)[n], turn[t].existing[n], turn[t].proposals[n]) = "UPDATE" =>
            turn[t].existing[n] # NoRow
  BY <1>6, <1>7, <1>8, <1>9, PolicyHolds
<1>11. Asked(t, n)
  BY <1>3, <1>10 DEF Asked
<1> QED BY <1>6, <1>7, <1>10, <1>11 DEF n, CurrentAction, Current

(* A call concludes a candidate. *)
LEMMA ConcludeMoves ==
  ASSUME MemoryTypeOK, InStep, NEW t \in Turns, turn[t].pc \in {"commit", "write"},
         NEW receipt \in Receipts, Conclude(t, receipt)
  PROVE  /\ turn' \in [Turns -> Turn] /\ InStep'
         /\ \A s \in Turns : turn'[s].proposals = turn[s].proposals
         /\ \A s \in Turns \ {t} : turn'[s] = turn[s]
         /\ Len(turn'[t].receipts) = Len(turn[t].receipts) + 1
         /\ turn'[t].receipts[Len(turn[t].receipts) + 1] = receipt
<1> DEFINE n == Len(turn[t].receipts) + 1
           new == [turn[t] EXCEPT !.receipts = Append(turn[t].receipts, receipt), !.row = NoRow,
                                  !.pc = PhaseAfter(t, n, "commit", "done")]
<1>1. turn \in [Turns -> Turn] /\ turn[t] \in Turn /\ InStepOf(t, turn[t])
  BY DEF MemoryTypeOK, Turn, InStep
<1>2. turn' = [turn EXCEPT ![t] = new]
  BY <1>1 DEF Conclude, Turn
<1>3. /\ Append(turn[t].receipts, receipt) \in Seq(Receipts)
      /\ Len(Append(turn[t].receipts, receipt)) = n
      /\ Append(turn[t].receipts, receipt)[n] = receipt
      /\ Len(turn[t].receipts) \in Nat
  BY <1>1, AppendOne DEF Turn
<1>4. Len(Todo(t)) \in Nat
  BY CandidateTyped
<1>5. PhaseAfter(t, n, "commit", "done") = IF n = Len(Todo(t)) THEN "done" ELSE "commit"
  BY DEF PhaseAfter
<1>6. new \in Turn
  BY <1>1, <1>3, <1>5 DEF Turn, Phases
<1>7. /\ new.pc = IF n = Len(Todo(t)) THEN "done" ELSE "commit"
      /\ new.existing = turn[t].existing /\ new.proposals = turn[t].proposals
      /\ Len(new.receipts) = n /\ new.receipts[n] = receipt
  BY <1>1, <1>3, <1>5 DEF Turn
<1>8. /\ Len(turn[t].existing) = Len(Todo(t)) /\ Len(turn[t].proposals) = Len(Todo(t))
      /\ Len(turn[t].receipts) < Len(Todo(t))
  BY <1>1 DEF InStepOf
<1> HIDE DEF new
<1>9. new.pc = "commit" => Len(new.receipts) < Len(Todo(t))
  BY <1>3, <1>4, <1>7, <1>8
<1>10. InStepOf(t, new)
  BY <1>7, <1>8, <1>9 DEF InStepOf
<1>11. turn' \in [Turns -> Turn] /\ InStep'
       /\ turn'[t] = new /\ \A s \in Turns \ {t} : turn'[s] = turn[s]
  BY <1>2, <1>6, <1>10, OneCallMoves
<1> QED BY <1>7, <1>11

(* Every behaviour starts with the invariant. *)
LEMMA InitMemory == Init => MemoryInv
<1> SUFFICES ASSUME Init PROVE MemoryInv
  OBVIOUS
<1>1. ASSUME NEW t \in Turns
      PROVE /\ turn[t].pc = IF Todo(t) = <<>> THEN "done" ELSE "look"
            /\ Len(turn[t].existing) = 0
            /\ Len(turn[t].proposals) = 0 /\ Len(turn[t].receipts) = 0
  BY DEF Init
<1>2. MemoryTypeOK
  BY DEF Init, MemoryTypeOK, Phases
<1>3. ASSUME NEW t \in Turns PROVE InStepOf(t, turn[t])
  <2>1. CASE Todo(t) = <<>>
    BY <1>1, <2>1 DEF InStepOf
  <2>2. CASE Todo(t) # <<>>
    <3>1. Len(Todo(t)) > 0 /\ Len(Todo(t)) \in Nat
      BY <2>2, CandidateTyped
    <3>2. turn[t].pc = "look" /\ Len(turn[t].existing) < Len(Todo(t))
      BY <1>1, <2>2, <3>1
    <3> QED BY <1>1, <3>2 DEF InStepOf
  <2> QED BY <2>1, <2>2
<1>4. InStep
  BY <1>3 DEF InStep
<1>5. RowsBacked
  BY DEF Init, RowsBacked
<1> QED BY <1>2, <1>4, <1>5 DEF MemoryInv

(* What the SELECT and the statement after it do to the table.              *)
LEMMA WriteBacked ==
  ASSUME MemoryInv, NEW t \in Turns, turn[t].pc = "write",
         \A s \in Turns : turn'[s].proposals = turn[s].proposals,
         NEW row \in Rows, row.value = Current(t).value, row.source = SourceOf[t],
         facts' = [facts EXCEPT ![Current(t).key] = row]
  PROVE  RowsBacked' /\ facts' \in [Keys -> Rows \cup {NoRow}]
<1>1. CurrentAction(t) # "IGNORE"
  BY DEF MemoryInv, InStep, InStepOf, ActionOf, CurrentAction, Current
<1>2. PICK n \in DOMAIN Todo(t) :
        Current(t).key \in Keys /\ Asked(t, n) /\ Current(t) = Todo(t)[n]
  BY <1>1, CurrentIsAsked DEF MemoryInv, Current
<1>3. facts \in [Keys -> Rows \cup {NoRow}]
  BY DEF MemoryInv, MemoryTypeOK
<1>4. facts' \in [Keys -> Rows \cup {NoRow}]
  BY <1>2, <1>3
<1>5. ASSUME NEW k \in Keys, facts'[k] # NoRow
      PROVE \E s \in Turns : \E i \in DOMAIN Todo(s) :
              /\ SourceOf[s] = facts'[k].source
              /\ Todo(s)[i].key = k /\ Todo(s)[i].value = facts'[k].value
              /\ Asked(s, i)'
  <2>1. CASE k = Current(t).key
    <3>1. facts'[k] = row
      BY <1>3, <2>1
    <3>2. Asked(t, n)'
      BY <1>2, AskedStays
    <3> QED BY <1>2, <2>1, <3>1, <3>2
  <2>2. CASE k # Current(t).key
    <3>1. facts'[k] = facts[k] /\ facts[k] # NoRow
      BY <1>2, <1>3, <1>5, <2>2
    <3>2. PICK s \in Turns : \E i \in DOMAIN Todo(s) :
            /\ SourceOf[s] = facts[k].source
            /\ Todo(s)[i].key = k /\ Todo(s)[i].value = facts[k].value
            /\ Asked(s, i)
      BY <3>1 DEF MemoryInv, RowsBacked
    <3>3. PICK i \in DOMAIN Todo(s) :
            /\ SourceOf[s] = facts[k].source
            /\ Todo(s)[i].key = k /\ Todo(s)[i].value = facts[k].value
            /\ Asked(s, i)
      BY <3>2
    <3>4. Asked(s, i)'
      BY <3>3, AskedStays
    <3> QED BY <3>1, <3>3, <3>4
  <2> QED BY <2>1, <2>2
<1> QED BY <1>4, <1>5 DEF RowsBacked, Todo

(* A lookup or a proposal of a call. *)
LEMMA LookMoves ==
  ASSUME MemoryTypeOK, InStep, NEW t \in Turns, Look(t)
  PROVE  /\ turn' \in [Turns -> Turn] /\ InStep'
         /\ \A s \in Turns : turn'[s].proposals = turn[s].proposals
         /\ \A s \in Turns : turn'[s].receipts = turn[s].receipts
<1>1. turn \in [Turns -> Turn] /\ turn[t] \in Turn /\ InStepOf(t, turn[t])
  BY DEF MemoryTypeOK, Turn, InStep
<1> DEFINE m == Len(turn[t].existing) + 1
           stored == facts[Todo(t)[m].key]
<1>2. PICK seen \in {NoRow, IF stored = NoRow THEN NoRow ELSE stored.value} :
        turn' = [turn EXCEPT ![t].existing = Append(@, seen),
                             ![t].pc = PhaseAfter(t, m, "look", "propose")]
  BY DEF Look
<1> DEFINE new == [turn[t] EXCEPT !.existing = Append(turn[t].existing, seen),
                                  !.pc = PhaseAfter(t, m, "look", "propose")]
<1>3. turn' = [turn EXCEPT ![t] = new]
  BY <1>1, <1>2 DEF Turn
<1>4. /\ turn[t].pc = "look" /\ Len(turn[t].existing) < Len(Todo(t))
      /\ Len(turn[t].proposals) = 0 /\ Len(turn[t].receipts) = 0
      /\ turn[t].existing \in Seq(Values \cup {NoRow})
  BY <1>1 DEF Look, InStepOf, Turn
<1>5. Len(Todo(t)) \in Nat /\ DOMAIN Todo(t) = 1..Len(Todo(t))
      /\ \A i \in DOMAIN Todo(t) : Todo(t)[i].key \in Keys
  BY CandidateTyped
<1>6. m \in DOMAIN Todo(t)
  BY <1>4, <1>5
<1>7. stored \in Rows \cup {NoRow}
  BY <1>5, <1>6 DEF MemoryTypeOK
<1>8. seen \in Values \cup {NoRow}
  BY <1>7 DEF Rows
<1>9. /\ Append(turn[t].existing, seen) \in Seq(Values \cup {NoRow})
      /\ Len(Append(turn[t].existing, seen)) = m
  BY <1>4, <1>8, AppendOne
<1>10. PhaseAfter(t, m, "look", "propose") = IF m = Len(Todo(t)) THEN "propose" ELSE "look"
  BY DEF PhaseAfter
<1>11. new \in Turn
  BY <1>1, <1>9, <1>10 DEF Turn, Phases
<1>12. /\ new.pc = IF m = Len(Todo(t)) THEN "propose" ELSE "look"
       /\ Len(new.existing) = m
       /\ new.proposals = turn[t].proposals /\ new.receipts = turn[t].receipts
  BY <1>1, <1>4, <1>9, <1>10 DEF Turn
<1> HIDE DEF new
<1>13. Len(turn[t].existing) \in Nat /\ Len(Todo(t)) \in Nat
  BY <1>4, <1>5
<1>14. m <= Len(Todo(t)) /\ (m # Len(Todo(t)) => m < Len(Todo(t)))
  BY <1>4, <1>13
<1> HIDE DEF m
<1>15. new.pc = "look" => Len(new.existing) < Len(Todo(t))
  BY <1>12, <1>14
<1>16. new.pc = "propose" => /\ Len(new.existing) = Len(Todo(t)) /\ Len(new.proposals) = 0
                            /\ Len(new.proposals) < Len(Todo(t))
  BY <1>4, <1>5, <1>12, <1>13
<1>17. InStepOf(t, new)
  BY <1>4, <1>12, <1>15, <1>16 DEF InStepOf
<1>18. turn' \in [Turns -> Turn] /\ InStep'
       /\ turn'[t] = new /\ \A s \in Turns \ {t} : turn'[s] = turn[s]
  BY <1>3, <1>11, <1>17, OneCallMoves
<1> QED BY <1>4, <1>12, <1>18

(* A proposal is added to one turn and changes no complete list of          *)
(* proposals.                                                               *)
LEMMA ProposeMoves ==
  ASSUME MemoryTypeOK, InStep, NEW t \in Turns, Propose(t)
  PROVE  /\ turn' \in [Turns -> Turn] /\ InStep'
         /\ \A s \in Turns : Len(turn[s].proposals) = Len(Todo(s)) =>
                               turn'[s].proposals = turn[s].proposals
         /\ \A s \in Turns : turn'[s].receipts = turn[s].receipts
<1>1. turn \in [Turns -> Turn] /\ turn[t] \in Turn /\ InStepOf(t, turn[t])
  BY DEF MemoryTypeOK, Turn, InStep
<1> DEFINE m == Len(turn[t].proposals) + 1
<1>2. PICK proposal \in Proposals :
        turn' = [turn EXCEPT ![t].proposals = Append(@, proposal),
                             ![t].pc = PhaseAfter(t, m, "propose", "commit")]
  BY DEF Propose
<1> DEFINE new == [turn[t] EXCEPT !.proposals = Append(turn[t].proposals, proposal),
                                  !.pc = PhaseAfter(t, m, "propose", "commit")]
<1>3. turn' = [turn EXCEPT ![t] = new]
  BY <1>1, <1>2 DEF Turn
<1>4. /\ turn[t].pc = "propose" /\ Len(turn[t].existing) = Len(Todo(t))
      /\ Len(turn[t].proposals) < Len(Todo(t)) /\ Len(turn[t].receipts) = 0
      /\ turn[t].proposals \in Seq(Proposals)
  BY <1>1 DEF Propose, InStepOf, Turn
<1>5. Len(Todo(t)) \in Nat
  BY CandidateTyped
<1>6. /\ Append(turn[t].proposals, proposal) \in Seq(Proposals)
      /\ Len(Append(turn[t].proposals, proposal)) = m
  BY <1>4, AppendOne
<1>7. PhaseAfter(t, m, "propose", "commit") = IF m = Len(Todo(t)) THEN "commit" ELSE "propose"
  BY DEF PhaseAfter
<1>8. new \in Turn
  BY <1>1, <1>6, <1>7 DEF Turn, Phases
<1>9. /\ new.pc = IF m = Len(Todo(t)) THEN "commit" ELSE "propose"
      /\ Len(new.existing) = Len(Todo(t)) /\ Len(new.proposals) = m
      /\ new.receipts = turn[t].receipts
  BY <1>1, <1>4, <1>6, <1>7 DEF Turn
<1> HIDE DEF new
<1>10. new.pc = "propose" => Len(new.proposals) < Len(Todo(t))
  BY <1>4, <1>5, <1>9
<1>11. new.pc = "commit" => Len(new.proposals) = Len(Todo(t)) /\ Len(new.receipts) < Len(Todo(t))
  BY <1>4, <1>5, <1>9
<1>12. InStepOf(t, new)
  BY <1>4, <1>9, <1>10, <1>11 DEF InStepOf
<1>13. turn' \in [Turns -> Turn] /\ InStep'
       /\ turn'[t] = new /\ \A s \in Turns \ {t} : turn'[s] = turn[s]
  BY <1>3, <1>8, <1>12, OneCallMoves
<1>14. Len(turn[t].proposals) # Len(Todo(t))
  BY <1>4, <1>5
<1> QED BY <1>4, <1>9, <1>13, <1>14

(* A call ends where it is, or the SELECT of a candidate leads to its write. *)
LEMMA EndMoves ==
  ASSUME MemoryTypeOK, InStep, NEW t \in Turns, Abort(t) \/ Crash(t)
  PROVE  /\ turn' \in [Turns -> Turn] /\ InStep'
         /\ \A s \in Turns : turn'[s].proposals = turn[s].proposals
         /\ \A s \in Turns : turn'[s].receipts = turn[s].receipts
<1>1. turn \in [Turns -> Turn] /\ turn[t] \in Turn
  BY DEF MemoryTypeOK, Turn
<1>2. PICK row \in Rows \cup {NoRow} : turn' = [turn EXCEPT ![t] = [turn[t] EXCEPT !.pc = "aborted", !.row = row]]
  <2>1. CASE Abort(t)
    <3>1. [turn[t] EXCEPT !.pc = "aborted"] = [turn[t] EXCEPT !.pc = "aborted", !.row = turn[t].row]
      BY <1>1 DEF Turn
    <3>2. turn' = [turn EXCEPT ![t] = [turn[t] EXCEPT !.pc = "aborted"]]
      BY <2>1, <1>1 DEF Abort
    <3> QED BY <1>1, <3>1, <3>2 DEF Turn
  <2>2. CASE Crash(t)
    <3>1. turn' = [turn EXCEPT ![t] = [turn[t] EXCEPT !.pc = "aborted", !.row = NoRow]]
      BY <2>2, <1>1 DEF Crash, Turn
    <3> QED BY <3>1
  <2> QED BY <2>1, <2>2
<1> DEFINE new == [turn[t] EXCEPT !.pc = "aborted", !.row = row]
<1>3. new \in Turn
  BY <1>1 DEF Turn, Phases
<1>4. new.pc = "aborted" /\ new.proposals = turn[t].proposals /\ new.receipts = turn[t].receipts
  BY <1>1 DEF Turn
<1> HIDE DEF new
<1>5. InStepOf(t, new)
  BY <1>4 DEF InStepOf
<1>6. turn' \in [Turns -> Turn] /\ InStep'
      /\ turn'[t] = new /\ \A s \in Turns \ {t} : turn'[s] = turn[s]
  BY <1>2, <1>3, <1>5, OneCallMoves DEF new
<1> QED BY <1>4, <1>6

(* What the SELECT of a commit leaves for the write behind it.              *)
LEMMA SelectMoves ==
  ASSUME MemoryTypeOK, InStep, NEW t \in Turns, turn[t].pc = "commit",
         CurrentAction(t) # "IGNORE",
         NEW row \in Rows \cup {NoRow}, row # NoRow => CurrentAction(t) = "UPDATE",
         turn' = [turn EXCEPT ![t].row = row, ![t].pc = "write"]
  PROVE  /\ turn' \in [Turns -> Turn] /\ InStep'
         /\ \A s \in Turns : turn'[s].proposals = turn[s].proposals
         /\ \A s \in Turns : turn'[s].receipts = turn[s].receipts
<1>1. turn \in [Turns -> Turn] /\ turn[t] \in Turn /\ InStepOf(t, turn[t])
  BY DEF MemoryTypeOK, Turn, InStep
<1> DEFINE new == [turn[t] EXCEPT !.row = row, !.pc = "write"]
<1>2. turn' = [turn EXCEPT ![t] = new]
  BY <1>1 DEF Turn
<1>3. new \in Turn
  BY <1>1 DEF Turn, Phases
<1>4. /\ new.pc = "write" /\ new.row = row
      /\ new.existing = turn[t].existing /\ new.proposals = turn[t].proposals
      /\ new.receipts = turn[t].receipts
  BY <1>1 DEF Turn
<1> HIDE DEF new
<1>5. ActionOf(t, new) = CurrentAction(t)
  BY <1>4 DEF ActionOf, CurrentAction, Current
<1>6. InStepOf(t, new)
  BY <1>1, <1>4, <1>5 DEF InStepOf
<1>7. turn' \in [Turns -> Turn] /\ InStep'
      /\ turn'[t] = new /\ \A s \in Turns \ {t} : turn'[s] = turn[s]
  BY <1>2, <1>3, <1>6, OneCallMoves
<1> QED BY <1>4, <1>7

(* The row of an UPDATE. *)
Updated(t, row, next) ==
  [row EXCEPT !.value = Current(t).value, !.revision = next, !.source = SourceOf[t]]

(* The two writes: the current candidate's row and its receipt, or neither  *)
(* a row nor, for an INSERT, a receipt.                                     *)
LEMMA InsertWrites ==
  ASSUME MemoryInv, NEW t \in Turns, InsertRow(t)
  PROVE  \/ /\ UNCHANGED <<facts, lastId>> /\ Conclude(t, NotCommitted)
         \/ \E row \in Rows :
              /\ facts[Current(t).key] = NoRow
              /\ row.value = Current(t).value /\ row.source = SourceOf[t]
              /\ facts' = [facts EXCEPT ![Current(t).key] = row]
              /\ lastId' = lastId + 1
              /\ Conclude(t, Committed(row.id, row.revision))
<1>1. CurrentAction(t) # "IGNORE" /\ turn[t].pc = "write"
  BY DEF InsertRow, MemoryInv, InStep, InStepOf, ActionOf, CurrentAction, Current
<1>2. Current(t).key \in Keys /\ Current(t).value \in Values
  BY <1>1, CurrentIsAsked DEF MemoryInv
<1>3. CASE Insertable(Current(t).key)
  <2> DEFINE row == [id |-> lastId + 1, value |-> Current(t).value, revision |-> 1,
                     source |-> SourceOf[t]]
  <2>1. row \in Rows
    BY <1>2 DEF Rows, MemoryInv, MemoryTypeOK
  <2>2. /\ lastId' = lastId + 1 /\ facts' = [facts EXCEPT ![Current(t).key] = row]
        /\ Conclude(t, Committed(row.id, row.revision))
    BY <1>3 DEF InsertRow
  <2> QED BY <1>3, <2>1, <2>2 DEF Insertable
<1>4. CASE ~Insertable(Current(t).key)
  BY <1>4 DEF InsertRow
<1> QED BY <1>3, <1>4

(* An UPDATE writes the row it was chosen for, or finds it forgotten and    *)
(* writes nothing.                                                          *)
LEMMA UpdateWrites ==
  ASSUME MemoryInv, NEW t \in Turns, UpdateRow(t)
  PROVE  /\ UNCHANGED lastId
         /\ turn[t].row \in Rows /\ turn[t].row # NoRow
         /\ Conclude(t, Committed(turn[t].row.id, turn[t].row.revision + 1))
         /\ \/ /\ facts' = facts
               /\ \/ facts[Current(t).key] = NoRow
                  \/ facts[Current(t).key].id # turn[t].row.id
            \/ \E row \in Rows :
                 /\ facts[Current(t).key] # NoRow
                 /\ row.id = facts[Current(t).key].id
                 /\ row.value = Current(t).value /\ row.source = SourceOf[t]
                 /\ facts' = [facts EXCEPT ![Current(t).key] = row]
<1>1. CurrentAction(t) # "IGNORE" /\ turn[t].pc = "write"
  BY DEF UpdateRow, MemoryInv, InStep, InStepOf, ActionOf, CurrentAction, Current
<1>2. Current(t).key \in Keys /\ Current(t).value \in Values
  BY <1>1, CurrentIsAsked DEF MemoryInv
<1>3. /\ turn[t].row \in Rows /\ turn[t].row # NoRow
      /\ turn[t].row.revision + 1 \in Nat \ {0}
  BY NoRowAssumption DEF UpdateRow, MemoryInv, MemoryTypeOK, Rows
<1> DEFINE k == Current(t).key
           next == turn[t].row.revision + 1
<1>4. UNCHANGED lastId /\ Conclude(t, Committed(turn[t].row.id, next))
  BY DEF UpdateRow
<1>5. CASE facts[k] # NoRow /\ facts[k].id = turn[t].row.id
  <2>1. facts \in [Keys -> Rows \cup {NoRow}] /\ facts[k] \in Rows
    BY <1>2, <1>5 DEF MemoryInv, MemoryTypeOK
  <2>2. facts' = [facts EXCEPT ![k] = Updated(t, facts[k], next)]
    BY <1>2, <1>5, <2>1 DEF UpdateRow, Updated, Rows
  <2>3. /\ Updated(t, facts[k], next) \in Rows
        /\ Updated(t, facts[k], next).id = facts[k].id
        /\ Updated(t, facts[k], next).value = Current(t).value
        /\ Updated(t, facts[k], next).source = SourceOf[t]
    BY <1>2, <1>3, <2>1 DEF Updated, Rows
  <2> QED BY <1>3, <1>4, <1>5, <2>2, <2>3
<1>6. CASE ~(facts[k] # NoRow /\ facts[k].id = turn[t].row.id)
  <2>1. facts' = facts
    BY <1>6 DEF UpdateRow
  <2> QED BY <1>3, <1>4, <1>6, <2>1
<1> QED BY <1>5, <1>6

(* A receipt is one of the receipts. *)
LEMMA ReceiptTyped ==
  /\ NotCommitted \in Receipts
  /\ \A id \in Nat, revision \in Nat \ {0} :
       /\ Committed(id, revision) \in Receipts
       /\ Committed(id, revision).committed = TRUE
  /\ NotCommitted.committed = FALSE
BY DEF NotCommitted, Committed, Receipts

(* What a step of the commit loop does to the calls.                        *)
LEMMA CommitMoves ==
  ASSUME MemoryInv, NEW t \in Turns,
         CommitNothing(t) \/ SelectRow(t) \/ CommitFails(t) \/ InsertRow(t) \/ UpdateRow(t)
  PROVE  /\ turn' \in [Turns -> Turn] /\ InStep'
         /\ \A s \in Turns : turn'[s].proposals = turn[s].proposals
<1>1. CASE CommitNothing(t) \/ CommitFails(t)
  BY <1>1, ConcludeMoves, ReceiptTyped DEF MemoryInv, CommitNothing, CommitFails
<1>2. CASE SelectRow(t)
  <2> DEFINE row == facts[Current(t).key]
  <2>1. turn[t].pc = "commit" /\ CurrentAction(t) # "IGNORE"
    BY <1>2 DEF SelectRow
  <2>2. row \in Rows \cup {NoRow}
    BY <2>1, CurrentIsAsked DEF MemoryInv, MemoryTypeOK
  <2>3. CASE row # NoRow /\ Conclude(t, Committed(row.id, row.revision))
    <3>1. Committed(row.id, row.revision) \in Receipts
      BY <2>2, <2>3, ReceiptTyped DEF Rows
    <3> QED BY <2>1, <2>3, <3>1, ConcludeMoves DEF MemoryInv
  <2>4. CASE Conclude(t, NotCommitted)
    BY <2>1, <2>4, ConcludeMoves, ReceiptTyped DEF MemoryInv
  <2>5. CASE /\ row # NoRow => MayReplace(t)
             /\ turn' = [turn EXCEPT ![t].row = row, ![t].pc = "write"]
    <3>1. row # NoRow => CurrentAction(t) = "UPDATE"
      BY <2>5 DEF MayReplace
    <3> QED BY <2>1, <2>2, <2>5, <3>1, SelectMoves DEF MemoryInv
  <2> QED BY <1>2, <2>3, <2>4, <2>5 DEF SelectRow
<1>3. CASE InsertRow(t)
  <2>1. turn[t].pc = "write"
    BY <1>3 DEF InsertRow
  <2>2. PICK receipt \in Receipts : Conclude(t, receipt)
    BY <1>3, InsertWrites, ReceiptTyped DEF Rows
  <2> QED BY <2>1, <2>2, ConcludeMoves DEF MemoryInv
<1>4. CASE UpdateRow(t)
  <2>1. turn[t].pc = "write"
    BY <1>4 DEF UpdateRow
  <2>2. turn[t].row.id \in Nat /\ turn[t].row.revision + 1 \in Nat \ {0}
    BY <1>4, UpdateWrites DEF Rows
  <2>3. PICK receipt \in Receipts : Conclude(t, receipt)
    BY <1>4, <2>2, UpdateWrites, ReceiptTyped
  <2> QED BY <2>1, <2>3, ConcludeMoves DEF MemoryInv
<1> QED BY <1>1, <1>2, <1>3, <1>4

(* A step of a call adds at most one row to the table or changes one.       *)
LEMMA TableMoves ==
  ASSUME MemoryInv, NEW t \in Turns, Step(t)
  PROVE  \/ UNCHANGED <<facts, lastId>>
         \/ /\ turn[t].pc = "write" /\ (InsertRow(t) \/ UpdateRow(t))
            /\ lastId' \in Nat
            /\ \E row \in Rows :
                 /\ row.value = Current(t).value /\ row.source = SourceOf[t]
                 /\ facts' = [facts EXCEPT ![Current(t).key] = row]
<1>1. CASE Look(t) \/ Propose(t) \/ Abort(t) \/ CommitNothing(t) \/ SelectRow(t) \/ CommitFails(t)
  BY <1>1 DEF Look, Propose, Abort, CommitNothing, SelectRow, CommitFails
<1>2. CASE InsertRow(t)
  <2>1. turn[t].pc = "write" /\ lastId + 1 \in Nat
    BY <1>2 DEF InsertRow, MemoryInv, MemoryTypeOK
  <2> QED BY <1>2, <2>1, InsertWrites
<1>3. CASE UpdateRow(t)
  <2>1. turn[t].pc = "write" /\ lastId \in Nat
    BY <1>3 DEF UpdateRow, MemoryInv, MemoryTypeOK
  <2> QED BY <1>3, <2>1, UpdateWrites
<1> QED BY <1>1, <1>2, <1>3 DEF Step

(* Every step keeps the invariant. *)
LEMMA NextMemory == MemoryInv /\ [Next]_vars => MemoryInv'
<1> SUFFICES ASSUME MemoryInv, [Next]_vars PROVE MemoryInv'
  OBVIOUS
<1>1. ASSUME NEW t \in Turns, Step(t) PROVE MemoryInv'
  <2>1. /\ turn' \in [Turns -> Turn] /\ InStep'
        /\ \A s \in Turns : Len(turn[s].proposals) = Len(Todo(s)) =>
                              turn'[s].proposals = turn[s].proposals
    BY <1>1, LookMoves, ProposeMoves, EndMoves, CommitMoves DEF Step, MemoryInv
  <2>2. CASE UNCHANGED <<facts, lastId>>
    <3>1. RowsBacked'
      BY <2>1, <2>2, BackedStays DEF MemoryInv
    <3> QED BY <2>1, <2>2, <3>1 DEF MemoryInv, MemoryTypeOK, Turn
  <2>3. CASE /\ turn[t].pc = "write" /\ (InsertRow(t) \/ UpdateRow(t))
             /\ lastId' \in Nat
             /\ \E row \in Rows :
                  /\ row.value = Current(t).value /\ row.source = SourceOf[t]
                  /\ facts' = [facts EXCEPT ![Current(t).key] = row]
    <3>1. \A s \in Turns : turn'[s].proposals = turn[s].proposals
      BY <2>3, CommitMoves
    <3>2. PICK row \in Rows :
            /\ row.value = Current(t).value /\ row.source = SourceOf[t]
            /\ facts' = [facts EXCEPT ![Current(t).key] = row]
      BY <2>3
    <3>3. RowsBacked' /\ facts' \in [Keys -> Rows \cup {NoRow}]
      BY <2>3, <3>1, <3>2, WriteBacked
    <3> QED BY <2>1, <2>3, <3>3 DEF MemoryInv, MemoryTypeOK, Turn
  <2> QED BY <1>1, <2>2, <2>3, TableMoves
<1>2. ASSUME NEW t \in Turns, Crash(t) PROVE MemoryInv'
  <2>1. /\ turn' \in [Turns -> Turn] /\ InStep'
        /\ \A s \in Turns : turn'[s].proposals = turn[s].proposals
    BY <1>2, EndMoves DEF MemoryInv
  <2>2. UNCHANGED <<facts, lastId>>
    BY <1>2 DEF Crash
  <2>3. RowsBacked'
    BY <2>1, <2>2, BackedStays DEF MemoryInv
  <2> QED BY <2>1, <2>2, <2>3 DEF MemoryInv, MemoryTypeOK, Turn
<1>3. CASE Forget
  <2>1. facts' = [k \in Keys |-> NoRow] /\ UNCHANGED <<lastId, turn>>
    BY <1>3 DEF Forget
  <2>2. RowsBacked'
    BY <2>1 DEF RowsBacked
  <2>3. MemoryTypeOK'
    BY <2>1 DEF MemoryInv, MemoryTypeOK
  <2>4. InStep'
    BY <2>1 DEF MemoryInv, InStep
  <2> QED BY <2>2, <2>3, <2>4 DEF MemoryInv
<1>4. CASE UNCHANGED vars
  <2>1. UNCHANGED <<facts, lastId, turn>>
    BY <1>4 DEF vars
  <2>2. MemoryTypeOK' /\ InStep'
    BY <2>1 DEF MemoryInv, MemoryTypeOK, InStep
  <2>3. RowsBacked'
    BY <2>1, BackedStays DEF MemoryInv
  <2> QED BY <2>2, <2>3 DEF MemoryInv
<1> QED BY <1>1, <1>2, <1>3, <1>4 DEF Next

(* MemoryInv holds in every reachable state.                                *)
LEMMA MemoryInvariant == Spec => []MemoryInv
<1> QED BY InitMemory, NextMemory, PTL DEF Spec

(* The tables, lists and rows of the learning calls keep their types.       *)
THEOREM MemoryTypeCorrect == Spec => []MemoryTypeOK
<1>1. MemoryInv => MemoryTypeOK
  BY DEF MemoryInv
<1> QED BY <1>1, MemoryInvariant, PTL

(* No Provider causes a write, and no turn is learned in part: every stored *)
(* row is a candidate the policy does not veto, of a call that had all its  *)
(* proposals, one of them for exactly this write.                           *)
THEOREM StoredWasAuthorizedProved == Spec => []StoredWasAuthorized
<1>1. ASSUME MemoryInv PROVE StoredWasAuthorized
  <2> SUFFICES ASSUME NEW k \in Keys, facts[k] # NoRow
               PROVE \E o \in Origins(k, facts[k]) :
                       LET asked == turn[o[1]].proposals
                       IN  /\ Len(asked) = Len(Todo(o[1]))
                           /\ ~Todo(o[1])[o[2]].vetoed
                           /\ asked[o[2]].exact /\ asked[o[2]].action # "IGNORE"
    BY DEF StoredWasAuthorized
  <2>1. PICK t \in Turns : \E i \in DOMAIN Todo(t) :
          /\ SourceOf[t] = facts[k].source
          /\ Todo(t)[i].key = k /\ Todo(t)[i].value = facts[k].value
          /\ Asked(t, i)
    BY <1>1 DEF MemoryInv, RowsBacked
  <2>2. PICK i \in DOMAIN Todo(t) :
          /\ SourceOf[t] = facts[k].source
          /\ Todo(t)[i].key = k /\ Todo(t)[i].value = facts[k].value
          /\ Asked(t, i)
    BY <2>1
  <2> DEFINE o == <<t, i>>
  <2>3. o \in Origins(k, facts[k])
    BY <2>2, OriginsAre
  <2>4. o[1] = t /\ o[2] = i
    OBVIOUS
  <2> HIDE DEF o
  <2> QED BY <2>2, <2>3, <2>4 DEF Asked
<1> QED BY <1>1, MemoryInvariant, PTL

(* A value is replaced only by a turn whose lookup had found some stored    *)
(* value of that key.                                                       *)
THEOREM OverwriteWasKnownProved == Spec => OverwriteWasKnown
<1> DEFINE Known(k) ==
      facts[k] # NoRow /\ facts'[k] # NoRow /\ facts'[k].value # facts[k].value =>
        /\ facts'[k].id = facts[k].id
        /\ \E o \in Origins(k, facts'[k]) :
             o[2] \in DOMAIN turn[o[1]].existing /\ turn[o[1]].existing[o[2]] # NoRow
<1>1. ASSUME MemoryInv, [Next]_vars, NEW k \in Keys PROVE Known(k)
  <2>1. CASE UNCHANGED vars \/ Forget \/ \E t \in Turns : Crash(t)
    BY <2>1 DEF vars, Forget, Crash
  <2>2. ASSUME NEW t \in Turns, Step(t) PROVE Known(k)
    <3> DEFINE n == Len(turn[t].receipts) + 1
    <3>1. CASE facts' = facts
      BY <3>1
    <3>2. CASE InsertRow(t) /\ facts' # facts
      BY <1>1, <3>2, InsertWrites DEF MemoryInv, MemoryTypeOK
    <3>3. CASE UpdateRow(t) /\ facts' # facts
      <4>1. PICK row \in Rows :
              /\ facts[Current(t).key] # NoRow
              /\ row.id = facts[Current(t).key].id
              /\ row.value = Current(t).value /\ row.source = SourceOf[t]
              /\ facts' = [facts EXCEPT ![Current(t).key] = row]
        BY <1>1, <3>3, UpdateWrites
      <4>2. CASE k # Current(t).key
        BY <4>1, <4>2, <1>1 DEF MemoryInv, MemoryTypeOK
      <4>3. CASE k = Current(t).key
        <5>1. /\ turn[t].pc = "write" /\ CurrentAction(t) = "UPDATE"
          BY <1>1, <3>3 DEF UpdateRow, MemoryInv, InStep, InStepOf, ActionOf, CurrentAction, Current
        <5>2. /\ n \in DOMAIN Todo(t) /\ Current(t) = Todo(t)[n]
              /\ n \in DOMAIN turn[t].existing /\ turn[t].existing[n] # NoRow
          BY <1>1, <5>1, CurrentIsAsked DEF MemoryInv, Current
        <5>3. facts'[k] = row
          BY <1>1, <4>1, <4>3 DEF MemoryInv, MemoryTypeOK
        <5> HIDE DEF n
        <5>4. <<t, n>> \in Origins(k, facts'[k])
          BY <4>1, <4>3, <5>2, <5>3, OriginsAre
        <5> QED BY <4>1, <4>3, <5>2, <5>3, <5>4
      <4> QED BY <4>2, <4>3
    <3> QED BY <1>1, <2>2, <3>1, <3>2, <3>3, TableMoves
  <2> QED BY <1>1, <2>1, <2>2 DEF Next
<1>2. MemoryInv /\ [Next]_vars => [\A k \in Keys : Known(k)]_vars
  BY <1>1
<1> QED BY <1>2, MemoryInvariant, PTL DEF Spec, OverwriteWasKnown

(* A receipt that says "committed" names a value that is in the table when  *)
(* it is given, unless that row has been forgotten since it was selected.   *)
THEOREM ReceiptIsTruthfulProved == Spec => ReceiptIsTruthful
<1> DEFINE Truthful(t) ==
      LET n == Len(turn'[t].receipts)
          k == Todo(t)[n].key
      IN n > Len(turn[t].receipts) /\ turn'[t].receipts[n].committed =>
           \/ facts'[k] # NoRow /\ facts'[k].value = Todo(t)[n].value
           \/ turn[t].row # NoRow /\
                (facts[k] = NoRow \/ facts[k].id # turn[t].row.id)
<1>1. ASSUME MemoryInv, NEW s \in Turns, turn'[s].receipts = turn[s].receipts
      PROVE Truthful(s)
  <2>1. Len(turn[s].receipts) \in Nat
    BY <1>1 DEF MemoryInv, MemoryTypeOK
  <2> QED BY <1>1, <2>1
<1>2. ASSUME MemoryInv, NEW t \in Turns, turn[t].pc \in {"commit", "write"},
             NEW receipt \in Receipts, Conclude(t, receipt),
             receipt.committed =>
               LET k == Current(t).key
               IN \/ facts'[k] # NoRow /\ facts'[k].value = Current(t).value
                  \/ turn[t].row # NoRow /\
                       (facts[k] = NoRow \/ facts[k].id # turn[t].row.id),
             NEW s \in Turns
      PROVE Truthful(s)
  <2>1. /\ \A r \in Turns \ {t} : turn'[r] = turn[r]
        /\ Len(turn'[t].receipts) = Len(turn[t].receipts) + 1
        /\ turn'[t].receipts[Len(turn[t].receipts) + 1] = receipt
    BY <1>2, ConcludeMoves DEF MemoryInv
  <2>2. CASE s # t
    BY <1>1, <1>2, <2>1, <2>2
  <2>3. CASE s = t
    BY <1>2, <2>1, <2>3 DEF Current
  <2> QED BY <2>2, <2>3
<1>3. ASSUME MemoryInv, NEW t \in Turns, SelectRow(t), NEW s \in Turns PROVE Truthful(s)
  <2> DEFINE row == facts[Current(t).key]
  <2>1. turn[t].pc = "commit" /\ CurrentAction(t) # "IGNORE" /\ UNCHANGED facts
    BY <1>3 DEF SelectRow
  <2>2. row \in Rows \cup {NoRow}
    BY <1>3, <2>1, CurrentIsAsked DEF MemoryInv, MemoryTypeOK
  <2>3. CASE row # NoRow /\ SameEvidence(t, row) /\ Conclude(t, Committed(row.id, row.revision))
    <3>1. Committed(row.id, row.revision) \in Receipts
      BY <2>2, <2>3, ReceiptTyped DEF Rows
    <3>2. facts'[Current(t).key] # NoRow /\ facts'[Current(t).key].value = Current(t).value
      BY <2>1, <2>3 DEF SameEvidence
    <3> QED BY <1>2, <1>3, <2>1, <2>3, <3>1, <3>2
  <2>4. CASE Conclude(t, NotCommitted)
    BY <1>2, <1>3, <2>1, <2>4, ReceiptTyped
  <2>5. CASE /\ row # NoRow => MayReplace(t)
             /\ turn' = [turn EXCEPT ![t].row = row, ![t].pc = "write"]
    <3>1. row # NoRow => CurrentAction(t) = "UPDATE"
      BY <2>5 DEF MayReplace
    <3>2. turn'[s].receipts = turn[s].receipts
      BY <1>3, <2>1, <2>2, <2>5, <3>1, SelectMoves DEF MemoryInv
    <3> QED BY <1>1, <1>3, <3>2
  <2> QED BY <1>3, <2>3, <2>4, <2>5 DEF SelectRow
<1>4. ASSUME MemoryInv, NEW t \in Turns, InsertRow(t), NEW s \in Turns PROVE Truthful(s)
  <2>1. turn[t].pc = "write" /\ CurrentAction(t) # "IGNORE"
    BY <1>4 DEF InsertRow, MemoryInv, InStep, InStepOf, ActionOf, CurrentAction, Current
  <2>2. Current(t).key \in Keys /\ facts \in [Keys -> Rows \cup {NoRow}]
    BY <1>4, <2>1, CurrentIsAsked DEF MemoryInv, MemoryTypeOK
  <2>3. CASE Conclude(t, NotCommitted)
    BY <1>2, <1>4, <2>1, <2>3, ReceiptTyped
  <2>4. CASE \E row \in Rows :
              /\ row.value = Current(t).value
              /\ facts' = [facts EXCEPT ![Current(t).key] = row]
              /\ Conclude(t, Committed(row.id, row.revision))
    <3>1. PICK row \in Rows :
              /\ row.value = Current(t).value
              /\ facts' = [facts EXCEPT ![Current(t).key] = row]
              /\ Conclude(t, Committed(row.id, row.revision))
      BY <2>4
    <3>2. Committed(row.id, row.revision) \in Receipts
      BY ReceiptTyped DEF Rows
    <3>3. facts'[Current(t).key] # NoRow /\ facts'[Current(t).key].value = Current(t).value
      BY <2>2, <3>1, NoRowAssumption
    <3> QED BY <1>2, <1>4, <2>1, <3>1, <3>2, <3>3
  <2> QED BY <1>4, <2>3, <2>4, InsertWrites
<1>5. ASSUME MemoryInv, NEW t \in Turns, UpdateRow(t), NEW s \in Turns PROVE Truthful(s)
  <2>1. turn[t].pc = "write" /\ CurrentAction(t) # "IGNORE"
    BY <1>5 DEF UpdateRow, MemoryInv, InStep, InStepOf, ActionOf, CurrentAction, Current
  <2>2. Current(t).key \in Keys /\ facts \in [Keys -> Rows \cup {NoRow}]
    BY <1>5, <2>1, CurrentIsAsked DEF MemoryInv, MemoryTypeOK
  <2>3. /\ turn[t].row # NoRow
        /\ turn[t].row.id \in Nat /\ turn[t].row.revision + 1 \in Nat \ {0}
        /\ Conclude(t, Committed(turn[t].row.id, turn[t].row.revision + 1))
    BY <1>5, UpdateWrites DEF Rows
  <2>4. Committed(turn[t].row.id, turn[t].row.revision + 1) \in Receipts
    BY <2>3, ReceiptTyped
  <2>5. \/ facts[Current(t).key] = NoRow \/ facts[Current(t).key].id # turn[t].row.id
        \/ facts'[Current(t).key] # NoRow /\ facts'[Current(t).key].value = Current(t).value
    BY <1>5, <2>2, UpdateWrites, NoRowAssumption
  <2> QED BY <1>2, <1>5, <2>1, <2>3, <2>4, <2>5
<1>6. ASSUME MemoryInv, [Next]_vars, NEW s \in Turns PROVE Truthful(s)
  <2>1. ASSUME NEW t \in Turns, Look(t) \/ Propose(t) \/ Abort(t) \/ Crash(t) PROVE Truthful(s)
    BY <1>1, <1>6, <2>1, LookMoves, ProposeMoves, EndMoves DEF MemoryInv
  <2>2. ASSUME NEW t \in Turns, CommitNothing(t) \/ CommitFails(t) PROVE Truthful(s)
    <3>1. turn[t].pc \in {"commit", "write"} /\ Conclude(t, NotCommitted)
      BY <2>2 DEF CommitNothing, CommitFails
    <3> QED BY <1>2, <1>6, <3>1, ReceiptTyped
  <2>3. CASE Forget \/ UNCHANGED vars
    BY <1>1, <1>6, <2>3 DEF Forget, vars
  <2> QED BY <1>3, <1>4, <1>5, <1>6, <2>1, <2>2, <2>3 DEF Next, Step
<1>7. MemoryInv /\ [Next]_vars => [\A t \in Turns : Truthful(t)]_vars
  BY <1>6
<1> QED BY <1>7, MemoryInvariant, PTL DEF Spec, ReceiptIsTruthful

=============================================================================
