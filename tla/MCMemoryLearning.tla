-------------------------- MODULE MCMemoryLearning --------------------------
(* Three calls of save_fact for one user: they share a source, one says    *)
(* what another says too, and one carries a value the policy vetoes.       *)
EXTENDS MemoryLearning

Told(k, v) == [key |-> k, value |-> v, vetoed |-> FALSE]
Secret(k, v) == [key |-> k, value |-> v, vetoed |-> TRUE]

MCTurns == {"t1", "t2", "t3"}
MCCandidates ==
  [t1 |-> <<Told("name", "x"), Secret("token", "x")>>,
   t2 |-> <<Told("name", "y")>>,
   t3 |-> <<Told("name", "x")>>]
MCSourceOf == [t1 |-> "s1", t2 |-> "s1", t3 |-> "s1"]
=============================================================================
