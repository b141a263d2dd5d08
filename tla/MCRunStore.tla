----------------------------- MODULE MCRunStore -----------------------------
(* Small instances of RunStore for TLC.                                     *)
EXTENDS RunStore, TLC

CONSTANTS r1, r2, s1, w1, w2, k1, k2

OneSession == [r \in Runs |-> s1]

(* Writers are interchangeable, and so are keys and the Runs of a session.  *)
Symmetry == Permutations(Runs) \cup Permutations(Writers) \cup Permutations(Keys)
=============================================================================
