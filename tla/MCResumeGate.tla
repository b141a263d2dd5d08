---------------------------- MODULE MCResumeGate ----------------------------
EXTENDS ResumeGate

MCTasks == <<"first", "second">>

Plain == [versioned |-> TRUE, runs |-> {"this"}, target |-> "none", stages |-> {},
          permitted |-> TRUE, stray |-> FALSE, idempotent |-> FALSE,
          observed |-> <<"verified">>, action |-> "EXACT", confirmation |-> "none"]

MCRequests ==
  {[Plain EXCEPT !.action = action, !.confirmation = given] :
     action \in Actions \cup {"none"}, given \in {"none", "other", "bound"}}
  \cup {[Plain EXCEPT !.observed = seen, !.confirmation = "bound"] :
          seen \in {<<>>, <<"unknown">>, <<"mismatch">>}}
  \cup {[Plain EXCEPT !.runs = {"this", "other"}]}
=============================================================================
