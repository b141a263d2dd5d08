------------------------- MODULE MCWorkflowRecovery -------------------------
EXTENDS WorkflowRecovery

MCStages == <<"pure", "file", "effect">>

Plain == [action |-> "EXACT", observed |-> <<>>, confirmation |-> "none", checkpoint |-> 0]

MCRequests ==
  {Plain,
   [Plain EXCEPT !.observed = <<"unknown">>],
   [Plain EXCEPT !.observed = <<"mismatch">>],
   [Plain EXCEPT !.confirmation = "bound"],
   [Plain EXCEPT !.checkpoint = 1],
   [Plain EXCEPT !.action = "REPLAY"],
   [Plain EXCEPT !.action = "REPLAN"]}
=============================================================================
