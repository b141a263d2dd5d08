---------------------------- MODULE MCAgentLoop ----------------------------
(* One file, and turns in which safe calls meet a barrier.                  *)
EXTENDS AgentLoop

CONSTANT a

Call(tool) == [tool |-> tool, path |-> a]
MCTurns ==
  {<<Call(t)>> : t \in Tools \ SafeTools}
    \cup {<<Call("read"), Call("read"), Call("write")>>,
          <<Call("read"), Call("search")>>,
          <<Call("search"), Call("command"), Call("read")>>}
MCRequests ==
  {[deliver |-> {a}, outcomes |-> {"FILE_MUTATION"}],
   [deliver |-> {a}, outcomes |-> {"FILE_MUTATION", "COMMAND_EXECUTION"}],
   [deliver |-> {}, outcomes |-> {"COMMAND_EXECUTION", "FILE_READ"}]}
=============================================================================
