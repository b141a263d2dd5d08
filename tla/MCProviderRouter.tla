-------------------------- MODULE MCProviderRouter --------------------------
(* Two requests share the router; a window of no ticks is a setting too.    *)
EXTENDS ProviderRouter, FiniteSets

ASSUME TwoRequests == Cardinality(Requests) = 2
=============================================================================
