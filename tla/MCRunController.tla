--------------------------- MODULE MCRunController ---------------------------
(* Small instances of RunController for TLC.                                *)
EXTENDS RunController, TLC
=============================================================================
