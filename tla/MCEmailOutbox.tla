--------------------------- MODULE MCEmailOutbox ---------------------------
(***************************************************************************)
(* The instance of OutboxRetry for model checking.  The keys and processes *)
(* are model values; liveness is checked, so there is no symmetry.         *)
(***************************************************************************)
EXTENDS OutboxRetry
=============================================================================
