--------------------------- MODULE MCDbTransaction --------------------------
(* One thread's transaction beside another's, whose connection is not lost. *)
EXTENDS DbTransaction
=============================================================================
