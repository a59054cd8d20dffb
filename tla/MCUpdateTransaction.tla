------------------------ MODULE MCUpdateTransaction ------------------------
(* Small instances of one update operation.                                 *)
EXTENDS UpdateTransaction
=============================================================================
