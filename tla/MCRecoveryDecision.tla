------------------------- MODULE MCRecoveryDecision -------------------------
(* Small instances of the supervisor decision: two helper runs, one of      *)
(* them started at boot.                                                    *)
EXTENDS RecoveryDecision
=============================================================================
