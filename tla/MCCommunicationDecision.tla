---------------------- MODULE MCCommunicationDecision ----------------------
(* Model values of CommunicationDecision: one worker, the watchdog and two  *)
(* restarted supervisors, so that a claim can be lost twice.                *)
EXTENDS CommunicationDecision

CONSTANTS w, s, b1, b2, none
MCBoots == {b1, b2}
=============================================================================
