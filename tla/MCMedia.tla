------------------------------ MODULE MCMedia ------------------------------
(***************************************************************************)
(* The media server for TLC: the deadline of one session, the sessions     *)
(* with their ports, routes and records, and the publishers of the ingress *)
(* server. A behaviour is about one of them; the others rest in an initial *)
(* state.                                                                  *)
(***************************************************************************)
EXTENDS MediaDeadline, MediaIngress, MediaSessions

VARIABLE scene   \* the component this behaviour is about

MediaInit ==
    /\ scene \in {"deadline", "ingress", "sessions"}
    /\ Init
    /\ scene # "deadline" => skew = 0
    /\ IngressInit
    /\ SessionsInit
    /\ scene # "sessions" => redisLink = "ok"

DeadlineStep == scene = "deadline" /\ Next /\ UNCHANGED <<scene, ingressVars, sessionVars>>
IngressStep == scene = "ingress" /\ IngressNext /\ UNCHANGED <<scene, vars, sessionVars>>
SessionsStep == scene = "sessions" /\ SessionsNext /\ UNCHANGED <<scene, vars, ingressVars>>
MediaNext == DeadlineStep \/ IngressStep \/ SessionsStep
MediaSpec == MediaInit /\ [][MediaNext]_<<scene, vars, ingressVars, sessionVars>>

=============================================================================
