---------------------------- MODULE MCSupervisor ----------------------------
(***************************************************************************)
(* The supervisor for TLC: the enrollment of a certificate by l4pin, the   *)
(* cycle of the orchestrator, and the watch over the communication window. *)
(* A behaviour is about one of them.                                       *)
(***************************************************************************)
EXTENDS Enrollment, CommWatch

AllFaults == {"crash", "lost", "csr", "save", "late", "key", "profile", "delete",
              "clear", "expire"}
TwoDevices == <<"a", "b">>

VARIABLE scene   \* the component this behaviour is about

\* Orchestrator
VARIABLES store, newest, host, console, proxy, conf, broker, cycle_con, desk, pin,
          pinproc, window, drained, disk, mem, up, pc, q, cs, backoff, fails,
          crashes, moves, downs, corrupts, cycle_pins, windows
cycleVars == <<store, newest, host, console, proxy, conf, broker, cycle_con, desk,
               pin, pinproc, window, drained, disk, mem, up, pc, q, cs, backoff,
               fails, crashes, moves, downs, corrupts, cycle_pins, windows>>

Cycle == INSTANCE Orchestrator WITH
    Tp <- {1, 2}, Sn <- TwoDevices, Hosts <- {"h1"}, Sessions <- {1},
    Prepared <- {"standby", "a"}, MaxFail <- 1, MaxCrash <- 1, MaxMove <- 0,
    MaxDown <- 1, MaxCorrupt <- 0, MaxPin <- 0, MaxWindow <- 1, con <- cycle_con,
    pins <- cycle_pins

ASSUME Cycle!TpAssumption
ASSUME Cycle!SnAssumption

SupervisorInit ==
    /\ scene \in {"enrollment", "watch", "cycle"}
    /\ Init
    /\ scene # "enrollment" => machine[0] = "none" /\ profile = {} /\ keys = {} /\ life = "long"
    /\ WatchInit
    /\ scene # "watch" => epoch = "own" /\ ~twin
    /\ Cycle!Init
    /\ scene # "cycle" => store = {} /\ console = 0 /\ conf = "standby"

EnrollmentStep == scene = "enrollment" /\ Next /\ UNCHANGED <<scene, watchVars, cycleVars>>
WatchStep == scene = "watch" /\ WatchNext /\ UNCHANGED <<scene, vars, cycleVars>>
CycleStep == scene = "cycle" /\ Cycle!Next /\ UNCHANGED <<scene, vars, watchVars>>
SupervisorNext == EnrollmentStep \/ WatchStep \/ CycleStep
SupervisorSpec == SupervisorInit /\ [][SupervisorNext]_<<scene, vars, watchVars, cycleVars>>

\* l4desk runs with the identity of the certificate in force (Orchestrator)
DeskIdentity == Cycle!DeskIdentity
=============================================================================
