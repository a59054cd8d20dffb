------------------------------- MODULE MCDesk -------------------------------
(***************************************************************************)
(* The operation journal and the desktop agent for TLC: the journal, the   *)
(* stream supervisor with its media process, and the input commands. A     *)
(* behaviour is about one of them.                                         *)
(***************************************************************************)
EXTENDS Journal, StreamSupervisor, DeskControl, TLC

CONSTANTS s1, s2
StreamSymmetry == Permutations({s1, s2})
\* A command of every kind, delivered once, and a few delivered twice
Orders == [c \in {"start", "stop", "renew", "press", "down", "up"} |-> c]
Repeated == [c \in {"start", "stop", "press", "down"} |-> c]
RepeatedIds == DOMAIN Repeated

VARIABLE scene   \* the component this behaviour is about

\* StreamSupervisor
VARIABLES capture_loopNow, capture_ticked, capture_sup, capture_ff, capture_ad,
          capture_lost, capture_env, capture_ended, capture_agentUp,
          capture_stateFile, capture_holder, capture_launches
captureVars == <<capture_loopNow, capture_ticked, capture_sup, capture_ff,
                 capture_ad, capture_lost, capture_env, capture_ended,
                 capture_agentUp, capture_stateFile, capture_holder,
                 capture_launches>>

Capture == INSTANCE StreamSupervisor WITH
    Streams <- {s1}, Backend <- "l4capture", Grace <- 1, Fallback <- 2, Stall <- 1,
    MaxRestarts <- 1, Window <- 4, Stubborn <- TRUE, Around <- {"session"},
    MaxT <- 4, MaxLaunch <- 2, MaxExpiry <- 3, loopNow <- capture_loopNow,
    ticked <- capture_ticked, sup <- capture_sup, ff <- capture_ff,
    ad <- capture_ad, lost <- capture_lost, env <- capture_env,
    ended <- capture_ended, agentUp <- capture_agentUp,
    stateFile <- capture_stateFile, holder <- capture_holder,
    launches <- capture_launches
Input == INSTANCE DeskControl WITH
    Cmds <- DOMAIN Orders, Kind <- Orders, Lease <- 1, ControlGrace <- 0,
    Depth <- 2, CacheSize <- 6, MaxSends <- 1, MaxControlTime <- 1

DeskInit ==
    /\ scene \in {"journal", "stream", "repeats", "capture", "input"}
    /\ JournalInit
    /\ StreamInit
    /\ CASE scene = "repeats" -> ControlInit
         [] OTHER -> Input!ControlInit
    /\ Capture!StreamInit

JournalStep == scene = "journal" /\ JournalNext /\ UNCHANGED <<scene, streamVars, controlVars, captureVars>>
StreamStep == scene = "stream" /\ StreamNext /\ UNCHANGED <<scene, journalVars, controlVars, captureVars>>
RepeatsStep == scene = "repeats" /\ ControlNext /\ UNCHANGED <<scene, journalVars, streamVars, captureVars>>
CaptureStep == scene = "capture" /\ Capture!StreamNext /\ UNCHANGED <<scene, journalVars, streamVars, controlVars>>
InputStep == scene = "input" /\ Input!ControlNext /\ UNCHANGED <<scene, journalVars, streamVars, captureVars>>
DeskNext == JournalStep \/ StreamStep \/ RepeatsStep \/ CaptureStep \/ InputStep
DeskSpec == DeskInit /\ [][DeskNext]_<<scene, journalVars, streamVars, controlVars, captureVars>>

=============================================================================
