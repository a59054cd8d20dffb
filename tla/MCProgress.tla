----------------------------- MODULE MCProgress -----------------------------
(***************************************************************************)
(* What eventually happens, for TLC: the answers of the console agent, the *)
(* decision of a communication window, and the convergence of the          *)
(* supervisor's cycle. A behaviour is about one of them, under the         *)
(* fairness of its component.                                              *)
(***************************************************************************)
EXTENDS Naturals

Methods == [exec |-> "exec", renew |-> "renew", cancel |-> "cancel"]
TwoDevices == <<"a", "b">>

VARIABLE scene   \* the component this behaviour is about

\* ConAgent
VARIABLES recent, next, cmd, thread, code, proc, job, rpc, online, sendCs, files,
          admission, upWindow, drain, acked, ev, started, results, evicted, late,
          msgs, upWindows, losses, events, stops
agentVars == <<recent, next, cmd, thread, code, proc, job, rpc, online, sendCs,
               files, admission, upWindow, drain, acked, ev, started, results,
               evicted, late, msgs, upWindows, losses, events, stops>>

\* CommWatch
VARIABLES utc, tick, epoch, twin, marker, phase, worker, con, wpc, checked,
          bootOwned, held, mpc, observed, now, end, ready, mstop, qpc, main,
          failures, asked, reached
watchVars == <<utc, tick, epoch, twin, marker, phase, worker, con, wpc, checked,
               bootOwned, held, mpc, observed, now, end, ready, mstop, qpc, main,
               failures, asked, reached>>

\* Orchestrator
VARIABLES store, newest, host, console, proxy, conf, broker, cycle_con, desk, pin,
          pinproc, window, drained, disk, mem, up, pc, q, cs, backoff, fails,
          crashes, moves, downs, corrupts, pins, windows
cycleVars == <<store, newest, host, console, proxy, conf, broker, cycle_con, desk,
               pin, pinproc, window, drained, disk, mem, up, pc, q, cs, backoff,
               fails, crashes, moves, downs, corrupts, pins, windows>>

Agent == INSTANCE ConAgent WITH
    Tasks <- DOMAIN Methods, Method <- Methods, Slots <- 2, SiblingFound <- TRUE,
    MaxMessages <- 2, MaxUpdates <- 1, MaxLosses <- 0, MaxEvents <- 1, MaxStops <- 0
Watch == INSTANCE CommWatch WITH
    Deadline <- 2, MaxTick <- 4, MaxFailures <- 0, MayStop <- FALSE,
    Epochs <- {"own", "foreign"}
Cycle == INSTANCE Orchestrator WITH
    Tp <- {1, 2}, Sn <- TwoDevices, Hosts <- {"h1", "h2"}, Sessions <- {},
    Prepared <- {"standby"}, MaxFail <- 0, MaxCrash <- 0, MaxMove <- 1,
    MaxDown <- 0, MaxCorrupt <- 1, MaxPin <- 1, MaxWindow <- 0, con <- cycle_con

ASSUME Cycle!TpAssumption
ASSUME Cycle!SnAssumption

ProgressInit ==
    /\ scene \in {"agent", "watch", "cycle"}
    /\ Agent!AgentInit
    /\ Watch!WatchInit
    /\ scene # "watch" => epoch = "own" /\ ~twin
    /\ Cycle!Init
    /\ scene # "cycle" => store = {} /\ console = 0 /\ host = "h1"

AgentStep == scene = "agent" /\ Agent!AgentNext /\ UNCHANGED <<scene, watchVars, cycleVars>>
WatchStep == scene = "watch" /\ Watch!WatchNext /\ UNCHANGED <<scene, agentVars, cycleVars>>
CycleStep == scene = "cycle" /\ Cycle!Next /\ UNCHANGED <<scene, agentVars, watchVars>>
ProgressNext == AgentStep \/ WatchStep \/ CycleStep
ProgressSpec == ProgressInit /\ [][ProgressNext]_<<scene, agentVars, watchVars, cycleVars>>

\* ConAgent!AgentFairness: every thread keeps running, and a waiter of the lock that the
\* drain takes again and again is woken by each release
AgentFairness ==
    /\ WF_agentVars(scene = "agent" /\ Agent!Handler)
    /\ WF_agentVars(scene = "agent" /\ Agent!CommandWorker)
    /\ SF_agentVars(scene = "agent" /\ Agent!EventLeave)
    /\ WF_agentVars(scene = "agent" /\ Agent!AdmissionTake)
    /\ WF_agentVars(scene = "agent" /\ \E a \in BOOLEAN : Agent!AdmissionReply(a))
    /\ WF_agentVars(scene = "agent" /\ Agent!FilesDone)
    /\ WF_agentVars(scene = "agent" /\ (Agent!DrainLock \/ Agent!DrainCheck))
\* CommWatch!FairSpec: threads run, time passes, the console that is starting starts
WatchFairness ==
    /\ WF_watchVars(scene = "watch" /\ Watch!WatchThread)
    /\ WF_watchVars(scene = "watch" /\ Watch!MonitorThread)
    /\ WF_watchVars(scene = "watch" /\ Watch!Query)
    /\ WF_watchVars(scene = "watch" /\ Watch!Main)
    /\ WF_watchVars(scene = "watch" /\ Watch!Pass)
    /\ WF_watchVars(scene = "watch" /\ Watch!ConStarts)
\* Orchestrator!Fairness: the loop runs, the service manager restarts it, the proxy
\* polls and l4pin ends
CycleFairness ==
    /\ WF_cycleVars(scene = "cycle" /\ Cycle!Step)
    /\ WF_cycleVars(scene = "cycle" /\ Cycle!orchestrator_run_loop)
    /\ WF_cycleVars(scene = "cycle" /\ Cycle!ProxyPoll)
    /\ WF_cycleVars(scene = "cycle" /\ pinproc # "none" /\ Cycle!PinExits)
FairSpec == ProgressSpec /\ AgentFairness /\ WatchFairness /\ CycleFairness

\* Every body the agent has taken on is answered (ConAgent)
Answered == Agent!Answered
\* A window the supervisor has seen is decided (CommWatch)
Decided == Watch!Decided
\* Supervisor, proxy, broker and agents come to agree on the certificate (Orchestrator)
Converges == scene = "cycle" => Cycle!Converges
=============================================================================
