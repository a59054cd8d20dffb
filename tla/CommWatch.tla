----------------------------- MODULE CommWatch -----------------------------
(***************************************************************************)
(* The owner of the communication recovery inside the supervisor: the      *)
(* watch thread (l4superv communication_watch.c), the deadline monitor it  *)
(* starts (l4common communication_monitor.c), the signal profile both lend *)
(* to the executor (communication_signals.c), and the readiness query the  *)
(* update worker makes before it publishes window 1.                       *)
(*                                                                         *)
(* What the executor and the worker do with the decision once it is taken  *)
(* is CommunicationDecision's; here it is one word, phase.  A tick is the  *)
(* clock grid: the grace the monitor allows between its two clocks.  The   *)
(* probe server has one thread, so there is one query at a time.           *)
(***************************************************************************)
EXTENDS Integers

CONSTANTS
    Deadline,   \* deadline_utc of the plan; it is armed at 0
    MaxTick,    \* bound on the monotonic clock
    MaxFailures,  \* bound on reads that fail and on steps of the wall clock
    MayStop,    \* the service may be stopped
    Epochs      \* whose plan it is: subset of {"own", "foreign"}

ASSUME WatchAssumption ==
    /\ Deadline \in Nat \ {0} /\ MaxTick \in Nat /\ MaxFailures \in Nat
    /\ MayStop \in BOOLEAN /\ Epochs \subseteq {"own", "foreign"}

Grace == 1      \* L4_COMM_CLOCK_GRID_MS

VARIABLES
    utc, tick,  \* the wall clock and GetTickCount64
    epoch,      \* the supervisor the plan names is this one, or an earlier one
    twin,       \* a second plan of the same generation names this supervisor
    marker,     \* "before" (clear, generation-1) | "window1" | "past"
    phase,      \* communication.result: "wait" | "started" | "committed" | "final"
    worker,     \* "live" | "dead"
    con,        \* L4Con: "pending" | "first" (the plan's epoch) | "second" | "down"
    wpc,        \* the watch thread
    checked,    \* startup_checked
    bootOwned,  \* boot_owned
    held,       \* what the watch owns: subset of {"monitor", "profile", "pin"}
    mpc,        \* the monitor thread
    observed,   \* it has seen the marker of its plan
    now,        \* its reading of the wall clock
    end,        \* monotonic_end
    ready,      \* its ready event
    mstop,      \* its stop event
    qpc,        \* the query in the probe server
    main,       \* "run" | "cancel" (the probe server stops) | "close" | "gone"
    failures,
    asked,      \* history: the worker holds a positive answer
    reached     \* history: the wall clock has shown the deadline

clock == <<utc, tick, reached>>
plan == <<epoch, twin>>
watch == <<wpc, checked, bootOwned, held>>
mon == <<mpc, observed, now, end, ready, mstop>>
query == <<qpc, asked>>
watchVars == <<clock, plan, marker, phase, worker, con, watch, mon, query, main, failures>>

WatchSteps == {"startup", "bootcheck", "bootsignals", "bootexecute", "bootrunning", "loop",
               "opening", "starting", "sleep", "closing", "release", "exited"}
MonitorSteps == {"none", "top", "read", "utc", "tick", "execute", "running", "wait",
                 "finish", "exited"}
QuerySteps == {"idle", "lock", "first", "current", "decision", "again", "final"}

stop == main = "close"           \* w->stop
cancel == main # "run"           \* the stop event of the probe server
WatchFault == failures < MaxFailures /\ failures' = failures + 1

----------------------------------------------------------------------------
(* The plan against the state it is read with                              *)

MarkerFits == marker \in {"before", "window1"}

InTime == utc >= 0 /\ utc < Deadline

\* original: own epoch, in time, and the marker is the plan's or the one before it.
Original == epoch = "own" /\ InTime /\ MarkerFits

Eligible == marker = "window1" \/ (marker = "before" /\ ~twin)

----------------------------------------------------------------------------
(* The world                                                               *)

Pass ==
    /\ tick < MaxTick
    /\ tick' = tick + 1 /\ utc' = utc + 1
    /\ reached' = (reached \/ utc' >= Deadline)
    /\ UNCHANGED <<plan, marker, phase, worker, con, watch, mon, query, main, failures>>

\* The wall clock is set.
ClockSet(v) ==
    /\ WatchFault /\ utc' = v
    /\ reached' = (reached \/ v >= Deadline)
    /\ UNCHANGED <<tick, plan, marker, phase, worker, con, watch, mon, query, main>>

WorkerDies ==
    /\ worker = "live" /\ worker' = "dead"
    /\ UNCHANGED <<clock, plan, marker, phase, con, watch, mon, query, main, failures>>

\* The worker publishes window 1 once the supervisor has attested protection.
Publish ==
    /\ worker = "live" /\ marker = "before" /\ asked /\ marker' = "window1"
    /\ UNCHANGED <<clock, plan, phase, worker, con, watch, mon, query, main, failures>>

Commit ==
    /\ worker = "live" /\ marker = "window1" /\ phase = "wait" /\ InTime
    /\ phase' = "committed"
    /\ UNCHANGED <<clock, plan, marker, worker, con, watch, mon, query, main, failures>>

\* The window is over, or the operation was given up before it.
Clear ==
    /\ worker = "live"
    /\ \/ marker = "window1" /\ phase = "committed"
       \/ marker = "before"
    /\ marker' = "past"
    /\ UNCHANGED <<clock, plan, phase, worker, con, watch, mon, query, main, failures>>

ConStarts ==
    /\ con = "pending" /\ con' = "second"
    /\ UNCHANGED <<clock, plan, marker, phase, worker, watch, mon, query, main, failures>>

ConFails ==
    /\ WatchFault /\ con # "down" /\ con' = "down"
    /\ UNCHANGED <<clock, plan, marker, phase, worker, watch, mon, query, main>>

----------------------------------------------------------------------------
(* The watch thread                                                        *)

\* One snapshot: no window, the own epoch or an earlier supervisor's.
StartupReconcile ==
    /\ wpc = "startup"
    /\ CASE marker # "window1" -> /\ checked' = TRUE /\ wpc' = "loop"
                                  /\ UNCHANGED bootOwned
         [] marker = "window1" /\ epoch = "own" ->
                                  /\ checked' = Original /\ wpc' = "loop"
                                  /\ UNCHANGED bootOwned
         [] OTHER -> /\ bootOwned' = TRUE /\ wpc' = "bootcheck"
                     /\ UNCHANGED checked
    /\ UNCHANGED <<clock, plan, marker, phase, worker, con, held, mon, query, main, failures>>

\* The state or the plan cannot be read: the watch stays out for good.
StartupUnread ==
    /\ wpc = "startup" /\ WatchFault
    /\ wpc' = "loop"
    /\ UNCHANGED <<clock, plan, marker, phase, worker, con, checked, bootOwned, held,
                   mon, query, main>>

BootCheck ==
    /\ wpc = "bootcheck"
    /\ wpc' = IF ~stop /\ marker = "window1" THEN "bootsignals" ELSE "loop"
    /\ UNCHANGED <<clock, plan, marker, phase, worker, con, checked, bootOwned, held,
                   mon, query, main, failures>>

\* con_startup: only the SCM's own start of L4Con is waited for.
ConStartup == con \in {"first", "second"}

\* A new epoch of L4Con is for the boot path only.
ConEpoch(boot) == con = "first" \/ (boot /\ con = "second")

ConRefused == con = "down"

BootSignals ==
    /\ wpc = "bootsignals"
    /\ \/ /\ ConStartup /\ ConEpoch(TRUE) /\ marker = "window1"
          /\ wpc' = "bootexecute" /\ held' = {"profile", "pin"}
       \/ /\ ConRefused \/ marker # "window1"
          /\ wpc' = "loop" /\ UNCHANGED held
    /\ UNCHANGED <<clock, plan, marker, phase, worker, con, checked, bootOwned,
                   mon, query, main, failures>>

\* The reserve for the signals runs out.
BootExpires ==
    /\ wpc = "bootsignals" /\ con = "pending" /\ WatchFault
    /\ wpc' = "loop"
    /\ UNCHANGED <<clock, plan, marker, phase, worker, con, checked, bootOwned, held,
                   mon, query, main>>

\* execute_boot: the recovery of an interrupted window; it is refused once
\* the window was decided.
BootExecute ==
    /\ wpc = "bootexecute"
    /\ IF ~stop /\ marker = "window1" /\ phase \in {"wait", "started"}
       THEN phase' = "started" /\ wpc' = "bootrunning" /\ UNCHANGED held
       ELSE wpc' = "loop" /\ held' = {} /\ UNCHANGED phase
    /\ UNCHANGED <<clock, plan, marker, worker, con, checked, bootOwned, mon, query, main, failures>>

BootReturns ==
    /\ wpc = "bootrunning"
    /\ wpc' = "loop" /\ held' = {} /\ phase' = "final"
    /\ UNCHANGED <<clock, plan, marker, worker, con, checked, bootOwned, mon, query, main, failures>>

\* The head of the loop.  A finished monitor is kept: no other plan is
\* adopted in the life of this supervisor.
Keeps == "monitor" \in held

Loop ==
    /\ wpc = "loop"
    /\ wpc' = IF stop THEN "closing"
              ELSE IF Keeps THEN "sleep"
              ELSE IF checked /\ ~bootOwned /\ Original /\ Eligible THEN "opening"
              ELSE "sleep"
    /\ UNCHANGED <<clock, plan, marker, phase, worker, con, checked, bootOwned, held,
                   mon, query, main, failures>>

\* The decision is read, then the signals are taken: proxy, broker and console.
Opening ==
    /\ wpc = "opening"
    /\ wpc' = IF worker = "live" /\ phase = "wait" /\ ConEpoch(FALSE)
              THEN "starting" ELSE "sleep"
    /\ UNCHANGED <<clock, plan, marker, phase, worker, con, checked, bootOwned, held,
                   mon, query, main, failures>>

OpeningFails ==
    /\ wpc = "opening" /\ WatchFault
    /\ wpc' = "sleep"
    /\ UNCHANGED <<clock, plan, marker, phase, worker, con, checked, bootOwned, held,
                   mon, query, main>>

\* l4_communication_monitor_start, and its adoption under the state lock.
MonitorStart ==
    /\ wpc = "starting"
    /\ wpc' = "sleep"
    /\ IF worker = "live" /\ Original /\ phase = "wait" /\ qpc \in {"idle", "lock"}
       THEN /\ held' = {"monitor", "profile", "pin"}
            /\ mpc' = "top" /\ observed' = FALSE /\ ready' = FALSE /\ mstop' = FALSE
            /\ end' = tick + Deadline - utc
            /\ UNCHANGED now
       ELSE /\ worker = "dead" \/ ~Original \/ phase # "wait"
            /\ UNCHANGED <<held, mon>>
    /\ UNCHANGED <<clock, plan, marker, phase, worker, con, checked, bootOwned, query, main, failures>>

Sleep ==
    /\ wpc = "sleep"
    /\ wpc' = IF stop THEN "closing" ELSE "loop"
    /\ UNCHANGED <<clock, plan, marker, phase, worker, con, checked, bootOwned, held,
                   mon, query, main, failures>>

\* Exclusive state lock: no query is past its own lock.
NoReader == qpc \in {"idle", "lock"}

\* l4_communication_monitor_close: the stop event, and the end of the thread.
ThreadGone == mpc \in {"none", "exited"}

Closing ==
    /\ wpc = "closing" /\ NoReader
    /\ mstop' = ("monitor" \in held)
    /\ IF ThreadGone
       THEN wpc' = "release" /\ held' = held \ {"monitor"}
       ELSE ~mstop /\ UNCHANGED <<wpc, held>>
    /\ UNCHANGED <<clock, plan, marker, phase, worker, con, checked, bootOwned,
                   mpc, observed, now, end, ready, query, main, failures>>

Release ==
    /\ wpc = "release" /\ NoReader
    /\ wpc' = "exited" /\ held' = {}
    /\ UNCHANGED <<clock, plan, marker, phase, worker, con, checked, bootOwned,
                   mon, query, main, failures>>

----------------------------------------------------------------------------
(* The monitor thread                                                      *)

MStep(from, to) == mpc = from /\ mpc' = to

Top ==
    /\ mpc = "top"
    /\ mpc' = IF mstop THEN "finish" ELSE "read"
    /\ UNCHANGED <<clock, plan, marker, phase, worker, con, watch, observed, now, end, ready,
                   mstop, query, main, failures>>

ReadMarker ==
    /\ mpc = "read"
    /\ CASE marker = "window1" -> mpc' = "utc" /\ observed' = TRUE
         [] marker = "before" /\ ~observed -> mpc' = "utc" /\ UNCHANGED observed
         [] OTHER -> mpc' = "finish" /\ UNCHANGED observed
    /\ UNCHANGED <<clock, plan, marker, phase, worker, con, watch, now, end, ready, mstop,
                   query, main, failures>>

ReadFails ==
    /\ MStep("read", "finish") /\ WatchFault
    /\ UNCHANGED <<clock, plan, marker, phase, worker, con, watch, observed, now, end, ready,
                   mstop, query, main>>

\* clock_sample, the wall clock first.
SampleUtc ==
    /\ mpc = "utc"
    /\ now' = utc
    /\ mpc' = IF utc < 0 THEN "finish" ELSE "tick"
    /\ UNCHANGED <<clock, plan, marker, phase, worker, con, watch, observed, end, ready,
                   mstop, query, main, failures>>

\* ... and the monotonic clock: past its end the wall clock is read again,
\* and may be behind by the grace at most.
\* Mutant: the end of the monotonic clock is good enough.
Fresh_Monotonic == IF tick >= end THEN Deadline ELSE now
\* Mutant: the wall clock is not read again.
Fresh_Once == now
Fresh == IF tick >= end THEN utc ELSE now
Skewed == Fresh < 0 \/ (tick >= end + Grace /\ Fresh < Deadline)

SampleTick ==
    /\ mpc = "tick"
    /\ now' = Fresh
    /\ mpc' = IF Skewed THEN "finish"
              ELSE IF Fresh < Deadline THEN "wait"
              ELSE IF observed THEN "execute" ELSE "finish"
    /\ ready' = (ready \/ (~Skewed /\ Fresh < Deadline))
    /\ UNCHANGED <<clock, plan, marker, phase, worker, con, watch, observed, end, mstop,
                   query, main, failures>>

\* l4_communication_execute: the claim, if the window is undecided.
Execute ==
    /\ mpc = "execute"
    /\ IF marker = "window1" /\ phase = "wait" /\ utc >= Deadline
       THEN phase' = "started" /\ mpc' = "running"
       ELSE UNCHANGED phase /\ mpc' = "finish"
    /\ UNCHANGED <<clock, plan, marker, worker, con, watch, observed, now, end, ready, mstop,
                   query, main, failures>>

ExecuteReturns ==
    /\ MStep("running", "finish")
    /\ phase' = "final"
    /\ UNCHANGED <<clock, plan, marker, worker, con, watch, observed, now, end, ready, mstop,
                   query, main, failures>>

Wait ==
    /\ mpc = "wait"
    /\ mpc' = IF mstop THEN "finish" ELSE "top"
    /\ UNCHANGED <<clock, plan, marker, phase, worker, con, watch, observed, now, end, ready,
                   mstop, query, main, failures>>

Finish ==
    /\ MStep("finish", "exited")
    /\ UNCHANGED <<clock, plan, marker, phase, worker, con, watch, observed, now, end, ready,
                   mstop, query, main, failures>>

----------------------------------------------------------------------------
(* The readiness query of the worker (mode 3), in the probe server          *)

QStep(from, to) == qpc = from /\ qpc' = to

Ask ==
    /\ worker = "live" /\ main = "run" /\ ~asked /\ QStep("idle", "lock")
    /\ UNCHANGED <<clock, plan, marker, phase, worker, con, watch, mon, asked, main, failures>>

\* The shared state lock; the watch holds it exclusively while it closes.
StateUnlocked == wpc # "closing" \/ ~mstop

QueryLock ==
    /\ QStep("lock", "first") /\ StateUnlocked
    /\ UNCHANGED <<clock, plan, marker, phase, worker, con, watch, mon, asked, main, failures>>

WatchReady == checked /\ ~bootOwned /\ held = {"monitor", "profile", "pin"} /\ ~stop /\ Original

\* monitor_current
Current ==
    /\ MarkerFits /\ InTime /\ tick < end
    /\ ready /\ ~mstop /\ mpc \notin {"none", "finish", "exited"}
    /\ worker = "live" /\ ~cancel

Refuse == qpc' = "idle" /\ UNCHANGED asked

QueryFirst ==
    /\ qpc = "first"
    /\ IF WatchReady THEN qpc' = "current" /\ UNCHANGED asked ELSE Refuse
    /\ UNCHANGED <<clock, plan, marker, phase, worker, con, watch, mon, main, failures>>

QueryCurrent ==
    /\ qpc = "current"
    /\ IF Current THEN qpc' = "decision" /\ UNCHANGED asked ELSE Refuse
    /\ UNCHANGED <<clock, plan, marker, phase, worker, con, watch, mon, main, failures>>

\* The decision is read: this is the moment the answer is about.
QueryDecision ==
    /\ qpc = "decision"
    /\ IF phase = "wait" THEN qpc' = "again" ELSE qpc' = "idle"
    /\ UNCHANGED <<clock, plan, marker, phase, worker, con, watch, mon, asked, main, failures>>

QueryAgain ==
    /\ qpc = "again"
    /\ IF Current THEN qpc' = "final" /\ UNCHANGED asked ELSE Refuse
    /\ UNCHANGED <<clock, plan, marker, phase, worker, con, watch, mon, main, failures>>

QueryFinal ==
    /\ qpc = "final" /\ qpc' = "idle"
    /\ asked' = (~stop /\ Original)
    /\ UNCHANGED <<clock, plan, marker, phase, worker, con, watch, mon, main, failures>>

\* The query's time is over, or the probe server is stopped.
QueryTimeout ==
    /\ qpc = "lock" /\ Refuse
    /\ UNCHANGED <<clock, plan, marker, phase, worker, con, watch, mon, main, failures>>

----------------------------------------------------------------------------
(* The end of the service: the probe server first, then the watch          *)

StopService ==
    /\ MayStop /\ main = "run" /\ main' = "cancel"
    /\ UNCHANGED <<clock, plan, marker, phase, worker, con, watch, mon, query, failures>>

\* l4_probe_server_stop has waited for its thread.
StopWatch ==
    /\ main = "cancel" /\ qpc = "idle" /\ main' = "close"
    /\ UNCHANGED <<clock, plan, marker, phase, worker, con, watch, mon, query, failures>>

WatchClosed ==
    /\ main = "close" /\ wpc = "exited" /\ main' = "gone"
    /\ UNCHANGED <<clock, plan, marker, phase, worker, con, watch, mon, query, failures>>

----------------------------------------------------------------------------

WatchInit ==
    /\ utc = 0 /\ tick = 0 /\ reached = FALSE
    /\ epoch \in Epochs
    /\ twin \in BOOLEAN /\ (twin => epoch = "own")
    /\ marker \in IF epoch = "own" THEN {"before"} ELSE {"before", "window1", "past"}
    /\ phase \in IF marker = "window1" THEN {"wait", "started"} ELSE {"wait"}
    /\ worker \in IF epoch = "own" THEN {"live"} ELSE {"live", "dead"}
    /\ con \in IF epoch = "own" THEN {"first"} ELSE {"first", "pending", "second"}
    /\ wpc = "startup" /\ checked = FALSE /\ bootOwned = FALSE /\ held = {}
    /\ mpc = "none" /\ observed = FALSE /\ now = 0 /\ end = 0 /\ ready = FALSE /\ mstop = FALSE
    /\ qpc = "idle" /\ asked = FALSE
    /\ main = "run" /\ failures = 0

WatchThread == \/ StartupReconcile \/ BootCheck \/ BootSignals \/ BootExecute \/ BootReturns
               \/ Loop \/ Opening \/ MonitorStart \/ Sleep \/ Closing \/ Release
MonitorThread == Top \/ ReadMarker \/ SampleUtc \/ SampleTick \/ Execute \/ ExecuteReturns
                 \/ Wait \/ Finish
Query == QueryLock \/ QueryFirst \/ QueryCurrent \/ QueryDecision \/ QueryAgain \/ QueryFinal
         \/ QueryTimeout
Main == StopWatch \/ WatchClosed

WatchNext ==
    \/ Pass \/ (\E v \in -1 .. Deadline : ClockSet(v)) \/ WorkerDies \/ Publish \/ Commit \/ Clear
    \/ ConStarts \/ ConFails
    \/ WatchThread \/ BootExpires \/ StartupUnread \/ OpeningFails
    \/ MonitorThread \/ ReadFails
    \/ Ask \/ Query
    \/ StopService \/ Main

WatchSpec == WatchInit /\ [][WatchNext]_watchVars

\* Threads run, time passes, the SCM starts the console it is starting.
WatchFairSpec == /\ WatchSpec
                 /\ WF_watchVars(WatchThread) /\ WF_watchVars(MonitorThread) /\ WF_watchVars(Query)
                 /\ WF_watchVars(Main) /\ WF_watchVars(Pass) /\ WF_watchVars(ConStarts)

----------------------------------------------------------------------------

WatchTypeOK ==
    /\ utc \in Int /\ tick \in 0 .. MaxTick /\ reached \in BOOLEAN
    /\ epoch \in {"own", "foreign"} /\ twin \in BOOLEAN
    /\ marker \in {"before", "window1", "past"}
    /\ phase \in {"wait", "started", "committed", "final"}
    /\ worker \in {"live", "dead"} /\ con \in {"pending", "first", "second", "down"}
    /\ wpc \in WatchSteps /\ checked \in BOOLEAN /\ bootOwned \in BOOLEAN
    /\ held \subseteq {"monitor", "profile", "pin"}
    /\ mpc \in MonitorSteps /\ observed \in BOOLEAN /\ now \in Int /\ end \in 0 .. (tick + Deadline)
    /\ ready \in BOOLEAN /\ mstop \in BOOLEAN
    /\ qpc \in QuerySteps /\ asked \in BOOLEAN
    /\ main \in {"run", "cancel", "close", "gone"} /\ failures \in 0 .. MaxFailures

\* Nothing is rolled back early: the monitor claims only after the wall
\* clock has shown the deadline, whatever the monotonic clock said
\* (clock_sample, run of communication_monitor.c).
NotEarly == mpc \in {"execute", "running"} => reached

\* Without failures, a window the supervisor has seen is always decided:
\* committed by the worker or claimed here, also when the worker died and when
\* the supervisor was restarted inside the window.
Decided == (marker = "window1" /\ phase = "wait" /\ (observed \/ bootOwned)) ~> (phase # "wait")

=============================================================================
