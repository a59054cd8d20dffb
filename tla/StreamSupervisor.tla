-------------------------- MODULE StreamSupervisor --------------------------
(***************************************************************************)
(* The media processes of the desktop agent (l4desk): the supervisor of    *)
(* ffmpeg (ffmpeg_supervisor.c) and the adapter of l4capture               *)
(* (l4capture_adapter.c).  Every public function holds one critical        *)
(* section, so each is one step; the children, the source and the clock    *)
(* move between the steps.                                                 *)
(*                                                                         *)
(* Time is counted in ticks of the agent's loop: the loop ticks the        *)
(* supervisor once in every instant.                                       *)
(***************************************************************************)
EXTENDS Naturals, FiniteSets

CONSTANTS Streams,      \* stream_instance_id; its lease_id is named after it
          Backend,      \* media_backend: "ffmpeg" or "l4capture"
          Grace,        \* 5 s after the lease
          Fallback,     \* 120 s for a capture without a lease
          Stall,        \* 10 s without progress
          MaxRestarts,  \* 5 restarts ...
          Window,       \* ... in 600 s
          Stubborn,     \* may a killed l4capture outlive the wait for its end?
          Around,        \* what happens around the agent: "session", "source", "crash"
          MaxT, MaxLaunch, MaxExpiry

\* What the constants satisfy
ASSUME StreamAssumption ==
    /\ {Grace, Fallback, Stall, MaxRestarts, Window, MaxT, MaxLaunch, MaxExpiry} \subseteq Nat
    /\ Backend \in {"ffmpeg", "l4capture"} /\ Stubborn \in BOOLEAN

VARIABLES loopNow, ticked,
          sup,     \* g_sup
          ff,      \* g_sup.hProcess: the ffmpeg it holds
          ad,      \* g_l4capture_backend
          lost,    \* media processes [stream, id] that run and that nobody holds
          env,     \* [session, present]: interactive desktop, sources in the inventory
          ended,   \* streams whose last notify_stream_event said "stopped"
          agentUp, stateFile, holder,   \* over a crash: the state file, and who has the recorded pid
          launches

streamVars == <<loopNow, ticked, sup, ff, ad, lost, env, ended, agentUp, stateFile, holder, launches>>

Modes == {"desktop", "usb-camera"}
None == "none"
Foreign == 99
States == {"stopped", "running", "stopping", "restarting", "failed", "session_unavailable", "source_unavailable"}

NoSup == [state |-> "stopped", stream |-> None, mode |-> None, expires |-> 0,
          count |-> 0, win |-> 0, next |-> 0, prog |-> 0, pid |-> 0]
NoFF == [st |-> "none", stream |-> None, job |-> TRUE, id |-> 0]
NoAd == [st |-> "NULL", stream |-> None, deadline |-> 0, child |-> "none", id |-> 0, next |-> 0, times |-> {}]

Proc(p) == [stream |-> p.stream, id |-> p.id]
\* The media processes that run.
Alive == (IF ff.st = "alive" THEN {Proc(ff)} ELSE {}) \cup (IF ad.child = "alive" THEN {Proc(ad)} ELSE {}) \cup lost

-----------------------------------------------------------------------------
(* The adapter of l4capture.  ok: does the launch succeed; sure: is the    *)
(* end of a killed child seen in time.                                     *)

AdapterIdle(a) == [a EXCEPT !.st = "IDLE", !.child = "none", !.stream = None, !.deadline = 0]

\* cleanup_process and l4d_adapter_stop: IDLE only once the child has ended.
l4d_adapter_stop(a, sure) ==
    IF a.st \in {"NULL", "IDLE"} THEN a
    ELSE IF a.child = "alive" /\ ~sure THEN [a EXCEPT !.st = "STOPPING"]
    ELSE AdapterIdle(a)

\* is_restart_budget_available
Budget(a) == Cardinality({t \in a.times : loopNow - t < Window}) < MaxRestarts

\* launch_process and wait_for_ready; a child that is not ready is killed.
launch_process(a, ok, sure) ==
    [a EXCEPT !.st = IF ok THEN "RUNNING" ELSE "FAILED",
              !.child = IF ok \/ ~sure THEN "alive" ELSE "none", !.id = launches + 1]

\* l4d_adapter_start; a stream that is switched is stopped first, whatever comes of it.
l4d_adapter_start(a, s, ok, sure) ==
    IF a.st = "RUNNING" /\ a.stream = s THEN a
    ELSE LET b == IF a.st = "RUNNING" THEN l4d_adapter_stop(a, sure) ELSE a
         IN  launch_process([b EXCEPT !.stream = s, !.deadline = loopNow + Fallback], ok, sure)

\* A launch over a child that still runs loses that child.
Overwritten(a, s, sure) ==
    IF a.child = "alive" /\ ~(a.st = "RUNNING" /\ (a.stream = s \/ sure)) THEN {Proc(a)} ELSE {}

\* l4d_adapter_poll: the strict deadline, an unexpected exit, a restart that is due.
l4d_adapter_poll(a, ok, sure) ==
    IF a.st = "RUNNING" /\ loopNow >= a.deadline THEN l4d_adapter_stop(a, sure)
    ELSE IF a.st = "RUNNING" /\ a.child = "dead"
         THEN IF Budget(a) THEN [a EXCEPT !.st = "RESTARTING", !.child = "none", !.next = loopNow + 1]
              ELSE [a EXCEPT !.st = "FAILED", !.child = "none"]
    ELSE IF a.st = "RESTARTING" /\ loopNow >= a.deadline THEN [a EXCEPT !.st = "IDLE"]
    ELSE IF a.st = "RESTARTING" /\ loopNow >= a.next
         THEN launch_process([a EXCEPT !.times = @ \cup {loopNow}], ok, sure)
    ELSE a

\* l4d_adapter_renew_lease: the deadline may also shrink.
l4d_adapter_renew_lease(a, s, deadline) ==
    IF a.st = "RUNNING" /\ a.stream = s THEN [a EXCEPT !.deadline = deadline] ELSE a

-----------------------------------------------------------------------------
(* ffmpeg.                                                                 *)

\* cleanup_process_handles_internal: 'q', then the job and the process are killed.
Cleaned(x) == [x EXCEPT !.pid = 0]

\* launch_ffmpeg_process: the job object is tried only.
launch_ffmpeg_process(x, s, job) ==
    /\ launches < MaxLaunch /\ launches' = launches + 1
    /\ ff' = [st |-> "alive", stream |-> s, job |-> job, id |-> launches + 1]
    /\ sup' = [x EXCEPT !.state = "running", !.prog = loopNow, !.pid = launches + 1]

\* The budget of restarts: a window that has passed starts over.
Counted(x) == IF x.win = 0 \/ loopNow - x.win > Window THEN [x EXCEPT !.win = loopNow, !.count = 1]
              ELSE [x EXCEPT !.count = @ + 1]

\* The next restart is scheduled, or the stream fails.
Rescheduled(x) ==
    LET c == Counted(x) IN
    IF c.count > MaxRestarts THEN [Cleaned(c) EXCEPT !.state = "failed", !.next = 0]
    ELSE [Cleaned(c) EXCEPT !.state = "restarting", !.next = loopNow + 1]

Same == UNCHANGED <<loopNow, env, agentUp, stateFile, holder>>

Released(x) == [x EXCEPT !.state = "stopped", !.stream = None, !.mode = None, !.expires = 0, !.next = 0, !.pid = 0]

-----------------------------------------------------------------------------
(* The public functions.                                                   *)

StreamInit ==
    /\ loopNow = 1 /\ ticked = FALSE /\ sup = NoSup /\ ff = NoFF /\ ad = NoAd /\ lost = {} /\ ended = {}
    /\ env = [session |-> TRUE, present |-> Modes]
    /\ agentUp = TRUE /\ stateFile = [state |-> "stopped", pid |-> 0] /\ holder = 0 /\ launches = 0

\* ffmpeg_supervisor_start: what is refused, and what already runs.
Startable(s, mode) ==
    /\ agentUp /\ sup.state # "stopping" /\ mode \in env.present /\ (mode = "desktop" => env.session)
    /\ ~(sup.state = "running" /\ sup.stream = s /\ sup.mode = mode)

\* A stream that runs or is to be restarted is switched off first: its ffmpeg.
Switched == sup.state \in {"running", "restarting"}

\* Mutant: the stream that was there keeps its name.
Entered_Keep(s, mode) == [sup EXCEPT !.stream = IF @ = None THEN s ELSE @, !.mode = mode, !.expires = 0, !.count = 0,
                                     !.win = 0, !.next = 0, !.pid = IF Switched THEN 0 ELSE @]

Entered(s, mode) == [sup EXCEPT !.stream = s, !.mode = mode, !.expires = 0, !.count = 0, !.win = 0, !.next = 0,
                                !.pid = IF Switched THEN 0 ELSE @]

\* The events: "stopped" for the stream that is switched off, "starting" for the new one.
Started(s) == ended' = (ended \cup (IF Switched THEN {sup.stream} ELSE {})) \ {s}

StartCapture(s, sure) ==
    LET a == IF ad.st = "NULL" THEN [NoAd EXCEPT !.st = "IDLE"] ELSE ad IN
    /\ Startable(s, "desktop") /\ Backend = "l4capture" /\ launches < MaxLaunch
    /\ ad' = l4d_adapter_start(a, s, TRUE, sure)
    /\ lost' = lost \cup Overwritten(a, s, sure)
    /\ ff' = IF Switched THEN NoFF ELSE ff
    /\ sup' = [Entered(s, "desktop") EXCEPT !.state = "running", !.pid = 0]
    /\ Started(s) /\ launches' = launches + 1 /\ UNCHANGED ticked /\ Same

\* Mutant: the new process is launched before the old one is cleaned up.
Overlaid_Early == IF ff.st = "alive" THEN {Proc(ff)} ELSE {}

\* The ffmpeg whose handle a launch overwrites: one that was not switched off.
Overlaid == IF ~Switched /\ ff.st = "alive" THEN {Proc(ff)} ELSE {}

\* A capture that does not start is destroyed, whether or not its child ended,
\* and ffmpeg takes its place.
StartFfmpeg(s, mode, ok, job, sure) ==
    LET try == Backend = "l4capture" /\ mode = "desktop"
        a == launch_process([ad EXCEPT !.stream = s], FALSE, sure)
    IN  /\ Startable(s, mode) /\ ~(try /\ ad.st = "RUNNING" /\ ad.stream = s)
        /\ ad' = IF try THEN NoAd ELSE ad
        /\ lost' = lost \cup (IF ok THEN Overlaid ELSE {})
                        \cup (IF try THEN Overwritten(ad, s, sure) ELSE {})
                        \cup (IF try /\ a.child = "alive" THEN {[Proc(a) EXCEPT !.id = 0]} ELSE {})
        /\ IF ok THEN launch_ffmpeg_process(Entered(s, mode), s, job)
           ELSE /\ sup' = [Entered(s, mode) EXCEPT !.state = "failed"] /\ UNCHANGED launches
                /\ ff' = IF Switched THEN NoFF ELSE ff
        /\ Started(s) /\ UNCHANGED ticked /\ Same

\* Has the adapter confirmed the end of its child?
Confirmed(a) == a.st # "STOPPING"

\* stop_active_stream_internal: "stopping" is kept until the capture has ended.
Stopped(sure) ==
    LET a == l4d_adapter_stop(ad, sure) IN
    /\ agentUp /\ sup.state # "stopped" /\ ad' = a
    /\ IF Confirmed(a)
       THEN sup' = Released(sup) /\ ff' = NoFF /\ ended' = ended \cup ({sup.stream} \ {None})
       ELSE sup' = [sup EXCEPT !.state = "stopping"] /\ UNCHANGED <<ff, ended>>
    /\ UNCHANGED <<lost, launches, ticked>> /\ Same

\* ffmpeg_supervisor_stop, for the stream and its lease, and _stop_with_reason.
StopStream(s, sure) == sup.stream = s /\ Stopped(sure)

\* ffmpeg_supervisor_update_lease, of a stream that runs or is to be restarted
\* and with an expiry ahead (ctl_process_command): only a later expiry counts.
UpdateLease(s, e) ==
    /\ agentUp /\ Switched /\ sup.stream = s /\ e >= loopNow /\ e > sup.expires
    /\ sup' = [sup EXCEPT !.expires = e]
    /\ ad' = l4d_adapter_renew_lease(ad, s, IF e > loopNow THEN e ELSE loopNow)
    /\ UNCHANGED <<ff, lost, ended, launches, ticked>> /\ Same

-----------------------------------------------------------------------------
(* ffmpeg_supervisor_tick: the adapter is polled, then the first check     *)
(* that applies is acted upon.                                             *)

LeaseExpired(x) == x.state \in {"running", "restarting"} /\ x.expires > 0 /\ loopNow > x.expires + Grace
Relaunch(x) == x.state = "restarting" /\ loopNow >= x.next
SessionGone(x) == x.state = "running" /\ x.mode = "desktop" /\ ~env.session
SourceGone(x) == x.state = "running" /\ x.mode \notin env.present
Exited(x) == x.state = "running" /\ ff.st = "dead"
ProgressStalled(x) == x.state = "running" /\ x.prog > 0 /\ loopNow - x.prog > Stall

Down(x, st) == sup' = [Cleaned(x) EXCEPT !.state = st, !.next = 0] /\ ff' = NoFF

\* The stream of a running adapter that has stopped is failed; so is that of an
\* ffmpeg that runs beside an idle adapter.
Polled(a) == IF ad.st # "NULL" /\ sup.state = "running" /\ a.st # "RUNNING"
             THEN [sup EXCEPT !.state = "failed"] ELSE sup

SupervisorTick(ok, job, sure) ==
    LET a == l4d_adapter_poll(ad, ok, sure)
        x == Polled(a)
        again == ad.st = "RESTARTING" /\ ad.deadline > loopNow /\ ad.next <= loopNow
    IN  /\ agentUp /\ ~ticked /\ ticked' = TRUE /\ ad' = a /\ lost' = lost /\ Same
        /\ again => launches < MaxLaunch
        /\ ended' = IF LeaseExpired(x) THEN ended \cup {x.stream} ELSE ended
        /\ IF LeaseExpired(x) THEN sup' = Released(x) /\ ff' = NoFF /\ UNCHANGED launches
           ELSE IF Relaunch(x)
                THEN IF ok /\ (x.mode = "desktop" => env.session)
                     THEN launch_ffmpeg_process([x EXCEPT !.next = 0], x.stream, job)
                     ELSE sup' = Rescheduled(x) /\ ff' = NoFF /\ UNCHANGED launches
           ELSE /\ launches' = IF again THEN launches + 1 ELSE launches
                /\ IF Exited(x) THEN sup' = Rescheduled(x) /\ ff' = NoFF
                   ELSE IF SessionGone(x) THEN Down(x, "session_unavailable")
                   ELSE IF SourceGone(x) THEN Down(x, "source_unavailable")
                   ELSE IF ProgressStalled(x) THEN sup' = Rescheduled(x) /\ ff' = NoFF
                   ELSE sup' = x /\ ff' = ff

\* ffmpeg_supervisor_cleanup, at the end of the agent.
Cleanup ==
    /\ agentUp /\ "crash" \in Around /\ agentUp' = FALSE /\ ff' = NoFF /\ lost' = {} /\ ad' = NoAd
    /\ stateFile' = [state |-> "stopped", pid |-> 0] /\ sup' = NoSup
    /\ holder' = 0 /\ ended' = {} /\ UNCHANGED <<loopNow, ticked, env, launches>>

\* The agent dies: what is in a job dies with it.
Crash ==
    /\ agentUp /\ "crash" \in Around /\ agentUp' = FALSE /\ stateFile' = [state |-> sup.state, pid |-> sup.pid]
    /\ holder' = IF ff.st = "alive" /\ ~ff.job THEN ff.id ELSE 0
    /\ sup' = NoSup /\ ff' = NoFF /\ ad' = NoAd /\ lost' = {} /\ ended' = {}
    /\ UNCHANGED <<loopNow, ticked, env, launches>>

\* The orphan ends, or its pid is given to another program.
PidReused ==
    /\ ~agentUp /\ stateFile.pid # 0 /\ holder # Foreign /\ holder' = Foreign
    /\ UNCHANGED <<loopNow, ticked, sup, ff, ad, lost, env, ended, agentUp, stateFile, launches>>

\* The process with the recorded pid was created when the recorded one was.
Ours == stateFile.state = "running" /\ stateFile.pid # 0 /\ holder = stateFile.pid

\* ffmpeg_supervisor_init and _reconcile.
Reconcile ==
    /\ ~agentUp /\ agentUp' = TRUE
    /\ holder' = IF Ours THEN 0 ELSE holder
    /\ UNCHANGED <<loopNow, ticked, sup, ff, ad, lost, env, ended, stateFile, launches>>

-----------------------------------------------------------------------------
(* The children and the world.                                             *)

Rest == UNCHANGED <<ended, agentUp, stateFile, holder, launches>>
FfmpegExits == agentUp /\ ff.st = "alive" /\ ff' = [ff EXCEPT !.st = "dead"] /\ UNCHANGED <<loopNow, ticked, sup, ad, lost, env>> /\ Rest
CaptureExits == agentUp /\ ad.child = "alive" /\ ad' = [ad EXCEPT !.child = "dead"] /\ UNCHANGED <<loopNow, ticked, sup, ff, lost, env>> /\ Rest
\* log_reader_thread
Progress == agentUp /\ ff.st = "alive" /\ sup.prog # loopNow /\ sup' = [sup EXCEPT !.prog = loopNow] /\ UNCHANGED <<loopNow, ticked, ff, ad, lost, env>> /\ Rest
Session == "session" \in Around /\ env' = [env EXCEPT !.session = ~@] /\ UNCHANGED <<loopNow, ticked, sup, ff, ad, lost>> /\ Rest
Source(m) == /\ "source" \in Around /\ env' = [env EXCEPT !.present = IF m \in @ THEN @ \ {m} ELSE @ \cup {m}]
             /\ UNCHANGED <<loopNow, ticked, sup, ff, ad, lost>> /\ Rest
Clock == /\ loopNow < MaxT /\ (agentUp => ticked) /\ loopNow' = loopNow + 1 /\ ticked' = FALSE
         /\ UNCHANGED <<sup, ff, ad, lost, env>> /\ Rest

Sures == IF Stubborn THEN BOOLEAN ELSE {TRUE}

StreamNext ==
    \/ \E s \in Streams, sure \in Sures :
          \/ StartCapture(s, sure) \/ StopStream(s, sure)
          \/ \E m \in Modes, ok, job \in BOOLEAN : StartFfmpeg(s, m, ok, job, sure)
    \/ \E s \in Streams, e \in 1 .. MaxExpiry : UpdateLease(s, e)
    \/ \E ok, job \in BOOLEAN, sure \in Sures : SupervisorTick(ok, job, sure)
    \/ Cleanup \/ Crash \/ PidReused \/ Reconcile
    \/ FfmpegExits \/ CaptureExits \/ Progress \/ Session \/ (\E m \in Modes : Source(m)) \/ Clock

StreamSpec == StreamInit /\ [][StreamNext]_streamVars

-----------------------------------------------------------------------------
(* Properties.                                                             *)

\* Types.
StreamTypeOK ==
    /\ sup.state \in States /\ (sup.state = "stopped" <=> sup.stream = None) /\ sup.mode \in Modes \cup {None} /\ sup.count \in 0 .. MaxRestarts + 1
    /\ ff.st \in {"none", "alive", "dead"} /\ launches \in 0 .. MaxLaunch
    /\ ad.st \in {"NULL", "IDLE", "RUNNING", "STOPPING", "RESTARTING", "FAILED"}
    /\ ad.child \in {"none", "alive", "dead"}

\* Two media processes never send at the same time, over switches, restarts,
\* failures, and starts from every state (launch_ffmpeg_process).
OneSender == Cardinality(Alive) <= 1

\* The process that runs belongs to the stream that is reported: a restart does
\* not bring back the one before (restart_ffmpeg_process_internal).
RightStream == sup.state = "running" => \A p \in Alive : p.stream = sup.stream

=============================================================================
