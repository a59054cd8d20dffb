------------------------------ MODULE ConAgent ------------------------------
(***************************************************************************)
(* The console agent (l4con): the RPC dispatcher of the MQTT thread, the   *)
(* one command worker, the local event endpoint that serves the command's  *)
(* own processes, the controller admission thread, and the drain call of   *)
(* an update, which may only be acknowledged once nothing of this runs.    *)
(*                                                                         *)
(* Locks that stay held from one step to the next are state: send_cs (cs), *)
(* the update admission lock (held shared by a handler, exclusively by the *)
(* drain) and the event endpoint's g_lock (ev.pc = "held"). The rest of    *)
(* the critical sections are single steps.                                 *)
(***************************************************************************)
EXTENDS Integers

CONSTANTS
  Tasks,        \* correlation ids the server uses
  Method,       \* task -> "exec" | "renew" | "cancel" | "ping" | "update" | "files" | "bad"
  Slots,        \* entries of the result cache (64 in the code)
  SiblingFound, \* the path of l4pin.exe can be derived from the agent's own
  MaxMessages,  \* TSK and RSP messages delivered, repeated ones included
  MaxUpdates,   \* update windows
  MaxLosses,    \* connection losses
  MaxEvents,    \* calls of the event endpoint
  MaxStops      \* stop requests (0 or 1)

ASSUME AgentAssumption == Slots \in Nat \ {0, 1} /\ "none" \notin Tasks

None == "none"
Free == [id |-> None, acted |-> FALSE, status |-> 0]
Quiet == {"none", "done"}
HandlerIdle == [pc |-> "idle", task |-> None, upd |-> FALSE, acted |-> FALSE, status |-> 0]
NoCommand == [task |-> None, running |-> FALSE, cancel |-> None, protected |-> FALSE]

VARIABLES
  recent, next,       \* state->recent, recent_next
  cmd, thread, code,  \* current_cmd, the worker thread's place, its exit code as an RPC status
  proc, job,          \* the child process; TRUE while its job is registered with the endpoint
  rpc,                  \* the MQTT thread: a handler in progress, a disconnect, the shutdown
  online, sendCs,           \* state->connected; the thread that keeps send_cs across steps
  files, admission,   \* task held by the file manager, by the admission thread
  upWindow, drain, acked, \* published update window (0: none), the drain call, the window it acknowledged
  ev,                 \* the event endpoint's call
  started, results, evicted, late,   \* history
  msgs, upWindows, losses, events, stops
agentWorld == <<msgs, upWindows, losses, events, stops>>
hist == <<started, results, evicted, late>>
cache == <<recent, next>>
cmdVars == <<cmd, thread, code, proc, job>>
agentVars == <<cache, cmdVars, rpc, online, sendCs, files, admission, upWindow, drain, acked, ev, hist, agentWorld>>

Statuses == {200, 202, 400, 404, 408, 409, 410, 500, 503}
AgentTypeOK ==
  /\ recent \in [1..Slots -> [id : Tasks \cup {None}, acted : BOOLEAN, status : Statuses \cup {0}]] /\ next \in 0..Slots - 1
  /\ cmd \in [task : Tasks \cup {None}, running : BOOLEAN, cancel : {None, "user", "replace"}, protected : BOOLEAN]
  /\ thread \in {"none", "boot", "loop", "closing", "result", "final", "done"} /\ code \in Statuses \cup {0}
  /\ proc \in {"none", "alive", "exit0", "exit1"} /\ job \in BOOLEAN
  /\ rpc \in [pc : {"idle", "lookup", "decide", "guard", "join", "start", "lost", "stopping", "joining", "exited"},
            task : Tasks \cup {None}, upd : BOOLEAN, acted : BOOLEAN, status : Statuses \cup {0}]
  /\ online \in BOOLEAN /\ sendCs \in {None, "main"}
  /\ files \in Tasks \cup {None} /\ admission \in [task : Tasks \cup {None}, working : BOOLEAN]
  /\ upWindow \in 0..MaxUpdates /\ acked \in 0..MaxUpdates
  /\ drain \in [pc : {"idle", "trying", "locked"}, window : 0..MaxUpdates]
  /\ ev \in [pc : {"idle", "held"}, protect : BOOLEAN]
  /\ started \in [Tasks -> Nat] /\ results \in [Tasks -> SUBSET Statuses]
  /\ evicted \subseteq Tasks /\ late \in BOOLEAN

AgentInit ==
  /\ recent = [n \in 1..Slots |-> Free] /\ next = 0
  /\ cmd = NoCommand /\ thread = "none" /\ code = 0 /\ proc = "none" /\ job = FALSE
  /\ rpc = HandlerIdle /\ online = TRUE /\ sendCs = None /\ files = None /\ admission = [task |-> None, working |-> FALSE]
  /\ upWindow = 0 /\ drain = [pc |-> "idle", window |-> 0] /\ acked = 0 /\ ev = [pc |-> "idle", protect |-> FALSE]
  /\ started = [t \in Tasks |-> 0] /\ results = [t \in Tasks |-> {}]
  /\ evicted = {} /\ late = FALSE
  /\ msgs = 0 /\ upWindows = 0 /\ losses = 0 /\ events = 0 /\ stops = 0

-----------------------------------------------------------------------------
(* Locks *)

Exclusive == drain.pc = "locked"
\* Mutant: the handler releases the admission lock once it has read the marker
HandlerShares_Parse == rpc.pc = "lookup"
\* handle_incoming_publish: the lock is held shared from the parse to the last call
HandlerShares == rpc.pc \in {"lookup", "decide", "guard", "join", "start"}
CsFree == sendCs = None
WorkerAlive == thread \notin Quiet

\* update_busy
Updating == upWindow # 0

-----------------------------------------------------------------------------
(* The result cache *)

NextSlot(n) == n % Slots
Found(t) == {n \in 1..Slots : recent[n].id = t}
\* rpc_recent: the next slot in turn, but one further if that is the running command's
SlotToTake ==
  IF cmd.running /\ recent[next + 1].id = cmd.task THEN ((next + 1) % Slots) + 1 ELSE next + 1
\* rpc_recent(create): the slot of t and, if it is new, what it displaces
SlotOf(t) == IF Found(t) # {} THEN CHOOSE n \in Found(t) : TRUE ELSE SlotToTake
Recall(t) == IF Found(t) # {} THEN recent[SlotOf(t)] ELSE [Free EXCEPT !.id = t]
Remember(t, entry) ==
  /\ recent' = [recent EXCEPT ![SlotOf(t)] = entry]
  /\ next' = IF Found(t) # {} THEN next ELSE NextSlot(SlotToTake)
  /\ evicted' = IF Found(t) # {} THEN evicted
                ELSE (evicted \cup {recent[SlotToTake].id}) \ {None}

\* rpc_result / rpc_status: kept in the cache, then published if there is a connection
TaskResult(t, status) ==
  /\ CsFree
  /\ Remember(t, [Recall(t) EXCEPT !.status = status])
  /\ results' = [results EXCEPT ![t] = @ \cup {status}]
NoResult == UNCHANGED <<cache, evicted, results>>

-----------------------------------------------------------------------------
(* The MQTT thread: one RPC message from the broker *)

\* The announcement of a task: an unaddressed 7002 acts at once, and the body is requested
Announce(t) ==
  /\ rpc.pc = "idle" /\ online /\ ~Exclusive /\ msgs < MaxMessages /\ msgs' = msgs + 1
  /\ IF Method[t] = "cancel" /\ ~Updating
     THEN /\ Remember(t, [Recall(t) EXCEPT !.acted = TRUE])
          /\ cmd' = IF ~Recall(t).acted /\ cmd.running THEN [cmd EXCEPT !.cancel = "user"] ELSE cmd
     ELSE UNCHANGED <<cache, evicted, cmd>>
  /\ UNCHANGED <<thread, code, proc, job, rpc, online, sendCs, files, admission, upWindow, drain, acked, ev,
                 started, results, late, upWindows, losses, events, stops>>

\* The body of a task: parsed, and the marker read (update_busy)
Receive(t) ==
  /\ rpc.pc = "idle" /\ online /\ ~Exclusive /\ msgs < MaxMessages /\ msgs' = msgs + 1
  /\ IF Method[t] = "bad"
     THEN TaskResult(t, 400) /\ UNCHANGED rpc
     ELSE NoResult /\ rpc' = [HandlerIdle EXCEPT !.pc = "lookup", !.task = t, !.upd = Updating]
  /\ UNCHANGED <<cmdVars, online, sendCs, files, admission, upWindow, drain, acked, ev,
                 started, late, upWindows, losses, events, stops>>

\* Mutant: the slot is not marked
Lookup_Unmarked ==
  /\ rpc.pc = "lookup" /\ CsFree
  /\ LET e == Recall(rpc.task)
     IN  /\ rpc' = [rpc EXCEPT !.pc = "decide", !.acted = e.acted, !.status = e.status]
         /\ Remember(rpc.task, e)
  /\ UNCHANGED <<cmdVars, online, sendCs, files, admission, upWindow, drain, acked, ev, started, results, late, agentWorld>>
\* The slot is found or made and marked acted before anything is done for the task
Lookup ==
  /\ rpc.pc = "lookup" /\ CsFree
  /\ LET e == Recall(rpc.task)
     IN  /\ rpc' = [rpc EXCEPT !.pc = "decide", !.acted = e.acted, !.status = e.status]
         /\ Remember(rpc.task, [e EXCEPT !.acted = TRUE])
  /\ UNCHANGED <<cmdVars, online, sendCs, files, admission, upWindow, drain, acked, ev, started, results, late, agentWorld>>

Answer(status) == TaskResult(rpc.task, status) /\ rpc' = HandlerIdle
Silent == NoResult /\ rpc' = HandlerIdle

\* A cached result is sent again; a window refuses; a task under way is left alone
DecideKnown ==
  /\ rpc.pc = "decide"
  /\ CASE rpc.status # 0 -> Answer(rpc.status)
       [] rpc.status = 0 /\ rpc.upd /\ Method[rpc.task] # "update" -> Answer(409)
       [] rpc.status = 0 /\ ~(rpc.upd /\ Method[rpc.task] # "update") /\ rpc.acted ->
            IF Method[rpc.task] = "cancel" THEN Answer(200) ELSE Silent
       [] OTHER -> FALSE
  /\ UNCHANGED <<cmdVars, online, sendCs, files, admission, upWindow, drain, acked, ev, started, late, agentWorld>>
Fresh == rpc.pc = "decide" /\ rpc.status = 0 /\ ~rpc.acted /\ ~(rpc.upd /\ Method[rpc.task] # "update")

\* 7003
DispatchPing ==
  /\ Fresh /\ Method[rpc.task] = "ping" /\ Answer(200)
  /\ UNCHANGED <<cmdVars, online, sendCs, files, admission, upWindow, drain, acked, ev, started, late, agentWorld>>

\* 7002 by session or unaddressed
DispatchCancel ==
  /\ Fresh /\ Method[rpc.task] = "cancel"
  /\ IF cmd.running THEN cmd' = [cmd EXCEPT !.cancel = "user"] /\ Answer(200)
                    ELSE UNCHANGED cmd /\ Answer(404)
  /\ UNCHANGED <<thread, code, proc, job, online, sendCs, files, admission, upWindow, drain, acked, ev, started, late, agentWorld>>

\* update_admission_submit takes one request at a time
AdmissionFree == admission.task = None
\* 7031
DispatchUpdate ==
  /\ Fresh /\ Method[rpc.task] = "update"
  /\ IF rpc.upd \/ ~AdmissionFree
     THEN Answer(409) /\ UNCHANGED admission
     ELSE Silent /\ admission' = [task |-> rpc.task, working |-> FALSE]
  /\ UNCHANGED <<cmdVars, online, sendCs, files, upWindow, drain, acked, ev, started, late, agentWorld>>

\* 7020-7023: fm_enqueue
DispatchFiles ==
  /\ Fresh /\ Method[rpc.task] = "files"
  /\ IF cmd.running \/ files # None THEN Answer(409) /\ UNCHANGED files
                                    ELSE Silent /\ files' = rpc.task
  /\ UNCHANGED <<cmdVars, online, sendCs, admission, upWindow, drain, acked, ev, started, late, agentWorld>>

\* 7001/7011: refused beside the file manager, with a PIN about to expire, and beside a protected renewal
DispatchExec(expired) ==
  /\ Fresh /\ Method[rpc.task] \in {"exec", "renew"}
  /\ expired => Method[rpc.task] = "renew"
  /\ CASE files # None -> Answer(409)
       [] files = None /\ expired -> Answer(410)
       [] files = None /\ ~expired /\ WorkerAlive /\ cmd.protected -> Answer(409)
       [] OTHER -> NoResult /\ rpc' = [rpc EXCEPT !.pc = IF thread = "none" THEN "start" ELSE "guard"]
  /\ UNCHANGED <<cmdVars, online, sendCs, files, admission, upWindow, drain, acked, ev, started, late, agentWorld>>

\* event_job_cancel_replacement: decided under the lock that grants the protection
Replaceable == ~cmd.protected
Guard ==
  /\ rpc.pc = "guard" /\ ev.pc = "idle"
  /\ IF WorkerAlive
     THEN IF Replaceable
          THEN cmd' = [cmd EXCEPT !.cancel = "replace"] /\ NoResult /\ rpc' = [rpc EXCEPT !.pc = "join"]
          ELSE UNCHANGED cmd /\ Answer(409)
     ELSE UNCHANGED cmd /\ NoResult /\ rpc' = [rpc EXCEPT !.pc = "join"]
  /\ UNCHANGED <<thread, code, proc, job, online, sendCs, files, admission, upWindow, drain, acked, ev, started, late, agentWorld>>

\* The old worker is joined within five seconds, or the new task is refused
Join ==
  /\ rpc.pc = "join"
  /\ \/ thread \in Quiet /\ thread' = "none" /\ NoResult /\ rpc' = [rpc EXCEPT !.pc = "start"]
     \/ WorkerAlive /\ UNCHANGED thread /\ Answer(409)
  /\ UNCHANGED <<cmd, code, proc, job, online, sendCs, files, admission, upWindow, drain, acked, ev, started, late, agentWorld>>

\* Mutant: a thread that cannot be made is not reported
Start_Silent(made) ==
  /\ rpc.pc = "start" /\ CsFree
  /\ cmd' = [task |-> rpc.task, running |-> made, cancel |-> None, protected |-> Method[rpc.task] = "renew"]
  /\ thread' = (IF made THEN "boot" ELSE "none") /\ Silent
  /\ UNCHANGED <<code, proc, job, online, sendCs, files, admission, upWindow, drain, acked, ev, started, late, agentWorld>>
\* The context is filled in and the worker started, or its thread cannot be made
Start(made) ==
  /\ rpc.pc = "start" /\ CsFree
  /\ cmd' = [task |-> rpc.task, running |-> made, cancel |-> None, protected |-> Method[rpc.task] = "renew"]
  /\ thread' = (IF made THEN "boot" ELSE "none")
  /\ IF made THEN Silent ELSE Answer(503)
  /\ UNCHANGED <<code, proc, job, online, sendCs, files, admission, upWindow, drain, acked, ev, started, late, agentWorld>>

-----------------------------------------------------------------------------
(* The worker: command_runner_execute and command_worker_thread *)

\* Refused by the blacklist or the input check; no process could be made; or no path to l4pin.exe:
\* that return leaves the caller's exit code at its initial 0
BootFails ==
  /\ thread = "boot" /\ thread' = "result"
  /\ code' \in IF Method[cmd.task] = "renew" /\ ~SiblingFound THEN {200} ELSE {500}
  /\ UNCHANGED <<cache, cmd, proc, job, rpc, online, sendCs, files, admission, upWindow, drain, acked, ev, hist, agentWorld>>

\* The process is created suspended, put into its job, which may fail, and released
Boot(isolated) ==
  /\ thread = "boot" /\ (Method[cmd.task] = "renew" => SiblingFound)
  /\ isolated => ev.pc = "idle"
  /\ thread' = "loop" /\ proc' = "alive" /\ job' = isolated
  /\ started' = [started EXCEPT ![cmd.task] = @ + 1]
  /\ UNCHANGED <<cache, cmd, code, rpc, online, sendCs, files, admission, upWindow, drain, acked, ev, results, evicted, late, agentWorld>>

\* The process ends by itself
ProcessExits(how) ==
  /\ proc = "alive" /\ proc' = how
  /\ UNCHANGED <<cache, cmd, thread, code, job, rpc, online, sendCs, files, admission, upWindow, drain, acked, ev, hist, agentWorld>>

\* event_job_revoke waits for the endpoint's lock; the job (or the process tree) is terminated
Kill(status) == ev.pc = "idle" /\ job' = FALSE /\ proc' = "none" /\ code' = status /\ thread' = "closing"
LoopCancel == cmd.cancel # None /\ Kill(409)
LoopTimeout == cmd.cancel = None /\ Kill(408)
LoopTruncate == cmd.cancel = None /\ Kill(500)
LoopExit ==
  /\ cmd.cancel = None /\ proc \in {"exit0", "exit1"}
  /\ proc' = "none" /\ code' = (IF proc = "exit0" THEN 200 ELSE 500) /\ thread' = "closing" /\ UNCHANGED job
\* One turn of the loop: cancellation, lifetime, output limit, end of the process
Loop ==
  /\ thread = "loop"
  /\ LoopCancel \/ LoopTimeout \/ LoopTruncate \/ LoopExit
  /\ UNCHANGED <<cache, cmd, rpc, online, sendCs, files, admission, upWindow, drain, acked, ev, hist, agentWorld>>

\* The job is revoked and closed; is_running is cleared before the result exists
Close ==
  /\ thread = "closing" /\ ev.pc = "idle"
  /\ job' = FALSE /\ cmd' = [cmd EXCEPT !.running = FALSE] /\ thread' = "result"
  /\ UNCHANGED <<cache, code, proc, rpc, online, sendCs, files, admission, upWindow, drain, acked, ev, hist, agentWorld>>

WorkerResult ==
  /\ thread = "result" /\ TaskResult(cmd.task, code) /\ thread' = "final" /\ code' = 0
  /\ UNCHANGED <<cmd, proc, job, rpc, online, sendCs, files, admission, upWindow, drain, acked, ev, started, late, agentWorld>>

WorkerDone ==
  /\ thread = "final" /\ CsFree /\ thread' = "done" /\ cmd' = [cmd EXCEPT !.running = FALSE]
  /\ UNCHANGED <<cache, code, proc, job, rpc, online, sendCs, files, admission, upWindow, drain, acked, ev, hist, agentWorld>>

-----------------------------------------------------------------------------
(* The event endpoint, the admission thread and the file manager *)

\* dispatch_event: the caller is a member of the registered job, which is not cancelled
EventAdmits == job /\ cmd.cancel = None
\* The endpoint serves one call at a time, under g_lock
EventEnter(protect) ==
  /\ ev.pc = "idle" /\ events < MaxEvents /\ events' = events + 1
  /\ EventAdmits
  /\ ev' = [pc |-> "held", protect |-> protect]
  /\ UNCHANGED <<cache, cmdVars, rpc, online, sendCs, files, admission, upWindow, drain, acked, hist, msgs, upWindows, losses, stops>>

\* publish_user_event_locked: nothing is sent while a window is open
MaySend == ~Updating /\ online
\* A protection request sets the flag; an event takes the admission lock shared and is sent
EventLeave ==
  /\ ev.pc = "held" /\ ev' = [pc |-> "idle", protect |-> FALSE]
  /\ IF ev.protect
     THEN /\ cmd' = [cmd EXCEPT !.protected = TRUE] /\ UNCHANGED late
     ELSE /\ ~Exclusive /\ CsFree /\ late' = (late \/ (MaySend /\ upWindow # 0 /\ acked = upWindow))
          /\ UNCHANGED <<cmd>>
  /\ UNCHANGED <<cache, thread, code, proc, job, rpc, online, sendCs, files, admission, upWindow, drain, acked, started, results, evicted, agentWorld>>

\* update_admission run(): the request is taken, the host launched and the reply kept
AdmissionTake ==
  /\ admission.task # None /\ ~admission.working /\ admission' = [admission EXCEPT !.working = TRUE]
  /\ UNCHANGED <<cache, cmdVars, rpc, online, sendCs, files, upWindow, drain, acked, ev, hist, agentWorld>>
AdmissionReply(accepted) ==
  /\ admission.working /\ TaskResult(admission.task, IF accepted THEN 202 ELSE 503)
  /\ admission' = [task |-> None, working |-> FALSE]
  /\ UNCHANGED <<cmdVars, rpc, online, sendCs, files, upWindow, drain, acked, ev, started, late, agentWorld>>

\* The file manager ends the task and its lease (external: modelled by its two calls)
FilesDone ==
  /\ files # None /\ TaskResult(files, 200) /\ files' = None
  /\ UNCHANGED <<cmdVars, rpc, online, sendCs, admission, upWindow, drain, acked, ev, started, late, agentWorld>>

-----------------------------------------------------------------------------
(* The update window and the drain call *)

OpenUpdate ==
  /\ upWindow = 0 /\ upWindows < MaxUpdates /\ upWindows' = upWindows + 1 /\ upWindow' = upWindows + 1
  /\ UNCHANGED <<cache, cmdVars, rpc, online, sendCs, files, admission, drain, acked, ev, hist, msgs, losses, events, stops>>
CloseUpdate ==
  /\ upWindow # 0 /\ upWindow' = 0
  /\ UNCHANGED <<cache, cmdVars, rpc, online, sendCs, files, admission, drain, acked, ev, hist, agentWorld>>

\* l4_update_consumer_drain: the controller names the window it has published
DrainCall ==
  /\ drain.pc = "idle" /\ upWindow # 0 /\ acked # upWindow /\ stops = 0
  /\ drain' = [pc |-> "trying", window |-> upWindow]
  /\ UNCHANGED <<cache, cmdVars, rpc, online, sendCs, files, admission, upWindow, acked, ev, hist, agentWorld>>
\* TryAcquireSRWLockExclusive succeeds only with no shared holder
DrainLock ==
  /\ drain.pc = "trying" /\ ~HandlerShares
  /\ drain' = IF upWindow = drain.window THEN [drain EXCEPT !.pc = "locked"] ELSE [pc |-> "idle", window |-> 0]
  /\ UNCHANGED <<cache, cmdVars, rpc, online, sendCs, files, admission, upWindow, acked, ev, hist, agentWorld>>

\* probe_work_busy, with the file manager and the admission thread
WorkBusy == cmd.running \/ WorkerAlive \/ files # None \/ admission.task # None
\* busy() takes send_cs; then the marker is read again
DrainCheck ==
  /\ drain.pc = "locked" /\ CsFree
  /\ IF WorkBusy THEN drain' = [drain EXCEPT !.pc = "trying"] /\ UNCHANGED acked
     ELSE /\ drain' = [pc |-> "idle", window |-> 0]
          /\ acked' = IF upWindow = drain.window THEN upWindow ELSE acked
  /\ UNCHANGED <<cache, cmdVars, rpc, online, sendCs, files, admission, upWindow, ev, hist, agentWorld>>
\* The call's deadline, or its caller's cancellation
DrainGivesUp ==
  /\ drain.pc = "trying" /\ drain' = [pc |-> "idle", window |-> 0]
  /\ UNCHANGED <<cache, cmdVars, rpc, online, sendCs, files, admission, upWindow, acked, ev, hist, agentWorld>>

-----------------------------------------------------------------------------
(* Loss of the connection, reconnect and stop *)

\* The read loop has ended: send_cs is taken and connected cleared
Lose ==
  /\ rpc.pc = "idle" /\ online /\ losses < MaxLosses /\ losses' = losses + 1
  /\ sendCs' = "main" /\ online' = FALSE /\ rpc' = [HandlerIdle EXCEPT !.pc = "lost"]
  /\ UNCHANGED <<cache, cmdVars, files, admission, upWindow, drain, acked, ev, hist, msgs, upWindows, events, stops>>
\* fm_connection(false) behind the admission lock, with send_cs still held
LinkLost ==
  /\ rpc.pc \in {"lost", "stopping"} /\ ~Exclusive
  /\ files' = None /\ sendCs' = None /\ rpc' = [HandlerIdle EXCEPT !.pc = IF rpc.pc = "lost" THEN "idle" ELSE "joining"]
  /\ UNCHANGED <<cache, cmdVars, online, admission, upWindow, drain, acked, ev, hist, agentWorld>>
Reconnect ==
  /\ rpc.pc = "idle" /\ ~online /\ online' = TRUE
  /\ UNCHANGED <<cache, cmdVars, rpc, sendCs, files, admission, upWindow, drain, acked, ev, hist, agentWorld>>

\* The stop event: the running command is cancelled, then as for a loss
Stop ==
  /\ rpc.pc = "idle" /\ online /\ stops < MaxStops /\ stops' = stops + 1
  /\ cmd' = IF cmd.running THEN [cmd EXCEPT !.cancel = "user"] ELSE cmd
  /\ sendCs' = "main" /\ online' = FALSE /\ rpc' = [HandlerIdle EXCEPT !.pc = "stopping"]
  /\ UNCHANGED <<cache, thread, code, proc, job, files, admission, upWindow, drain, acked, ev, hist, msgs, upWindows, losses, events>>
\* The probe server, the admission thread, the event endpoint and the worker are joined in that order
Exit ==
  /\ rpc.pc = "joining" /\ drain.pc = "idle" /\ admission.task = None /\ ev.pc = "idle" /\ ~WorkerAlive
  /\ rpc' = [HandlerIdle EXCEPT !.pc = "exited"] /\ thread' = "none"
  /\ UNCHANGED <<cache, cmd, code, proc, job, online, sendCs, files, admission, upWindow, drain, acked, ev, hist, agentWorld>>

CommandWorker == BootFails \/ (\E i \in BOOLEAN : Boot(i)) \/ Loop \/ Close \/ WorkerResult \/ WorkerDone
Handler == Lookup \/ DecideKnown \/ DispatchPing \/ DispatchCancel \/ DispatchUpdate \/ DispatchFiles
           \/ (\E x \in BOOLEAN : DispatchExec(x)) \/ Guard \/ Join \/ (\E m \in BOOLEAN : Start(m))
Alive == rpc.pc # "exited"
AgentNext ==
  \/ \E t \in Tasks : Announce(t) \/ Receive(t)
  \/ Handler \/ (Alive /\ CommandWorker)
  \/ \E how \in {"exit0", "exit1"} : ProcessExits(how)
  \/ (\E p \in BOOLEAN : EventEnter(p)) \/ EventLeave
  \/ AdmissionTake \/ (\E a \in BOOLEAN : AdmissionReply(a)) \/ FilesDone
  \/ OpenUpdate \/ CloseUpdate \/ DrainCall \/ DrainLock \/ DrainCheck \/ DrainGivesUp
  \/ Lose \/ LinkLost \/ Reconnect \/ Stop \/ Exit
AgentSpec == AgentInit /\ [][AgentNext]_agentVars

\* Every thread keeps running; a command's lifetime ends it whatever its process does. A waiter
\* of the lock that the drain takes again and again is woken by each release (SF)
AgentFairness == WF_agentVars(Handler) /\ WF_agentVars(CommandWorker) /\ SF_agentVars(EventLeave) /\ WF_agentVars(AdmissionTake)
            /\ WF_agentVars(\E a \in BOOLEAN : AdmissionReply(a)) /\ WF_agentVars(FilesDone)
            /\ WF_agentVars(DrainLock \/ DrainCheck)
AgentFairSpec == AgentSpec /\ AgentFairness

-----------------------------------------------------------------------------
(* Properties *)

\* Once a drain has acknowledged a window, nothing of the agent's work runs, starts or is
\* announced until that window is closed: no decision taken before it opened is carried out after
\* (l4_update_consumer_drain, handle_incoming_publish)
DrainQuiet ==
  /\ ~late
  /\ (acked # 0 /\ upWindow = acked) =>
        /\ ~WorkerAlive /\ proc = "none" /\ files = None /\ admission.task = None
        /\ ~(rpc.pc \in {"guard", "join", "start"})

\* Until the ring has displaced a task, its process is started at most once however often its
\* announcement and its body are delivered (rpc_recent, acted)
RunOnce == \A t \in Tasks \ evicted : started[t] <= 1

\* Every body the agent has taken on is answered, through refusals, failures to start and the end of
\* its process (the error paths of handle_incoming_publish_locked and command_worker_thread)
Answered == \A t \in Tasks : (rpc.pc = "lookup" /\ rpc.task = t) ~> (results[t] # {})
=============================================================================
