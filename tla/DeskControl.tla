---------------------------- MODULE DeskControl ----------------------------
(***************************************************************************)
(* The control plane of the desktop agent (l4desk): the MQTT thread        *)
(* (mqtt_client.c), the input worker beside it, the command handler        *)
(* (ctl_protocol.c), its answers kept per command_id (dedup_cache.c), and  *)
(* the keys the agent holds down (input_inject.c).                         *)
(*                                                                         *)
(* The MQTT thread runs the stream commands and the supervisor's tick; the *)
(* worker runs clicks, keys and shortcuts.  One key stands for what the    *)
(* agent may hold down.                                                    *)
(***************************************************************************)
EXTENDS Naturals, Sequences, FiniteSets

CONSTANTS Cmds,      \* command_id
          Kind,      \* [Cmds -> Kinds]
          Lease,     \* how far ahead a command's expires_at_ms lies
          ControlGrace,     \* 5 s
          Depth,     \* of the worker's queue: 2
          CacheSize, \* 256 answers
          MaxSends,  \* how often the broker delivers one command
          MaxControlTime

Kinds == {"start", "stop", "renew", "press", "down", "up"}
Inputs == {"press", "down", "up"}

\* What the constants satisfy
ASSUME DeskAssumption ==
    /\ Kind \in [Cmds -> Kinds] /\ IsFiniteSet(Cmds)
    /\ {Lease, ControlGrace, Depth, CacheSize, MaxSends, MaxControlTime} \subseteq Nat

VARIABLES controlNow,
          link,      \* "down", "up", or "dead": a connection that is gone unnoticed
          toldServer,      \* what the server was last told: does the stream run?
          stream,    \* [on, exp]: the supervisor's stream and its lease
          sends,     \* deliveries of each command
          inputQueue, sig,\* InputWorker: queue and hEvent
          wk,        \* the worker: [pc, cmd]
          cache,     \* ids with a kept answer
          ran,       \* how often each command took effect (for the properties)
          keyHeld,      \* is the key down?
          tracked,   \* s_key_is_down
          pending,   \* s_pending_cleanup
          access     \* desktop_check_input_access: is the input desktop ours?

controlVars == <<controlNow, link, toldServer, stream, sends, inputQueue, sig, wk, cache, ran, keyHeld, tracked, pending, access>>
keys == <<keyHeld, tracked, pending>>

WorkerIdle == [pc |-> "idle", cmd |-> "none"]

-----------------------------------------------------------------------------
(* The kept answers and the keys.                                          *)

\* Mutant: an answer is not found again.
dedup_cache_get_Miss(c) == FALSE

dedup_cache_get(c) == c \in cache

\* A full cache loses an answer.  The oldest goes first, but last_accessed counts
\* whole seconds: any may be the oldest.
dedup_cache_put(c) ==
    IF c \in cache \/ Cardinality(cache) < CacheSize THEN cache' = cache \cup {c}
    ELSE \E old \in cache : cache' = (cache \ {old}) \cup {c}

\* input_release_all: later, when the desktop is not ours.
input_release_all ==
    IF access THEN keyHeld' = (keyHeld /\ ~tracked) /\ tracked' = FALSE /\ pending' = FALSE
    ELSE pending' = TRUE /\ UNCHANGED <<keyHeld, tracked>>

-----------------------------------------------------------------------------
(* The MQTT thread.                                                        *)

ControlInit ==
    /\ controlNow = 0 /\ link = "down" /\ toldServer = FALSE /\ stream = [on |-> FALSE, exp |-> 0]
    /\ sends = [c \in Cmds |-> 0] /\ inputQueue = <<>> /\ sig = FALSE /\ wk = WorkerIdle /\ cache = {}
    /\ ran = [c \in Cmds |-> 0] /\ keyHeld = FALSE /\ tracked = FALSE /\ pending = FALSE /\ access = TRUE

Runs(c) == ran' = [ran EXCEPT ![c] = @ + 1]
\* publish_stream_event and publish_presence reach the server over a live link only.
Tell == toldServer' = IF link = "up" THEN stream'.on ELSE toldServer

\* A stream command: answered from the cache, or run and its answer kept.
StreamCommand(c) ==
    /\ IF dedup_cache_get(c) THEN UNCHANGED <<stream, ran, cache>> /\ UNCHANGED keys
       ELSE \/ /\ Kind[c] = "start" /\ Runs(c) /\ UNCHANGED keys
               /\ stream' = [on |-> TRUE, exp |-> controlNow + Lease] /\ dedup_cache_put(c)
            \/ /\ Kind[c] = "stop" /\ Runs(c) /\ dedup_cache_put(c)
               /\ IF stream.on THEN stream' = [on |-> FALSE, exp |-> 0] /\ input_release_all
                  ELSE UNCHANGED stream /\ UNCHANGED keys
            \* a renewal of nothing is refused and not kept
            \/ /\ Kind[c] = "renew" /\ UNCHANGED keys
               /\ IF stream.on
                  THEN /\ Runs(c) /\ dedup_cache_put(c)
                       /\ stream' = [stream EXCEPT !.exp = IF controlNow + Lease > @ THEN controlNow + Lease ELSE @]
                  ELSE UNCHANGED <<stream, ran, cache>>
    /\ Tell /\ UNCHANGED <<inputQueue, sig>>

\* An input command: queued for the worker, or dropped when the queue is full.
Queued(c) == IF Len(inputQueue) < Depth THEN Append(inputQueue, c) ELSE inputQueue

InputCommand(c) ==
    /\ inputQueue' = Queued(c) /\ sig' = (sig \/ Len(inputQueue) < Depth)
    /\ UNCHANGED <<stream, ran, cache, toldServer>> /\ UNCHANGED keys

\* A command arrives, perhaps again: QoS 1 is acknowledged at once.
Deliver(c) ==
    /\ link = "up" /\ sends[c] < MaxSends /\ sends' = [sends EXCEPT ![c] = @ + 1]
    /\ IF Kind[c] \in Inputs THEN InputCommand(c) ELSE StreamCommand(c)
    /\ UNCHANGED <<controlNow, link, wk, access>>

\* The supervisor's tick, of a connected loop only: the lease watchdog.
LeaseTick ==
    /\ link # "down" /\ stream.on /\ controlNow > stream.exp + ControlGrace
    /\ stream' = [on |-> FALSE, exp |-> 0] /\ input_release_all /\ Tell
    /\ UNCHANGED <<controlNow, link, sends, inputQueue, sig, wk, cache, ran, access>>

\* What the presence after the CONNACK says.
Presence == stream.on

Connect ==
    /\ link = "down" /\ link' = "up" /\ toldServer' = Presence
    /\ UNCHANGED <<controlNow, stream, sends, inputQueue, sig, wk, cache, ran, access>> /\ UNCHANGED keys

\* The loop meets the end of its connection.
Disconnect ==
    /\ link # "down" /\ link' = "down"
    /\ UNCHANGED <<controlNow, toldServer, stream, sends, inputQueue, sig, wk, cache, ran, access>> /\ UNCHANGED keys

-----------------------------------------------------------------------------
(* input_worker_proc.                                                      *)

\* The auto-reset event lets the worker take one command, whatever is queued.
Take ==
    /\ wk.pc = "idle" /\ sig /\ sig' = FALSE
    /\ IF inputQueue = <<>> THEN UNCHANGED <<wk, inputQueue>>
       ELSE wk' = [pc |-> "gate", cmd |-> Head(inputQueue)] /\ inputQueue' = Tail(inputQueue)
    /\ UNCHANGED <<controlNow, link, toldServer, stream, sends, cache, ran, access>> /\ UNCHANGED keys

\* The gate for input: a stream runs, in desktop mode, with the command's ids, and
\* the desktop is ours.
InputAllowed == stream.on /\ access

\* ctl_handle_command: expired or seen before, refused at the gate, or let
\* through; the command's own expiry prolongs the lease.
Gate ==
    /\ wk.pc = "gate"
    /\ \/ wk' = WorkerIdle /\ UNCHANGED <<cache, stream>>       \* its TTL has passed
       \/ /\ dedup_cache_get(wk.cmd) /\ wk' = WorkerIdle /\ UNCHANGED <<cache, stream>>
       \/ /\ ~dedup_cache_get(wk.cmd) /\ ~InputAllowed
          /\ wk' = WorkerIdle /\ dedup_cache_put(wk.cmd) /\ UNCHANGED stream
       \/ /\ ~dedup_cache_get(wk.cmd) /\ InputAllowed /\ UNCHANGED cache
          /\ stream' = [stream EXCEPT !.exp = IF controlNow + Lease > @ THEN controlNow + Lease ELSE @]
          /\ wk' = [wk EXCEPT !.pc = "inject"]
    /\ UNCHANGED <<controlNow, link, toldServer, sends, inputQueue, sig, ran, access>> /\ UNCHANGED keys

Answered == wk' = WorkerIdle /\ dedup_cache_put(wk.cmd)

KeyDown(p) == keyHeld' = TRUE /\ tracked' = TRUE /\ pending' = p

\* The key goes down, after what is still to be released; a press waits 40 ms.
\* sent: does SendInput accept the event?
Inject(sent) ==
    /\ wk.pc = "inject"
    /\ LET free == pending /\ access        \* input_check_pending_cleanup
           k == Kind[wk.cmd]
       IN  IF ~access THEN Answered /\ UNCHANGED <<ran>> /\ UNCHANGED keys
           ELSE IF ~sent
           THEN /\ Answered /\ UNCHANGED <<ran>>
                /\ IF free THEN input_release_all ELSE UNCHANGED keys
           ELSE /\ Runs(wk.cmd)
                /\ IF k = "up"
                   THEN keyHeld' = FALSE /\ tracked' = FALSE /\ pending' = (pending /\ ~free) /\ Answered
                   ELSE /\ KeyDown(pending /\ ~free)
                        /\ IF k = "press" THEN wk' = [wk EXCEPT !.pc = "release"] /\ UNCHANGED cache ELSE Answered
    /\ UNCHANGED <<controlNow, link, toldServer, stream, sends, inputQueue, sig, access>>

\* The key goes up, unless the desktop was taken or the event is refused.
Release(sent) ==
    /\ wk.pc = "release" /\ Answered
    /\ IF access /\ sent THEN keyHeld' = FALSE /\ tracked' = FALSE /\ UNCHANGED pending
       ELSE pending' = TRUE /\ UNCHANGED <<keyHeld, tracked>>
    /\ UNCHANGED <<controlNow, link, toldServer, stream, sends, inputQueue, sig, ran, access>>

-----------------------------------------------------------------------------
(* The world.                                                              *)

ControlRest == UNCHANGED <<toldServer, stream, sends, inputQueue, sig, wk, cache, ran>> /\ UNCHANGED keys
LinkDies == link = "up" /\ link' = "dead" /\ UNCHANGED <<controlNow, access>> /\ ControlRest
Desktop == access' = ~access /\ UNCHANGED <<controlNow, link>> /\ ControlRest
ControlClock == controlNow < MaxControlTime /\ controlNow' = controlNow + 1 /\ UNCHANGED <<link, access>> /\ ControlRest

Worker == Take \/ Gate \/ (\E sent \in BOOLEAN : Inject(sent) \/ Release(sent))
ControlNext == (\E c \in Cmds : Deliver(c)) \/ LeaseTick \/ Connect \/ Disconnect \/ Worker \/ LinkDies \/ Desktop \/ ControlClock

ControlSpec == ControlInit /\ [][ControlNext]_controlVars

-----------------------------------------------------------------------------
(* Properties.                                                             *)

\* Types.
ControlTypeOK ==
    /\ link \in {"down", "up", "dead"} /\ Len(inputQueue) <= Depth /\ Cardinality(cache) <= CacheSize
    /\ wk.pc \in {"idle", "gate", "inject", "release"} /\ stream.exp \in 0 .. MaxControlTime + Lease

\* A command takes effect once, however often it is delivered, and whichever
\* thread handles it (dedup_cache_get, dedup_cache_put).
AtMostOnce == \A c \in Cmds : ran[c] <= 1

=============================================================================
