----------------------------- MODULE CaptureGate -----------------------------
(***************************************************************************)
(* The safety gate of l4capture and the threads around it: commands read   *)
(* from the parent's pipe (ipc_pipe.c, ipc_protocol.c), the lease they     *)
(* start and renew (deadline.c, safety_gate.c), the main loop that checks  *)
(* the gate and sends access units (main.c run), and the writer thread     *)
(* that reports to the parent.  The gate is one lock: every l4c_safety_*   *)
(* call is one step.  The main loop takes its clock once at the top of an  *)
(* iteration; capture and encode may take any time, so the clock it uses   *)
(* later is old, except where the code reads a fresh one.                  *)
(*                                                                         *)
(* A command is a record; on the pipe it is two parts, its header and its  *)
(* payload, which may come in different reads.  An "alien" header has a    *)
(* version, type or length valid_length refuses; "bad" stands for a whole  *)
(* frame that l4c_ipc_decode or l4c_safety_command refuses: a wrong lease  *)
(* or stream identity, port, rectangle or profile, or no sequence number.  *)
(***************************************************************************)
EXTENDS Integers, Sequences, FiniteSets, SequencesExt

CONSTANTS
    Commands,       \* what the parent may write: [type, seq, deadline]
    MaxCommands,    \* bound: commands of one behaviour
    MaxEvents,      \* bound: degradation events of one behaviour
    QueueCap,       \* L4C_STATUS_QUEUE_CAPACITY
    WriterTimeout,  \* L4C_WRITER_TIMEOUT_MS
    IdrMin,         \* L4C_FORCE_IDR_MIN_INTERVAL_MS
    MetricsMs,      \* the period of EVENT_METRICS
    MaxTime         \* bound: ticks of one behaviour

ASSUME GateAssumption ==
    /\ {QueueCap, WriterTimeout, IdrMin, MetricsMs} \subseteq Nat \ {0}
    /\ {MaxCommands, MaxEvents, MaxTime} \subseteq Nat
    /\ Commands \subseteq [type : {"start", "renew", "stop", "idr", "bad", "alien"},
                            seq : Nat, deadline : Nat]

VARIABLES
    now,      \* l4c_now_monotonic_ms
    desk,     \* is the interactive desktop available
    parent,   \* the parent's end: "open" or "closed"
    input,    \* parts written and not yet read: [part, cmd]
    parser,   \* l4c_ipc_parser_t: has it a header without its payload
    gate,     \* l4c_safety_gate_t with its lease
    queue,    \* status packets [type, at]
    writer,   \* the writer thread: [st, msg]
    delivered,\* what the parent has been sent: READY how often, HIGH_LOAD or not
    pc,       \* where the main loop is
    loop,     \* what it holds: snap, sess, au
    ps,       \* the pipeline: active, ready, lastMetrics
    ghost     \* commands and events so far, AUs sent, IDR sent, high-load stop

vars == <<now, desk, parent, input, parser, gate, queue, writer, delivered, pc, loop, ps, ghost>>

-----------------------------------------------------------------------------
(* The gate.                                                               *)

\* stop_locked: the first reason stays, a pending IDR is dropped
Stop(g, reason) ==
    IF g.stopped THEN g ELSE [g EXCEPT !.stopped = TRUE, !.reason = reason, !.idr = FALSE]

Later(a, b) == IF a > b THEN a ELSE b

\* l4c_deadline_check
Expired(g, n) == n >= g.deadline

\* check_locked: an older clock counts as the last one seen
Check(g, t) ==
    LET n == Later(t, g.tick)
    IN  CASE g.stopped \/ ~g.started -> g
          [] ~g.stopped /\ g.started /\ Expired(g, n) -> Stop(g, "deadline")
          [] OTHER -> [g EXCEPT !.tick = n]

\* l4c_safety_check
SafetyCheck(g, t, available) ==
    Check(IF available THEN g ELSE Stop(g, "session"), t)

\* l4c_safety_can_send: allowed when the gate it leaves is started and not stopped
CanSend(g, t, available) == SafetyCheck(g, t, available)
Allowed(g) == g.started /\ ~g.stopped

\* l4c_safety_take_idr: at most one request is granted per IdrMin
TakeIdr(g, t) ==
    LET c == Check(g, t)
        granted == Allowed(c) /\ c.idr /\ (~c.idrSent \/ t - c.lastIdr >= IdrMin)
    IN  [took |-> granted,
         gate |-> IF granted THEN [c EXCEPT !.idr = FALSE, !.idrSent = TRUE, !.lastIdr = t] ELSE c]

\* l4c_deadline_start, from CMD_START: one start per process
StartLease(g, m, t) ==
    IF g.started THEN Stop(g, "protocol")
    ELSE IF Expired(m, t) THEN Stop(g, "deadline")
    ELSE [g EXCEPT !.started = TRUE, !.deadline = m.deadline, !.tick = t,
                   !.leaseSeq = m.seq, !.cmdSeq = m.seq]

\* l4c_deadline_renew, from CMD_RENEW_LEASE: only a newer command, only a later deadline
RenewLease(g, m) ==
    IF m.seq <= g.cmdSeq \/ m.seq <= g.leaseSeq \/ m.deadline <= g.deadline THEN g
    ELSE [g EXCEPT !.deadline = m.deadline, !.leaseSeq = m.seq, !.cmdSeq = m.seq]

\* l4c_safety_command
Command(g, m, t) ==
    LET c == Check(g, t)
    IN  CASE g.stopped -> g
          [] ~g.stopped /\ c.stopped -> c
          [] ~c.stopped /\ m.type = "bad" -> Stop(c, "protocol")
          [] ~c.stopped /\ m.type = "start" -> StartLease(c, m, t)
          [] ~c.stopped /\ m.type \in {"renew", "stop", "idr"} /\ ~c.started -> Stop(c, "protocol")
          [] ~c.stopped /\ m.type = "renew" /\ c.started -> RenewLease(c, m)
          [] ~c.stopped /\ m.type = "stop" /\ c.started -> Stop(c, "ok")
          [] ~c.stopped /\ m.type = "idr" /\ c.started ->
                IF m.seq > c.cmdSeq THEN [c EXCEPT !.cmdSeq = m.seq, !.idr = TRUE] ELSE c

-----------------------------------------------------------------------------
(* The status queue.                                                       *)

\* l4c_pipe_stalled: the oldest packet, in the writer's hands or queued
Stalled(t) ==
    IF writer.st \in {"hand", "write"} THEN t - writer.msg.at >= WriterTimeout
    ELSE queue # << >> /\ t - Head(queue).at >= WriterTimeout

\* l4c_pipe_enqueue: metrics replace the metrics queued and keep their age; a
\* full queue stops the gate
Enqueue(g, q, type, t) ==
    LET same == {i \in DOMAIN q : q[i].type = "metrics"}
    IN  CASE g.stopped -> [gate |-> g, queue |-> q]
          [] ~g.stopped /\ type = "metrics" /\ same # {} -> [gate |-> g, queue |-> q]
          [] ~g.stopped /\ ~(type = "metrics" /\ same # {}) /\ Len(q) = QueueCap ->
                [gate |-> Stop(g, "overflow"), queue |-> q]
          [] OTHER -> [gate |-> g, queue |-> Append(q, [type |-> type, at |-> t])]

-----------------------------------------------------------------------------
Idle == [st |-> "idle", msg |-> [type |-> "none", at |-> 0]]

Init ==
    /\ now = 0 /\ desk = TRUE /\ parent = "open" /\ input = << >> /\ parser = FALSE
    /\ gate = [started |-> FALSE, stopped |-> FALSE, reason |-> "ok", deadline |-> 0, tick |-> 0,
               leaseSeq |-> 0, cmdSeq |-> 0, idr |-> FALSE, idrSent |-> FALSE, lastIdr |-> 0]
    /\ queue = << >> /\ writer = Idle /\ delivered = [ready |-> 0, load |-> FALSE]
    /\ pc = "top" /\ loop = [snap |-> 0, sess |-> TRUE, au |-> "none"]
    /\ ps = [active |-> FALSE, ready |-> FALSE, metrics |-> 0]
    /\ ghost = [commands |-> 0, events |-> 0, idr |-> FALSE, load |-> FALSE]

(* The world: the parent writes and goes away, the desktop is locked, time *)
(* passes.                                                                 *)
ParentWrites ==
    /\ parent = "open" /\ ghost.commands < MaxCommands
    /\ \E m \in Commands :
          input' = input \o <<[part |-> "head", cmd |-> m], [part |-> "body", cmd |-> m]>>
    /\ ghost' = [ghost EXCEPT !.commands = @ + 1]
    /\ UNCHANGED <<now, desk, parent, parser, gate, queue, writer, delivered, pc, loop, ps>>

\* It may go in the middle of a frame
ParentGoes ==
    /\ parent = "open" /\ parent' = "closed"
    /\ \/ input' = input
       \/ input # << >> /\ input' = Front(input)
    /\ UNCHANGED <<now, desk, parser, gate, queue, writer, delivered, pc, loop, ps, ghost>>

DesktopLost ==
    /\ desk /\ desk' = FALSE
    /\ UNCHANGED <<now, parent, input, parser, gate, queue, writer, delivered, pc, loop, ps, ghost>>

Tick ==
    /\ now < MaxTime /\ now' = now + 1
    /\ UNCHANGED <<desk, parent, input, parser, gate, queue, writer, delivered, pc, loop, ps, ghost>>

-----------------------------------------------------------------------------
(* The main loop.                                                          *)

\* while (stop_event is not set): the clock and the desktop are sampled
Top ==
    /\ pc = "top"
    /\ IF gate.stopped
       THEN pc' = "close" /\ loop' = loop
       ELSE pc' = "poll" /\ loop' = [snap |-> now, sess |-> desk, au |-> "none"]
    /\ UNCHANGED <<now, desk, parent, input, parser, gate, queue, writer, delivered, ps, ghost>>

\* l4c_ipc_feed: a header is checked as soon as it is whole, a frame is handed
\* to the gate as soon as it is whole
Feed(g, c, t) ==
    CASE c.part = "head" /\ c.cmd.type = "alien" -> Stop(g, "protocol")
      [] c.part = "head" /\ c.cmd.type # "alien" -> g
      [] c.part = "body" -> Command(g, c.cmd, t)

\* l4c_pipe_poll: the parts of one read
Poll ==
    /\ pc = "poll"
    /\ \/ /\ input # << >>
          /\ gate' = Feed(gate, Head(input), loop.snap)
          /\ parser' = (Head(input).part = "head")
          /\ input' = Tail(input)
          /\ pc' \in IF gate'.stopped THEN {"close"} ELSE {"poll", "check"}
       \/ /\ input = << >> /\ parent = "open"
          /\ pc' = "check" /\ UNCHANGED <<gate, input, parser>>
    /\ UNCHANGED <<now, desk, parent, queue, writer, delivered, loop, ps, ghost>>

\* l4c_ipc_eof: an end in mid-frame is an error
Eof == IF parser THEN "protocol" ELSE "ok"

\* l4c_pipe_poll at the end of the pipe: a clean end is a graceful stop
PollEof ==
    /\ pc = "poll" /\ input = << >> /\ parent = "closed"
    /\ gate' = Stop(gate, Eof)
    /\ pc' = "close"
    /\ UNCHANGED <<now, desk, parent, input, parser, queue, writer, delivered, loop, ps, ghost>>

\* l4c_safety_check, l4c_pipe_stalled
Guard ==
    /\ pc = "check"
    /\ LET g == SafetyCheck(gate, loop.snap, loop.sess)
       IN  gate' = IF Stalled(loop.snap) THEN Stop(g, "overflow") ELSE g
    /\ pc' = CASE gate'.stopped -> "close"
               [] ~gate'.stopped /\ gate'.started /\ ~ps.active -> "start"
               [] ~gate'.stopped /\ ps.active -> "frame"
               [] OTHER -> "top"
    /\ UNCHANGED <<now, desk, parent, input, parser, queue, writer, delivered, loop, ps, ghost>>

\* pipeline_start: it succeeds or the process stops with its status
StartPipeline ==
    /\ pc = "start"
    /\ \/ /\ ps' = [active |-> TRUE, ready |-> FALSE, metrics |-> loop.snap]
          /\ pc' = "frame" /\ gate' = gate
       \/ /\ gate' = Stop(gate, "start_failed") /\ pc' = "close" /\ ps' = ps
    /\ UNCHANGED <<now, desk, parent, input, parser, queue, writer, delivered, loop, ghost>>

\* The frame branch: the gate is asked with the clock of the iteration; a frame
\* may be due, may be captured and encoded to an IDR or not.  A request of the
\* parent makes it an IDR; the encoder makes one by itself at any time.
Frame ==
    /\ pc = "frame"
    /\ LET g == CanSend(gate, loop.snap, loop.sess)
           t == TakeIdr(g, loop.snap)
       IN  \/ /\ ~Allowed(g)
              /\ gate' = g /\ pc' = "top" /\ loop' = loop
           \/ /\ Allowed(g)      \* no frame is due or there is none; a conversion failed
              /\ gate' = g /\ pc' \in {"tail", "top"} /\ loop' = loop
           \/ /\ Allowed(g)
              /\ gate' = t.gate /\ pc' = "send"
              /\ \E au \in {"idr", "p"} :
                    /\ t.took => au = "idr"
                    /\ loop' = [loop EXCEPT !.au = au]
    /\ UNCHANGED <<now, desk, parent, input, parser, queue, writer, delivered, ps, ghost>>

\* The capture finds the desktop gone
SessionLost ==
    /\ pc = "frame" /\ ~desk
    /\ gate' = Stop(gate, "session") /\ pc' = "close"
    /\ UNCHANGED <<now, desk, parent, input, parser, queue, writer, delivered, loop, ps, ghost>>

\* A fallback or a step of the ladder reports EVENT_DEGRADED; the last step
\* reports it and stops (apply_degrade_action)
Degrade ==
    /\ pc = "frame" /\ Allowed(CanSend(gate, loop.snap, loop.sess)) /\ ghost.events < MaxEvents
    /\ \E load \in BOOLEAN :
          LET e == Enqueue(gate, queue, IF load THEN "high_load" ELSE "degraded", loop.snap)
          IN  /\ queue' = e.queue
              /\ gate' = IF load THEN Stop(e.gate, "fatal") ELSE e.gate
              /\ pc' = IF load THEN "close" ELSE "frame"
              /\ ghost' = [ghost EXCEPT !.events = @ + 1, !.load = @ \/ (load /\ ~gate.stopped)]
    /\ UNCHANGED <<now, desk, parent, input, parser, writer, delivered, loop, ps>>

\* Mutant: the gate is asked with the clock taken at the top of the iteration
SendAllowed_Stale == CanSend(gate, loop.snap, loop.sess)

\* Before every AU the gate is asked again with a fresh clock and a fresh look
\* at the desktop
SendAllowed == CanSend(gate, now, desk)

\* l4c_rtp_send_au and what follows: the first IDR sent makes the stream ready,
\* a refused or failed AU takes (and forgets) a pending IDR request
Send ==
    /\ pc = "send"
    /\ LET g == SendAllowed
           e == Enqueue(g, queue, "ready", loop.snap)
       IN  \/ /\ Allowed(g)
              /\ ghost' = [ghost EXCEPT !.idr = @ \/ loop.au = "idr"]
              /\ IF loop.au = "idr" /\ ~ps.ready
                 THEN ps' = [ps EXCEPT !.ready = TRUE] /\ gate' = e.gate /\ queue' = e.queue
                 ELSE gate' = g /\ UNCHANGED <<ps, queue>>
              /\ loop' = [loop EXCEPT !.au = "sent"]
           \/ /\ gate' = TakeIdr(g, loop.snap).gate
              /\ loop' = [loop EXCEPT !.au = "dropped"]
              /\ UNCHANGED <<ps, queue, ghost>>
    /\ pc' = "tail"
    /\ UNCHANGED <<now, desk, parent, input, parser, writer, delivered>>

\* EVENT_METRICS once a period; an RTCP PLI takes a pending IDR request
LoopTail ==
    /\ pc = "tail"
    /\ LET due == loop.snap - ps.metrics >= MetricsMs
           e   == Enqueue(gate, queue, "metrics", loop.snap)
           g   == IF due THEN e.gate ELSE gate
       IN  /\ queue' = IF due THEN e.queue ELSE queue
           /\ ps' = IF due THEN [ps EXCEPT !.metrics = loop.snap] ELSE ps
           /\ gate' \in {g, TakeIdr(g, loop.snap).gate}
    /\ pc' = "top"
    /\ UNCHANGED <<now, desk, parent, input, parser, writer, delivered, loop, ghost>>

\* pipeline_cleanup, l4c_pipe_close: the writer is cancelled again and again
\* until it is gone; the exit code is the gate's reason
Close ==
    /\ pc = "close"
    /\ \/ /\ writer.st = "gone"
          /\ pc' = "exited" /\ gate' = Stop(gate, "ok") /\ queue' = << >>
          /\ writer' = writer
       \/ /\ writer.st = "write"
          /\ gate' = Stop(gate, "ok")
          /\ writer' = Idle
          /\ UNCHANGED <<pc, queue>>
    /\ ps' = [ps EXCEPT !.active = FALSE]
    /\ UNCHANGED <<now, desk, parent, input, parser, delivered, loop, ghost>>

-----------------------------------------------------------------------------
(* The writer thread, writer_main.                                         *)

WriterTakes ==
    /\ writer.st = "idle"
    /\ IF gate.stopped
       THEN writer' = [writer EXCEPT !.st = "gone"] /\ queue' = queue
       ELSE /\ queue # << >>
            /\ writer' = [st |-> "hand", msg |-> Head(queue)]
            /\ queue' = Tail(queue)
    /\ UNCHANGED <<now, desk, parent, input, parser, gate, delivered, pc, loop, ps, ghost>>

\* The stop event is looked at before each chunk: a stop in between loses the packet
WriterEnters ==
    /\ writer.st = "hand"
    /\ writer' = IF gate.stopped THEN Idle ELSE [writer EXCEPT !.st = "write"]
    /\ UNCHANGED <<now, desk, parent, input, parser, gate, queue, delivered, pc, loop, ps, ghost>>

\* WriteFile returns: the parent read it, or is gone
WriterReturns ==
    /\ writer.st = "write"
    /\ writer' = Idle
    /\ IF parent = "open"
       THEN /\ delivered' = [ready |-> delivered.ready + IF writer.msg.type = "ready" THEN 1 ELSE 0,
                            load  |-> delivered.load \/ writer.msg.type = "high_load"]
            /\ gate' = gate
       ELSE gate' = Stop(gate, "pipe") /\ delivered' = delivered
    /\ UNCHANGED <<now, desk, parent, input, parser, queue, pc, loop, ps, ghost>>

-----------------------------------------------------------------------------
Loop == Top \/ Poll \/ PollEof \/ Guard \/ StartPipeline \/ Frame \/ SessionLost \/ Degrade
        \/ Send \/ LoopTail \/ Close

World == ParentWrites \/ ParentGoes \/ DesktopLost \/ Tick

Next == Loop \/ WriterTakes \/ WriterEnters \/ WriterReturns \/ World

Spec == Init /\ [][Next]_vars

-----------------------------------------------------------------------------
(* Properties.                                                             *)

TypeOK ==
    /\ now \in 0..MaxTime /\ desk \in BOOLEAN /\ parent \in {"open", "closed"}
    /\ Len(queue) <= QueueCap /\ writer.st \in {"idle", "hand", "write", "gone"}
    /\ gate.tick <= now /\ loop.snap <= now /\ (gate.started => gate.tick < gate.deadline)
    /\ pc \in {"top", "poll", "check", "start", "frame", "send", "tail", "close", "exited"}

\* No access unit leaves the process at or after the lease's deadline, after a
\* stop, or with the desktop gone, however long capture and encode took and
\* whatever the clock of the iteration says.
NoLateSend ==
    [][ pc = "send" /\ loop'.au = "sent" => now < gate.deadline /\ ~gate.stopped /\ desk ]_vars

=============================================================================
