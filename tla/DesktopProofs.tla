--------------------------- MODULE DesktopProofs ---------------------------
(***************************************************************************)
(* The remote desktop, proved for every value of the constants: the safety *)
(* gate and the overload ladder of the capture program, the commands of    *)
(* the agent, and the processes it supervises.                             *)
(***************************************************************************)
EXTENDS CaptureGate, CaptureDegrade, DeskControl, StreamSupervisor, FiniteSetTheorems, TLAPS

-----------------------------------------------------------------------------
(***************************************************************************)
(* No access unit leaves the capture process after its lease, after a stop *)
(* or with the desktop gone, for every set of commands the parent may      *)
(* write and every bound on time, commands and events.                     *)
(*                                                                         *)
(* The gate is a record that eight operations rewrite; each of them keeps  *)
(* it well formed (GateOK) and none of them lifts a stop.  The pipe needs  *)
(* an invariant of its own: a payload is only ever handed to the gate      *)
(* behind its header, so the gate never sees one whose header was refused. *)
(***************************************************************************)

Reasons == {"ok", "deadline", "session", "protocol", "overflow", "start_failed", "fatal", "pipe"}
Gates == [started : BOOLEAN, stopped : BOOLEAN, reason : Reasons, deadline : Nat, tick : Nat,
          leaseSeq : Nat, cmdSeq : Nat, idr : BOOLEAN, idrSent : BOOLEAN, lastIdr : Nat]
Packets == [type : {"none", "metrics", "ready", "degraded", "high_load"}, at : Nat]
Parts == [part : {"head", "body"}, cmd : Commands]

\* A gate a running process can have at time n.
GateOK(g, n) ==
    /\ g \in Gates /\ g.tick <= n
    /\ g.started => g.tick < g.deadline

\* What the threads hold.
Held ==
    /\ now \in 0 .. MaxTime /\ desk \in BOOLEAN /\ parent \in {"open", "closed"}
    /\ input \in Seq(Parts) /\ parser \in BOOLEAN
    /\ queue \in Seq(Packets) /\ Len(queue) <= QueueCap
    /\ writer \in [st : {"idle", "hand", "write", "gone"}, msg : Packets]
    /\ pc \in {"top", "poll", "check", "start", "frame", "send", "tail", "close", "exited"}
    /\ loop \in [snap : Nat, sess : BOOLEAN, au : {"none", "idr", "p", "sent", "dropped"}]
    /\ loop.snap <= now /\ (pc = "send" => loop.au \in {"idr", "p"})
    /\ ps \in [active : BOOLEAN, ready : BOOLEAN, metrics : Nat]

\* Frames come whole: a header is followed by its own payload, a payload by the
\* next header; only the parent's end leaves a header alone; a payload that is
\* next although its header was refused meets a stopped gate.
Framed ==
    /\ \A i \in 1 .. Len(input) - 1 :
          IF input[i].part = "head" THEN input[i + 1] = [part |-> "body", cmd |-> input[i].cmd]
          ELSE input[i + 1].part = "head"
    /\ parent = "open" /\ input # << >> => input[Len(input)].part = "body"
    /\ input # << >> /\ input[1].part = "body" /\ input[1].cmd.type = "alien" => gate.stopped

IInv == Held /\ GateOK(gate, now) /\ Framed

USE GateAssumption

\* The bounds are numbers.
LEMMA Bounds == MaxTime \in Nat /\ QueueCap \in Nat
  BY DEF GateAssumption

\* stop_locked keeps the gate well formed, and it is stopped.
LEMMA StopOK ==
    ASSUME NEW g, NEW n \in Nat, GateOK(g, n), NEW r \in Reasons
    PROVE  GateOK(Stop(g, r), n) /\ Stop(g, r).stopped
  BY DEF GateOK, Gates, Stop

\* check_locked keeps the gate well formed and lifts no stop; a gate it lets
\* pass has a lease that runs past the clock it was asked with.
LEMMA CheckOK ==
    ASSUME NEW g, NEW n \in Nat, GateOK(g, n), NEW t \in Nat, t <= n
    PROVE  /\ GateOK(Check(g, t), n)
           /\ g.stopped => Check(g, t).stopped
           /\ Check(g, t).started = g.started
           /\ Check(g, t).deadline = g.deadline
           /\ Allowed(Check(g, t)) => t < g.deadline
<1>1. Later(t, g.tick) \in Nat /\ Later(t, g.tick) <= n /\ t <= Later(t, g.tick)
  BY DEF GateOK, Gates, Later
<1>2. CASE g.stopped \/ ~g.started
  BY <1>2 DEF GateOK, Gates, Check, Allowed
<1>3. CASE ~g.stopped /\ g.started /\ Expired(g, Later(t, g.tick))
  <2>1. Check(g, t) = Stop(g, "deadline") BY <1>3 DEF Check
  <2>2. GateOK(Stop(g, "deadline"), n) /\ Stop(g, "deadline").stopped BY StopOK DEF Reasons
  <2> QED BY <1>3, <2>1, <2>2 DEF Stop, GateOK, Gates, Allowed
<1>4. CASE ~g.stopped /\ g.started /\ ~Expired(g, Later(t, g.tick))
  <2>1. Check(g, t) = [g EXCEPT !.tick = Later(t, g.tick)] BY <1>4 DEF Check
  <2>2. [g EXCEPT !.tick = Later(t, g.tick)] \in Gates BY <1>1 DEF GateOK, Gates
  <2>3. Later(t, g.tick) < g.deadline /\ g.deadline \in Nat BY <1>1, <1>4 DEF GateOK, Gates, Expired
  <2>4. /\ Check(g, t).tick = Later(t, g.tick) /\ Check(g, t).deadline = g.deadline
        /\ Check(g, t).started = g.started
    BY <2>1 DEF GateOK, Gates
  <2>5. GateOK(Check(g, t), n) BY <1>1, <2>1, <2>2, <2>3, <2>4 DEF GateOK
  <2>6. t < g.deadline BY <1>1, <2>3
  <2> QED BY <1>4, <2>4, <2>5, <2>6
<1> QED BY <1>2, <1>3, <1>4 DEF GateOK, Gates

\* l4c_safety_check, which l4c_safety_can_send is.
LEMMA SafetyOK ==
    ASSUME NEW g, NEW n \in Nat, GateOK(g, n), NEW t \in Nat, t <= n, NEW a \in BOOLEAN
    PROVE  /\ GateOK(SafetyCheck(g, t, a), n)
           /\ g.stopped => SafetyCheck(g, t, a).stopped
           /\ Allowed(SafetyCheck(g, t, a)) => a /\ ~g.stopped /\ t < g.deadline
<1>1. CASE a
  BY <1>1, CheckOK DEF SafetyCheck, Allowed
<1>2. CASE ~a
  <2>1. GateOK(Stop(g, "session"), n) /\ Stop(g, "session").stopped BY StopOK DEF Reasons
  <2>2. SafetyCheck(g, t, a) = Check(Stop(g, "session"), t) BY <1>2 DEF SafetyCheck
  <2> QED BY <2>1, <2>2, CheckOK, SMTT(40) DEF Allowed
<1> QED BY <1>1, <1>2

\* l4c_safety_take_idr.
LEMMA TakeIdrOK ==
    ASSUME NEW g, NEW n \in Nat, GateOK(g, n), NEW t \in Nat, t <= n
    PROVE  /\ GateOK(TakeIdr(g, t).gate, n)
           /\ g.stopped => TakeIdr(g, t).gate.stopped
<1> DEFINE c == Check(g, t)
<1>1. GateOK(c, n) /\ (g.stopped => c.stopped) BY CheckOK
<1>2. TakeIdr(g, t).gate \in {c, [c EXCEPT !.idr = FALSE, !.idrSent = TRUE, !.lastIdr = t]}
  BY DEF TakeIdr
<1> HIDE DEF c
<1> QED BY <1>1, <1>2 DEF GateOK, Gates

\* l4c_safety_command, for a frame whose header was accepted.
LEMMA CommandOK ==
    ASSUME NEW g, NEW n \in Nat, GateOK(g, n), NEW t \in Nat, t <= n, NEW m \in Commands,
           m.type # "alien" \/ g.stopped
    PROVE  /\ GateOK(Command(g, m, t), n)
           /\ g.stopped => Command(g, m, t).stopped
<1> DEFINE c == Check(g, t)
<1>1. /\ GateOK(c, n) /\ (g.stopped => c.stopped) /\ c.started = g.started
      /\ c.stopped \in BOOLEAN /\ c.started \in BOOLEAN /\ g.stopped \in BOOLEAN
  <2>1. GateOK(c, n) /\ (g.stopped => c.stopped) /\ c.started = g.started
    BY CheckOK
  <2> HIDE DEF c
  <2>2. g \in Gates /\ c \in Gates
    BY <2>1 DEF GateOK
  <2>3. c.stopped \in BOOLEAN /\ c.started \in BOOLEAN /\ g.stopped \in BOOLEAN
    BY <2>2 DEF Gates
  <2> QED
    BY <2>1, <2>3
<1>m. m.type \in {"start", "renew", "stop", "idr", "bad", "alien"} /\ m.seq \in Nat /\ m.deadline \in Nat
  BY DEF GateAssumption
<1>2. CASE g.stopped
  BY <1>1, <1>2 DEF Command
<1>3. CASE ~g.stopped /\ c.stopped
  BY <1>1, <1>3 DEF Command
<1>4. CASE ~g.stopped /\ ~c.stopped /\ m.type = "bad"
  BY <1>1, <1>4, StopOK DEF Command, Reasons
<1>5. CASE ~g.stopped /\ ~c.stopped /\ m.type = "start"
  <2>1. Command(g, m, t) = StartLease(c, m, t) BY <1>1, <1>5 DEF Command
  <2> HIDE DEF c
  <2>2. CASE c.started
    BY <1>1, <1>5, <2>1, <2>2, StopOK DEF StartLease, Reasons
  <2>3. CASE ~c.started /\ Expired(m, t)
    BY <1>1, <1>5, <2>1, <2>3, StopOK DEF StartLease, Reasons
  <2>4. CASE ~c.started /\ ~Expired(m, t)
    <3>1. StartLease(c, m, t) = [c EXCEPT !.started = TRUE, !.deadline = m.deadline, !.tick = t,
                                          !.leaseSeq = m.seq, !.cmdSeq = m.seq]
      BY <2>4 DEF StartLease
    <3>2. StartLease(c, m, t) \in Gates BY <1>1, <1>m, <3>1 DEF GateOK, Gates
    <3>3. StartLease(c, m, t).tick = t /\ StartLease(c, m, t).deadline = m.deadline
      BY <1>1, <3>1 DEF GateOK, Gates
    <3> QED BY <1>m, <1>5, <2>1, <2>4, <3>2, <3>3 DEF GateOK, Expired
  <2> QED BY <1>1, <2>2, <2>3, <2>4
<1>6. CASE ~g.stopped /\ ~c.stopped /\ m.type \in {"renew", "stop", "idr"} /\ ~c.started
  BY <1>1, <1>6, StopOK DEF Command, Reasons
<1>7. CASE ~g.stopped /\ ~c.stopped /\ m.type = "renew" /\ c.started
  <2>1. Command(g, m, t) = RenewLease(c, m) BY <1>1, <1>7 DEF Command
  <2> HIDE DEF c
  <2>2. RenewLease(c, m) = c \/
          (m.deadline > c.deadline /\
           RenewLease(c, m) = [c EXCEPT !.deadline = m.deadline, !.leaseSeq = m.seq, !.cmdSeq = m.seq])
    BY <1>1, <1>m DEF RenewLease, GateOK, Gates
  <2>3. CASE RenewLease(c, m) # c
    <3>1. RenewLease(c, m) \in Gates BY <1>1, <1>m, <2>2, <2>3 DEF GateOK, Gates
    <3>2. /\ RenewLease(c, m).tick = c.tick /\ RenewLease(c, m).deadline = m.deadline
          /\ m.deadline > c.deadline /\ c.tick \in Nat /\ c.deadline \in Nat
          /\ RenewLease(c, m).started = c.started
      BY <1>1, <2>2, <2>3 DEF GateOK, Gates
    <3> QED BY <1>1, <1>m, <1>7, <2>1, <3>1, <3>2 DEF GateOK
  <2> QED BY <1>1, <1>7, <2>1, <2>3
<1>8. CASE ~g.stopped /\ ~c.stopped /\ m.type = "stop" /\ c.started
  BY <1>1, <1>8, StopOK DEF Command, Reasons
<1>9. CASE ~g.stopped /\ ~c.stopped /\ m.type = "idr" /\ c.started
  <2>1. Command(g, m, t) \in {c, [c EXCEPT !.cmdSeq = m.seq, !.idr = TRUE]}
    BY <1>1, <1>9 DEF Command
  <2> HIDE DEF c
  <2> QED BY <1>1, <1>m, <1>9, <2>1 DEF GateOK, Gates
<1> QED BY <1>1, <1>m, <1>2, <1>3, <1>4, <1>5, <1>6, <1>7, <1>8, <1>9

\* l4c_ipc_feed: a refused header stops the gate.
LEMMA FeedOK ==
    ASSUME NEW g, NEW n \in Nat, GateOK(g, n), NEW t \in Nat, t <= n, NEW c \in Parts,
           c.part = "body" /\ c.cmd.type = "alien" => g.stopped
    PROVE  /\ GateOK(Feed(g, c, t), n)
           /\ g.stopped => Feed(g, c, t).stopped
           /\ c.part = "head" /\ c.cmd.type = "alien" => Feed(g, c, t).stopped
<1>1. c.part \in {"head", "body"} /\ c.cmd \in Commands BY DEF Parts
<1>2. CASE c.part = "head" /\ c.cmd.type = "alien"
  BY <1>2, StopOK DEF Feed, Reasons
<1>3. CASE c.part = "head" /\ c.cmd.type # "alien"
  BY <1>3 DEF Feed
<1>4. CASE c.part = "body"
  <2>1. Feed(g, c, t) = Command(g, c.cmd, t) BY <1>4 DEF Feed
  <2>2. g.stopped \in BOOLEAN BY DEF GateOK, Gates
  <2> QED BY <1>1, <1>4, <2>1, <2>2, CommandOK
<1> QED BY <1>1, <1>2, <1>3, <1>4

\* l4c_pipe_enqueue keeps the queue within its capacity and lifts no stop.
LEMMA EnqueueOK ==
    ASSUME NEW g, NEW n \in Nat, GateOK(g, n), NEW q \in Seq(Packets), Len(q) <= QueueCap,
           NEW type \in {"metrics", "ready", "degraded", "high_load"}, NEW t \in Nat
    PROVE  /\ GateOK(Enqueue(g, q, type, t).gate, n)
           /\ g.stopped => Enqueue(g, q, type, t).gate.stopped
           /\ Enqueue(g, q, type, t).queue \in Seq(Packets)
           /\ Len(Enqueue(g, q, type, t).queue) <= QueueCap
<1> DEFINE same == {i \in DOMAIN q : q[i].type = "metrics"}
           p == [type |-> type, at |-> t]
<1>0. g.stopped \in BOOLEAN /\ QueueCap \in Nat /\ Len(q) \in Nat BY DEF GateOK, Gates, GateAssumption
<1>1. CASE g.stopped
  BY <1>1 DEF Enqueue
<1>2. CASE ~g.stopped /\ type = "metrics" /\ same # {}
  BY <1>2 DEF Enqueue
<1>3. CASE ~g.stopped /\ ~(type = "metrics" /\ same # {}) /\ Len(q) = QueueCap
  <2>1. Enqueue(g, q, type, t) = [gate |-> Stop(g, "overflow"), queue |-> q] BY <1>3 DEF Enqueue
  <2> QED BY <1>3, <2>1, StopOK DEF Reasons
<1>4. CASE ~g.stopped /\ ~(type = "metrics" /\ same # {}) /\ Len(q) # QueueCap
  <2>1. Enqueue(g, q, type, t) = [gate |-> g, queue |-> Append(q, p)] BY <1>4 DEF Enqueue
  <2>2. p \in Packets BY DEF Packets
  <2> HIDE DEF p
  <2>3. Append(q, p) \in Seq(Packets) /\ Len(Append(q, p)) = Len(q) + 1 BY <2>2
  <2> QED BY <1>0, <1>4, <2>1, <2>3
<1> QED BY <1>1, <1>2, <1>3, <1>4

\* The initial state satisfies the inductive invariant.
LEMMA InitIInv == Init => IInv
<1> SUFFICES ASSUME Init PROVE IInv
  OBVIOUS
<1> USE DEF Init, Idle
<1>1. gate \in Gates BY DEF Gates, Reasons
<1>2. writer.msg \in Packets BY DEF Packets
<1>3. Held
  <2>1. /\ loop \in [snap : Nat, sess : BOOLEAN, au : {"none", "idr", "p", "sent", "dropped"}]
        /\ ps \in [active : BOOLEAN, ready : BOOLEAN, metrics : Nat]
        /\ writer \in [st : {"idle", "hand", "write", "gone"}, msg : Packets]
    BY <1>2
  <2>2. input \in Seq(Parts) OBVIOUS
  <2>3. queue \in Seq(Packets) /\ Len(queue) = 0 OBVIOUS
  <2>4. now \in 0 .. MaxTime /\ 0 <= QueueCap BY Bounds
  <2>5. loop.snap <= now /\ pc # "send" OBVIOUS
  <2>6. desk \in BOOLEAN /\ parser \in BOOLEAN OBVIOUS
  <2>7. pc \in {"top", "poll", "check", "start", "frame", "send", "tail", "close", "exited"}
        /\ parent \in {"open", "closed"}
    OBVIOUS
  <2> QED BY <2>1, <2>2, <2>3, <2>4, <2>5, <2>6, <2>7 DEF Held
<1> QED BY <1>1, <1>3 DEF IInv, GateOK, Framed

\* A step that leaves the pipe, the parent and the clock alone and changes the
\* gate to a well-formed one without lifting a stop.
LEMMA PipeKept ==
    ASSUME IInv, UNCHANGED <<now, parent, input>>, GateOK(gate', now), gate.stopped => gate'.stopped
    PROVE  GateOK(gate, now)' /\ Framed'
  BY DEF IInv, Framed, GateOK

\* Every step of the loop, of the writer and of the world keeps it.
LEMMA StepIInv == IInv /\ [Next]_vars => IInv'
<1> SUFFICES ASSUME IInv, [Next]_vars PROVE IInv'
  OBVIOUS
<1>t. /\ now \in Nat /\ GateOK(gate, now) /\ loop.snap \in Nat /\ loop.snap <= now
      /\ loop.sess \in BOOLEAN /\ desk \in BOOLEAN /\ gate.stopped \in BOOLEAN
      /\ queue \in Seq(Packets) /\ Len(queue) <= QueueCap
  BY DEF IInv, Held, GateOK, Gates
<1>s. \A r \in Reasons : GateOK(Stop(gate, r), now) /\ Stop(gate, r).stopped
  BY <1>t, StopOK
<1>1. CASE ParentWrites
  <2>1. PICK m \in Commands :
          input' = input \o <<[part |-> "head", cmd |-> m], [part |-> "body", cmd |-> m]>>
    BY <1>1 DEF ParentWrites
  <2> DEFINE h == [part |-> "head", cmd |-> m]
             b == [part |-> "body", cmd |-> m]
  <2>2. h \in Parts /\ b \in Parts BY DEF Parts
  <2>3. h.part = "head" /\ b.part = "body" /\ h.cmd = m /\ b = [part |-> "body", cmd |-> h.cmd] OBVIOUS
  <2> HIDE DEF h, b
  <2>4. input \in Seq(Parts) BY DEF IInv, Held
  <2>5. /\ input' \in Seq(Parts) /\ Len(input') = Len(input) + 2
        /\ input'[Len(input) + 1] = h /\ input'[Len(input) + 2] = b
        /\ \A i \in 1 .. Len(input) : input'[i] = input[i]
    BY <2>1, <2>2, <2>4 DEF h, b
  <2>6. Held' BY <1>1, <2>5 DEF ParentWrites, IInv, Held
  <2>7. Framed'
    <3>1. parent = "open" /\ gate' = gate /\ parent' = parent BY <1>1 DEF ParentWrites
    <3>2. input # << >> => input[Len(input)].part = "body" BY <3>1 DEF IInv, Framed
    <3>3. \A i \in 1 .. Len(input)' - 1 :
            IF input'[i].part = "head" THEN input'[i + 1] = [part |-> "body", cmd |-> input'[i].cmd]
            ELSE input'[i + 1].part = "head"
      <4> SUFFICES ASSUME NEW i \in 1 .. Len(input)' - 1
                   PROVE  IF input'[i].part = "head"
                          THEN input'[i + 1] = [part |-> "body", cmd |-> input'[i].cmd]
                          ELSE input'[i + 1].part = "head"
        OBVIOUS
      <4>1. Len(input) \in Nat BY <2>4
      <4>2. CASE i <= Len(input) - 1
        <5>1. i \in 1 .. Len(input) - 1 /\ input'[i] = input[i] /\ input'[i + 1] = input[i + 1]
          BY <2>5, <4>1, <4>2
        <5> QED BY <5>1 DEF IInv, Framed
      <4>3. CASE i = Len(input)
        <5>1. input # << >> /\ input'[i] = input[i] BY <2>4, <2>5, <4>1, <4>3
        <5> QED BY <2>3, <2>5, <3>2, <4>3, <5>1
      <4>4. CASE i = Len(input) + 1
        <5>1. input'[i] = h /\ input'[i + 1] = b BY <2>5, <4>1, <4>4
        <5> QED BY <2>3, <5>1
      <4>5. i <= Len(input) - 1 \/ i = Len(input) \/ i = Len(input) + 1 BY <2>5, <4>1
      <4> QED BY <4>2, <4>3, <4>4, <4>5
    <3>4. input'[Len(input')].part = "body" BY <2>3, <2>4, <2>5
    <3>5. input' # << >> /\ input'[1].part = "body" /\ input'[1].cmd.type = "alien" => gate'.stopped
      <4>1. CASE input = << >>
        <5>1. input'[1] = h BY <2>5, <4>1
        <5> QED BY <2>3, <5>1
      <4>2. CASE input # << >>
        <5>1. input'[1] = input[1] BY <2>4, <2>5, <4>2
        <5> QED BY <3>1, <4>2, <5>1 DEF IInv, Framed
      <4> QED BY <4>1, <4>2
    <3> QED BY <3>3, <3>4, <3>5 DEF Framed
  <2> QED BY <1>1, <1>t, <2>6, <2>7 DEF ParentWrites, IInv, GateOK
<1>2. CASE ParentGoes
  <2>4. input \in Seq(Parts) BY DEF IInv, Held
  <2>5. /\ input' \in Seq(Parts) /\ Len(input') \in {Len(input), Len(input) - 1}
        /\ Len(input') <= Len(input)
        /\ \A i \in 1 .. Len(input') : input'[i] = input[i]
    <3>1. CASE input' = input BY <2>4, <3>1
    <3>2. CASE input # << >> /\ input' = SubSeq(input, 1, Len(input) - 1)
      <4>1. Len(input) \in Nat /\ Len(input) > 0 BY <2>4, <3>2
      <4> DEFINE n == Len(input) - 1
      <4>2. n \in Nat /\ n <= Len(input) BY <4>1
      <4>3. \A i \in 1 .. n : input[i] \in Parts BY <2>4, <4>1
      <4> HIDE DEF n
      <4>4. /\ SubSeq(input, 1, n) \in Seq(Parts) /\ Len(SubSeq(input, 1, n)) = n
            /\ \A i \in 1 .. n : SubSeq(input, 1, n)[i] = input[i]
        BY <2>4, <4>2, <4>3
      <4> QED BY <3>2, <4>1, <4>2, <4>4 DEF n
    <3> QED BY <1>2, <3>1, <3>2 DEF ParentGoes, Front
  <2>6. Held' BY <1>2, <2>5 DEF ParentGoes, IInv, Held
  <2>7. Framed'
    <3>1. parent' # "open" /\ gate' = gate BY <1>2 DEF ParentGoes
    <3>2. input' # << >> => input # << >> /\ input'[1] = input[1] BY <2>4, <2>5
    <3>3. \A i \in 1 .. Len(input') - 1 : /\ i \in 1 .. Len(input) - 1 /\ input'[i] = input[i]
                                          /\ input'[i + 1] = input[i + 1]
      BY <2>4, <2>5
    <3> QED BY <3>1, <3>2, <3>3, ZenonT(60) DEF IInv, Framed
  <2> QED BY <1>2, <1>t, <2>6, <2>7 DEF ParentGoes, IInv, GateOK
<1>3. CASE DesktopLost
  <2>1. Held' BY <1>3, ZenonT(60) DEF DesktopLost, IInv, Held
  <2> QED BY <1>3, <1>t, <2>1, PipeKept DEF DesktopLost, IInv
<1>4. CASE Tick
  <2>1. now' \in 0 .. MaxTime /\ now' = now + 1 BY <1>4, <1>t DEF Tick, GateAssumption
  <2>2. GateOK(gate, now') BY <1>t, <2>1 DEF GateOK, Gates
  <2>3. Held' BY <1>4, <1>t, <2>1 DEF Tick, IInv, Held
  <2> QED BY <1>4, <2>2, <2>3 DEF Tick, IInv, Framed, GateOK
<1>5. CASE Top
  <2>1. loop' \in [snap : Nat, sess : BOOLEAN, au : {"none", "idr", "p", "sent", "dropped"}] /\ loop'.snap <= now
    <3>1. CASE loop' = loop BY <3>1 DEF IInv, Held
    <3>2. CASE loop' = [snap |-> now, sess |-> desk, au |-> "none"] BY <1>t, <3>2
    <3> QED BY <1>5, <3>1, <3>2 DEF Top
  <2>2. Held' BY <1>5, <2>1 DEF Top, IInv, Held
  <2> QED BY <1>5, <1>t, <2>2, PipeKept DEF Top, IInv
<1>6. CASE Poll
  <2>1. CASE input # << >>
    <3>1. input \in Seq(Parts) /\ Head(input) = input[1] /\ Head(input) \in Parts
      BY <2>1 DEF IInv, Held
    <3>2. /\ gate' = Feed(gate, Head(input), loop.snap) /\ input' = Tail(input)
          /\ parser' \in BOOLEAN /\ pc' \in {"close", "poll", "check"}
          /\ UNCHANGED <<now, desk, parent, queue, writer, delivered, loop, ps, ghost>>
      BY <1>6, <2>1 DEF Poll
    <3>3. Head(input).part = "body" /\ Head(input).cmd.type = "alien" => gate.stopped
      BY <2>1, <3>1 DEF IInv, Framed
    <3>4. /\ GateOK(gate', now) /\ (gate.stopped => gate'.stopped)
          /\ Head(input).part = "head" /\ Head(input).cmd.type = "alien" => gate'.stopped
      BY <1>t, <3>1, <3>2, <3>3, FeedOK
    <3>5. /\ input' \in Seq(Parts) /\ Len(input') = Len(input) - 1
          /\ \A i \in 1 .. Len(input') : input'[i] = input[i + 1]
      BY <2>1, <3>1, <3>2
    <3>6. Held' BY <3>2, <3>5 DEF IInv, Held
    <3>7. Framed'
      <4>1. \A i \in 1 .. Len(input') - 1 :
              IF input'[i].part = "head" THEN input'[i + 1] = [part |-> "body", cmd |-> input'[i].cmd]
              ELSE input'[i + 1].part = "head"
        <5> SUFFICES ASSUME NEW i \in 1 .. Len(input') - 1
                     PROVE  IF input'[i].part = "head"
                            THEN input'[i + 1] = [part |-> "body", cmd |-> input'[i].cmd]
                            ELSE input'[i + 1].part = "head"
          OBVIOUS
        <5>1. /\ i + 1 \in 1 .. Len(input) - 1 /\ input'[i] = input[i + 1]
              /\ input'[i + 1] = input[(i + 1) + 1]
          BY <3>1, <3>5
        <5> QED BY <5>1 DEF IInv, Framed
      <4>2. parent' = "open" /\ input' # << >> => input'[Len(input')].part = "body"
        <5>1. input' # << >> => input'[Len(input')] = input[Len(input)] BY <3>1, <3>5
        <5> QED BY <2>1, <3>2, <5>1 DEF IInv, Framed
      <4>3. ASSUME input' # << >>, input'[1].part = "body", input'[1].cmd.type = "alien"
            PROVE  gate'.stopped
        <5>1. 1 \in 1 .. Len(input) - 1 /\ input'[1] = input[2] BY <3>1, <3>5, <4>3
        <5>2. input[1].part = "head"
          <6>1. input[1].part # "head" => input[1 + 1].part = "head" BY <5>1 DEF IInv, Framed
          <6> QED BY <4>3, <5>1, <6>1
        <5>3. input[2] = [part |-> "body", cmd |-> input[1].cmd] BY <5>1, <5>2 DEF IInv, Framed
        <5> QED BY <3>1, <3>4, <4>3, <5>1, <5>2, <5>3
      <4> QED BY <4>1, <4>2, <4>3 DEF Framed
    <3> QED BY <3>2, <3>4, <3>6, <3>7 DEF IInv, GateOK
  <2>2. CASE input = << >>
    <3>1. Held' BY <1>6, <2>2 DEF Poll, IInv, Held
    <3> QED BY <1>6, <1>t, <2>2, <3>1, PipeKept DEF Poll, IInv
  <2> QED BY <2>1, <2>2
<1>7. CASE PollEof
  <2>1. GateOK(gate', now) /\ gate'.stopped BY <1>7, <1>s DEF PollEof, Eof, Reasons
  <2>2. Held' BY <1>7 DEF PollEof, IInv, Held
  <2> QED BY <1>7, <2>1, <2>2, PipeKept DEF PollEof, IInv
<1>8. CASE Guard
  <2> DEFINE g == SafetyCheck(gate, loop.snap, loop.sess)
  <2>1. GateOK(g, now) /\ (gate.stopped => g.stopped) BY <1>t, SafetyOK
  <2>2. gate' \in {g, Stop(g, "overflow")} BY <1>8 DEF Guard
  <2> HIDE DEF g
  <2>3. GateOK(gate', now) /\ (gate.stopped => gate'.stopped) BY <1>t, <2>1, <2>2, StopOK DEF Reasons
  <2>4. pc' \in {"close", "start", "frame", "top"} BY <1>8 DEF Guard
  <2>5. Held' BY <1>8, <2>4 DEF Guard, IInv, Held
  <2> QED BY <1>8, <2>3, <2>5, PipeKept DEF Guard, IInv
<1>9. CASE StartPipeline
  <2>1. GateOK(gate', now) /\ (gate.stopped => gate'.stopped)
    BY <1>9, <1>s, <1>t DEF StartPipeline, Reasons
  <2>2. ps' \in [active : BOOLEAN, ready : BOOLEAN, metrics : Nat]
    <3>1. CASE ps' = ps BY <3>1 DEF IInv, Held
    <3>2. CASE ps' = [active |-> TRUE, ready |-> FALSE, metrics |-> loop.snap] BY <1>t, <3>2
    <3> QED BY <1>9, <3>1, <3>2 DEF StartPipeline
  <2>3. Held' BY <1>9, <2>2 DEF StartPipeline, IInv, Held
  <2> QED BY <1>9, <2>1, <2>3, PipeKept DEF StartPipeline, IInv
<1>10. CASE Frame
  <2> DEFINE g == CanSend(gate, loop.snap, loop.sess)
  <2>1. GateOK(g, now) /\ (gate.stopped => g.stopped) BY <1>t, SafetyOK DEF CanSend
  <2>2. gate' = g \/ gate' = TakeIdr(g, loop.snap).gate BY <1>10 DEF Frame
  <2> HIDE DEF g
  <2>t. GateOK(TakeIdr(g, loop.snap).gate, now) /\ (g.stopped => TakeIdr(g, loop.snap).gate.stopped)
    BY <1>t, <2>1, TakeIdrOK
  <2>3. GateOK(gate', now) /\ (gate.stopped => gate'.stopped) BY <2>1, <2>2, <2>t
  <2>4. pc' \in {"top", "tail", "send"} BY <1>10 DEF Frame
  <2>5. \/ loop' = loop /\ pc' # "send"
        \/ \E au \in {"idr", "p"} : loop' = [loop EXCEPT !.au = au]
    BY <1>10 DEF Frame
  <2>6. /\ loop' \in [snap : Nat, sess : BOOLEAN, au : {"none", "idr", "p", "sent", "dropped"}]
        /\ loop'.snap <= now /\ (pc' = "send" => loop'.au \in {"idr", "p"})
    BY <2>5 DEF IInv, Held
  <2>7. Held' BY <1>10, <2>4, <2>6 DEF Frame, IInv, Held
  <2> QED BY <1>10, <2>3, <2>7, PipeKept DEF Frame, IInv
<1>11. CASE SessionLost
  <2>1. GateOK(gate', now) /\ gate'.stopped BY <1>11, <1>s DEF SessionLost, Reasons
  <2>2. Held' BY <1>11 DEF SessionLost, IInv, Held
  <2> QED BY <1>11, <2>1, <2>2, PipeKept DEF SessionLost, IInv
<1>12. CASE Degrade
  <2>1. PICK load \in BOOLEAN :
          LET e == Enqueue(gate, queue, IF load THEN "high_load" ELSE "degraded", loop.snap)
          IN  /\ queue' = e.queue
              /\ gate' = IF load THEN Stop(e.gate, "fatal") ELSE e.gate
              /\ pc' = IF load THEN "close" ELSE "frame"
    BY <1>12 DEF Degrade
  <2> DEFINE e == Enqueue(gate, queue, IF load THEN "high_load" ELSE "degraded", loop.snap)
  <2>2. /\ GateOK(e.gate, now) /\ (gate.stopped => e.gate.stopped)
        /\ e.queue \in Seq(Packets) /\ Len(e.queue) <= QueueCap
    BY <1>t, EnqueueOK
  <2>3. /\ queue' = e.queue /\ gate' = IF load THEN Stop(e.gate, "fatal") ELSE e.gate
        /\ pc' \in {"close", "frame"}
    BY <2>1
  <2> HIDE DEF e
  <2>4. GateOK(gate', now) /\ (gate.stopped => gate'.stopped) BY <1>t, <2>2, <2>3, StopOK DEF Reasons
  <2>5. Held' BY <1>12, <2>2, <2>3 DEF Degrade, IInv, Held
  <2> QED BY <1>12, <2>4, <2>5, PipeKept DEF Degrade, IInv
<1>13. CASE Send
  <2> DEFINE g == SendAllowed
             e == Enqueue(g, queue, "ready", loop.snap)
  <2>1. GateOK(g, now) /\ (gate.stopped => g.stopped) BY <1>t, SafetyOK DEF SendAllowed, CanSend
  <2>2. /\ \/ gate' = e.gate /\ queue' = e.queue
           \/ gate' = g /\ queue' = queue
           \/ gate' = TakeIdr(g, loop.snap).gate /\ queue' = queue
        /\ loop' = [loop EXCEPT !.au = "sent"] \/ loop' = [loop EXCEPT !.au = "dropped"]
        /\ ps' = ps \/ ps' = [ps EXCEPT !.ready = TRUE]
    BY <1>13 DEF Send
  <2> HIDE DEF g
  <2>3. /\ GateOK(e.gate, now) /\ (g.stopped => e.gate.stopped)
        /\ e.queue \in Seq(Packets) /\ Len(e.queue) <= QueueCap
    BY <1>t, <2>1, EnqueueOK
  <2> HIDE DEF e
  <2>4. GateOK(gate', now) /\ (gate.stopped => gate'.stopped) BY <1>t, <2>1, <2>2, <2>3, TakeIdrOK
  <2>5. loop' \in [snap : Nat, sess : BOOLEAN, au : {"none", "idr", "p", "sent", "dropped"}] /\ loop'.snap <= now
    BY <2>2 DEF IInv, Held
  <2>6. ps' \in [active : BOOLEAN, ready : BOOLEAN, metrics : Nat] BY <2>2 DEF IInv, Held
  <2>7. Held' BY <1>13, <1>t, <2>2, <2>3, <2>5, <2>6 DEF Send, IInv, Held
  <2> QED BY <1>13, <2>4, <2>7, PipeKept DEF Send, IInv
<1>14. CASE LoopTail
  <2> DEFINE due == loop.snap - ps.metrics >= MetricsMs
             e == Enqueue(gate, queue, "metrics", loop.snap)
             g == IF due THEN e.gate ELSE gate
  <2>1. /\ GateOK(e.gate, now) /\ (gate.stopped => e.gate.stopped)
        /\ e.queue \in Seq(Packets) /\ Len(e.queue) <= QueueCap
    BY <1>t, EnqueueOK
  <2>2. gate' \in {g, TakeIdr(g, loop.snap).gate} /\ queue' \in {queue, e.queue}
        /\ (ps' = ps \/ ps' = [ps EXCEPT !.metrics = loop.snap])
    BY <1>14 DEF LoopTail
  <2> HIDE DEF e, due
  <2>3. GateOK(g, now) /\ (gate.stopped => g.stopped) BY <1>t, <2>1
  <2> HIDE DEF g
  <2>4. GateOK(gate', now) /\ (gate.stopped => gate'.stopped) BY <1>t, <2>2, <2>3, TakeIdrOK
  <2>5. ps' \in [active : BOOLEAN, ready : BOOLEAN, metrics : Nat] BY <1>t, <2>2 DEF IInv, Held
  <2>6. Held' BY <1>14, <1>t, <2>1, <2>2, <2>5 DEF LoopTail, IInv, Held
  <2> QED BY <1>14, <2>4, <2>6, PipeKept DEF LoopTail, IInv
<1>15. CASE Close
  <2>1. GateOK(gate', now) /\ gate'.stopped BY <1>15, <1>s DEF Close, Reasons
  <2>2. ps' \in [active : BOOLEAN, ready : BOOLEAN, metrics : Nat] BY <1>15 DEF Close, IInv, Held
  <2>3. /\ queue' \in Seq(Packets) /\ Len(queue') <= QueueCap
        /\ pc' \in {"close", "exited"}
    <3>1. CASE queue' = << >>
      <4>1. queue' \in Seq(Packets) /\ Len(queue') = 0 BY <3>1
      <4> QED BY <1>15, <4>1, Bounds DEF Close
    <3>2. CASE queue' = queue
      BY <1>15, <1>t, <3>2 DEF Close
    <3> QED BY <1>15, <3>1, <3>2 DEF Close
  <2>4. writer' \in [st : {"idle", "hand", "write", "gone"}, msg : Packets]
    BY <1>15 DEF Close, Idle, IInv, Held, Packets
  <2>5. Held' BY <1>15, <2>2, <2>3, <2>4 DEF Close, IInv, Held
  <2> QED BY <1>15, <2>1, <2>5, PipeKept DEF Close, IInv
<1>16. CASE WriterTakes
  <2>1. queue # << >> => Head(queue) \in Packets /\ Tail(queue) \in Seq(Packets) /\ Len(Tail(queue)) = Len(queue) - 1
    BY <1>t
  <2>2. /\ queue' \in Seq(Packets) /\ Len(queue') <= QueueCap
        /\ writer' \in [st : {"idle", "hand", "write", "gone"}, msg : Packets]
    <3>1. CASE gate.stopped
      BY <1>16, <3>1 DEF WriterTakes, IInv, Held
    <3>2. CASE ~gate.stopped
      <4>1. queue # << >> /\ writer' = [st |-> "hand", msg |-> Head(queue)] /\ queue' = Tail(queue)
        BY <1>16, <3>2 DEF WriterTakes
      <4>2. Len(queue) \in Nat BY <1>t
      <4> QED BY <1>t, <2>1, <4>1, <4>2, Bounds
    <3> QED BY <3>1, <3>2
  <2>3. Held' BY <1>16, <2>2 DEF WriterTakes, IInv, Held
  <2> QED BY <1>16, <1>t, <2>3, PipeKept DEF WriterTakes, IInv
<1>17. CASE WriterEnters
  <2>1. writer' \in [st : {"idle", "hand", "write", "gone"}, msg : Packets]
    BY <1>17 DEF WriterEnters, Idle, IInv, Held, Packets
  <2>2. Held' BY <1>17, <2>1 DEF WriterEnters, IInv, Held
  <2> QED BY <1>17, <1>t, <2>2, PipeKept DEF WriterEnters, IInv
<1>18. CASE WriterReturns
  <2>1. GateOK(gate', now) /\ (gate.stopped => gate'.stopped) BY <1>18, <1>s, <1>t DEF WriterReturns, Reasons
  <2>2. writer' \in [st : {"idle", "hand", "write", "gone"}, msg : Packets]
    BY <1>18 DEF WriterReturns, Idle, Packets
  <2>3. Held' BY <1>18, <2>2 DEF WriterReturns, IInv, Held
  <2> QED BY <1>18, <2>1, <2>3, PipeKept DEF WriterReturns, IInv
<1>19. CASE UNCHANGED vars
  <2>1. Held' BY <1>19 DEF vars, IInv, Held
  <2> QED BY <1>19, <1>t, <2>1, PipeKept DEF vars, IInv
<1> QED
  BY <1>1, <1>2, <1>3, <1>4, <1>5, <1>6, <1>7, <1>8, <1>9, <1>10, <1>11, <1>12, <1>13, <1>14,
     <1>15, <1>16, <1>17, <1>18, <1>19 DEF Next, Loop, World

\* The type invariant of the capture process holds in every reachable state.
THEOREM CaptureTyped == Spec => []TypeOK
<1>1. IInv => TypeOK BY DEF IInv, Held, GateOK, Gates, TypeOK
<1> QED BY <1>1, InitIInv, StepIInv, PTL DEF Spec

\* The pipe hands the gate a payload only behind its accepted header, and
\* nothing lifts a stop.
THEOREM FramesWhole == Spec => []Framed
<1>1. IInv => Framed BY DEF IInv
<1> QED BY <1>1, InitIInv, StepIInv, PTL DEF Spec

\* No access unit is sent at or after the deadline of the lease, after a stop
\* or with the desktop gone: the gate is asked with a fresh clock and a fresh
\* look at the desktop before each one, whatever the iteration believes.
THEOREM NothingSentLate == Spec => NoLateSend
<1>1. ASSUME IInv, [Next]_vars
      PROVE  [pc = "send" /\ loop'.au = "sent" => now < gate.deadline /\ ~gate.stopped /\ desk]_vars
  <2> SUFFICES ASSUME pc = "send", loop'.au = "sent", Next
               PROVE  now < gate.deadline /\ ~gate.stopped /\ desk
    BY <1>1
  <2>1. CASE Send
    <3>1. Allowed(SendAllowed)
      <4>1. CASE loop' = [loop EXCEPT !.au = "dropped"]
        BY <1>1, <4>1 DEF IInv, Held
      <4> QED BY <2>1, <4>1 DEF Send
    <3> QED BY <1>1, <3>1, SafetyOK DEF SendAllowed, CanSend, IInv, Held
  <2>2. CASE loop' = loop
    BY <1>1, <2>2 DEF IInv, Held
  <2> QED
    BY <1>1, <2>1, <2>2 DEF Next, Loop, World, Top, Poll, PollEof, Guard, StartPipeline, Frame, SessionLost,
       Degrade, LoopTail, Close, WriterTakes, WriterEnters, WriterReturns, ParentWrites, ParentGoes,
       DesktopLost, Tick
<1> QED BY <1>1, InitIInv, StepIInv, PTL DEF Spec, NoLateSend

-----------------------------------------------------------------------------
(***************************************************************************)
(* The overload ladder of l4capture: a step is earned.  The controller     *)
(* counts bad windows in its own window, which a late loop may move away   *)
(* from the pipeline's (D1 restarts the controller's window now, and the   *)
(* pipeline's where the closed one ended); it then rejects windows, and    *)
(* has none to count.                                                      *)
(***************************************************************************)

\* The fields of the two records; what the properties are about are integers.
IsCtl(c) == c \in [id : {c.id}, fps : {c.fps}, d0 : {c.d0}, d1 : {c.d1}, d2 : {c.d2}, d3 : {c.d3},
                   floor : {c.floor}, floorBad : {c.floorBad}, start : {c.start}, bad : {c.bad},
                   hold : {c.hold}]
IsPipe(p) == p \in [id : {p.id}, request : {p.request}, fps : {p.fps}, source : {p.source},
                    raster : {p.raster}, target : {p.target}, max : {p.max}, win : {p.win},
                    gen : {p.gen}]

LadderTyped ==
    /\ IsCtl(ctl) /\ IsPipe(pstate) /\ ladderNow \in Nat /\ up \in {"idle", "active", "stopped"}
    /\ ctl.fps \in Int /\ ctl.start \in Int /\ ctl.bad \in Nat /\ ctl.hold \in Int /\ pstate.win \in Int
    /\ past.seen \in Nat /\ past.at \in Int /\ past.acts \in Nat

LadderInv ==
    /\ LadderTyped
    /\ up = "idle" => past.at = -HoldOffMs /\ past.act = "none"
    /\ up = "active" =>
         /\ ctl.fps = pstate.fps /\ ctl.fps >= 10
         /\ ctl.hold = past.at + HoldOffMs
         /\ ctl.start # pstate.win => ctl.bad = 0
         /\ ctl.bad <= IF past.act = "none" THEN past.seen ELSE 0

LEMMA LadderInitial == LadderInit => LadderInv
BY DegradeAssumption DEF LadderInit, LadderInv, LadderTyped, IsCtl, IsPipe, DegradeInit, NoPipeline,
   DegradeAssumption

LEMMA LadderStartKeeps ==
    ASSUME LadderInv, Start
    PROVE  LadderInv'
<1>1. PICK wire \in Requests, win7 \in BOOLEAN, mft \in BOOLEAN, src \in Sources, ini \in Inis :
        /\ pstate' = Configured(wire, Resolved(wire, win7, mft), src, ini)
        /\ ctl' = DegradeInit(Resolved(wire, win7, mft).id, Resolved(wire, win7, mft).fps, ladderNow)
  BY DEF Start
<1> DEFINE res == Resolved(wire, win7, mft)
<1>2. res.fps \in Int /\ res.fps >= 10
  BY DEF Resolved, Resolve
<1>3. IsPipe(pstate') /\ pstate'.win = ladderNow /\ pstate'.fps = res.fps
  BY <1>1 DEF IsPipe, Configured
<1>4. IsCtl(ctl') /\ ctl'.fps = res.fps /\ ctl'.start = ladderNow /\ ctl'.bad = 0 /\ ctl'.hold = 0
  BY <1>1 DEF IsCtl, DegradeInit
<1>5. UNCHANGED <<ladderNow, past>> /\ up' = "active" /\ up = "idle"
  BY DEF Start
<1> HIDE DEF res
<1> QED
  BY <1>2, <1>3, <1>4, <1>5, DegradeAssumption DEF LadderInv, LadderTyped, DegradeAssumption

-----------------------------------------------------------------------------
(* What the controller's functions do to the counters.                     *)

LEMMA ResetDoes ==
    ASSUME NEW c, IsCtl(c), NEW t
    PROVE  /\ IsCtl(ResetHistory(c, t)) /\ ResetHistory(c, t).start = t /\ ResetHistory(c, t).bad = 0
           /\ ResetHistory(c, t).fps = c.fps /\ ResetHistory(c, t).hold = c.hold
BY DEF IsCtl, ResetHistory

LEMMA CountDoes ==
    ASSUME NEW c, IsCtl(c), NEW w
    PROVE  /\ IsCtl(Count(c, w)) /\ Count(c, w).start = c.start /\ Count(c, w).hold = c.hold
           /\ Count(c, w).fps = c.fps /\ Count(c, w).bad = IF Bad(w, c.fps) THEN c.bad + 1 ELSE 0
BY DEF IsCtl, Count

LEMMA MarkDoes ==
    ASSUME NEW c, IsCtl(c), NEW act, NEW t
    PROVE  /\ IsCtl(MarkTaken(c, act, t)) /\ MarkTaken(c, act, t).start = t /\ MarkTaken(c, act, t).bad = 0
           /\ MarkTaken(c, act, t).fps = c.fps /\ MarkTaken(c, act, t).hold = t + HoldOffMs
<1> DEFINE d == [c EXCEPT !.d0 = @ \/ act = "d0", !.d1 = @ \/ act = "d1",
                          !.d2 = @ \/ act = "d2", !.d3 = @ \/ act = "d3",
                          !.floorBad = IF act \in {"d0", "d3"} THEN 0 ELSE @,
                          !.floor = @ \/ act = "d3" \/ (act = "d0" /\ c.id = 1),
                          !.hold = t + HoldOffMs]
<1>1. IsCtl(d) /\ d.fps = c.fps /\ d.hold = t + HoldOffMs
  BY DEF IsCtl
<1>2. MarkTaken(c, act, t) = ResetHistory(d, t)
  BY DEF MarkTaken
<1> HIDE DEF d
<1> QED
  BY <1>1, <1>2, ResetDoes

LEMMA NotifyDoes ==
    ASSUME NEW c, IsCtl(c), NEW id, NEW fps, NEW t
    PROVE  /\ IsCtl(NotifyApplied(c, id, fps, t)) /\ NotifyApplied(c, id, fps, t).start = t
           /\ NotifyApplied(c, id, fps, t).bad = 0 /\ NotifyApplied(c, id, fps, t).fps = Lower(fps, c.fps)
           /\ NotifyApplied(c, id, fps, t).hold = c.hold
<1> DEFINE f == Lower(fps, c.fps)
           d == [c EXCEPT !.id = id, !.fps = f, !.d1 = @ \/ f <= 10,
                          !.floorBad = IF id = 1 /\ ~c.floor THEN 0 ELSE @, !.floor = @ \/ id = 1]
<1>1. IsCtl(d) /\ d.fps = f /\ d.hold = c.hold
  <2> HIDE DEF f
  <2> QED
    BY DEF IsCtl
<1>2. NotifyApplied(c, id, fps, t) = ResetHistory(d, t)
  BY DEF NotifyApplied
<1> HIDE DEF d
<1> QED
  BY <1>1, <1>2, ResetDoes

\* The windows the controller takes: rejected, empty, counted, or the second bad one
\* after the hold-off.
LEMMA WindowDoes ==
    ASSUME LadderTyped, NEW w, NEW end \in Int
    PROVE  LET r == OnWindow(ctl, end, w)
               bad == IF Bad(w, ctl.fps) THEN ctl.bad + 1 ELSE 0
           IN  /\ IsCtl(r.ctl) /\ r.ctl.fps = ctl.fps
               /\ \/ r.act = "none" /\ r.ctl = ctl /\ end - ctl.start # WindowMs
                  \/ r.act = "none" /\ r.ctl.start = end /\ r.ctl.bad = 0 /\ r.ctl.hold = ctl.hold
                  \/ r.act = "none" /\ r.ctl.start = end /\ r.ctl.bad = bad /\ r.ctl.hold = ctl.hold
                  \/ r.act = "stop" /\ r.ctl.start = end /\ r.ctl.bad = 0 /\ r.ctl.hold = ctl.hold
                  \/ /\ r.act \in {"d0", "d1", "d2", "d3"} /\ bad >= 2 /\ end >= ctl.hold
                     /\ r.ctl.start = end /\ r.ctl.bad = 0 /\ r.ctl.hold = end + HoldOffMs
<1> DEFINE n == Count(ctl, w)
           step == LadderStep(n)
           r == OnWindow(ctl, end, w)
           bad == IF Bad(w, ctl.fps) THEN ctl.bad + 1 ELSE 0
<1>0. IsCtl(ctl)
  BY DEF LadderTyped
<1>1. IsCtl(n) /\ n.start = ctl.start /\ n.hold = ctl.hold /\ n.fps = ctl.fps /\ n.bad = bad
  BY <1>0, CountDoes
<1>2. step \in {"d0", "d1", "d2", "d3", "none"}
  <2> HIDE DEF n
  <2> QED
    BY DEF LadderStep
<1>3. CASE end - ctl.start # WindowMs
  BY <1>0, <1>3 DEF OnWindow
<1>4. CASE end - ctl.start = WindowMs /\ NoData(w)
  <2> DEFINE z == [ctl EXCEPT !.floorBad = 0]
  <2>1. IsCtl(z) /\ z.fps = ctl.fps /\ z.hold = ctl.hold
    BY <1>0 DEF IsCtl
  <2>2. r = [act |-> "none", ctl |-> ResetHistory(z, end)]
    BY <1>4 DEF OnWindow
  <2> HIDE DEF z
  <2> QED
    BY <2>1, <2>2, ResetDoes
<1>5. CASE end - ctl.start = WindowMs /\ ~NoData(w)
  <2>1. r = IF n.floor /\ (n.d0 \/ n.d3) /\ n.floorBad >= FloorBad
            THEN [act |-> "stop", ctl |-> ResetHistory(n, end)]
            ELSE IF n.bad >= 2 /\ end >= n.hold /\ step # "none"
            THEN [act |-> step, ctl |-> MarkTaken(n, step, end)]
            ELSE [act |-> "none", ctl |-> [n EXCEPT !.start = end]]
    BY <1>5 DEF OnWindow
  <2>2. \/ r = [act |-> "stop", ctl |-> ResetHistory(n, end)]
        \/ n.bad >= 2 /\ end >= n.hold /\ step # "none" /\ r = [act |-> step, ctl |-> MarkTaken(n, step, end)]
        \/ r = [act |-> "none", ctl |-> [n EXCEPT !.start = end]]
    <3> HIDE DEF n, step, r
    <3> QED
      BY <2>1
  <2>3. IsCtl([n EXCEPT !.start = end]) /\ [n EXCEPT !.start = end].start = end /\ [n EXCEPT !.start = end].bad = n.bad
        /\ [n EXCEPT !.start = end].hold = n.hold /\ [n EXCEPT !.start = end].fps = n.fps
    <3> HIDE DEF n
    <3> QED
      BY <1>1 DEF IsCtl
  <2>4. IsCtl(ResetHistory(n, end)) /\ ResetHistory(n, end).start = end /\ ResetHistory(n, end).bad = 0
        /\ ResetHistory(n, end).fps = n.fps /\ ResetHistory(n, end).hold = n.hold
    BY <1>1, ResetDoes
  <2>5. IsCtl(MarkTaken(n, step, end)) /\ MarkTaken(n, step, end).start = end /\ MarkTaken(n, step, end).bad = 0
        /\ MarkTaken(n, step, end).fps = n.fps /\ MarkTaken(n, step, end).hold = end + HoldOffMs
    BY <1>1, MarkDoes
  <2> HIDE DEF n, step, r, bad
  <2>6. CASE r = [act |-> "stop", ctl |-> ResetHistory(n, end)]
    BY <1>1, <2>4, <2>6 DEF r, bad
  <2>7. CASE n.bad >= 2 /\ end >= n.hold /\ step # "none" /\ r = [act |-> step, ctl |-> MarkTaken(n, step, end)]
    BY <1>1, <1>2, <2>5, <2>7 DEF r, bad
  <2>8. CASE r = [act |-> "none", ctl |-> [n EXCEPT !.start = end]]
    <3> DEFINE z == [n EXCEPT !.start = end]
    <3>1. IsCtl(z) /\ z.start = end /\ z.bad = n.bad /\ z.hold = n.hold /\ z.fps = n.fps /\ r.act = "none" /\ r.ctl = z
      BY <2>3, <2>8
    <3> HIDE DEF z
    <3> QED
      BY <1>1, <3>1 DEF r, bad
  <2> QED
    BY <2>2, <2>6, <2>7, <2>8
<1> QED
  BY <1>3, <1>4, <1>5

-----------------------------------------------------------------------------

\* What is remembered of a closed window, and what it takes to step down in it.
Earned == past'.acts > past.acts /\ past'.act # "stop" => past'.seen >= 2 /\ past'.at - past.at >= HoldOffMs

\* A window that was closed with act, before the action is applied.
LEMMA CloseKeeps ==
    ASSUME LadderInv, CloseWindow
    PROVE  LadderInv' /\ Earned
<1>1. PICK w \in Windows :
        LET end == pstate.win + WindowMs
            r   == OnWindow(ctl, end, w)
            p   == [pstate EXCEPT !.win = end]
        IN  /\ past' = Remember(w, r.act)
            /\ \/ r.act \in {"none", "d0"} /\ pstate' = p /\ ctl' = r.ctl /\ up' = up
               \/ /\ r.act = "d1" /\ pstate' = [p EXCEPT !.fps = 10]
                  /\ ctl' = NotifyApplied(r.ctl, p.id, 10, ladderNow) /\ up' = up
               \/ /\ r.act \in {"d2", "d3"}
                  /\ LET id == IF r.act = "d2" THEN 2 ELSE 1
                     IN  /\ pstate' = Reconfigured(p, id, ladderNow)
                         /\ ctl' = NotifyApplied(r.ctl, id, p.fps, ladderNow)
                  /\ up' = up
               \/ /\ r.act \in {"d2", "d3", "stop"}
                  /\ pstate' = p /\ ctl' = r.ctl /\ up' = "stopped"
  BY DEF CloseWindow
<1> DEFINE end == pstate.win + WindowMs
           r == OnWindow(ctl, end, w)
           p == [pstate EXCEPT !.win = end]
           bad == IF Bad(w, ctl.fps) THEN ctl.bad + 1 ELSE 0
<1>2. up = "active" /\ ladderNow' = ladderNow
  BY DEF CloseWindow
<1>3. end \in Int /\ end = pstate.win + WindowMs /\ WindowMs \in Int /\ HoldOffMs \in Int
  BY DegradeAssumption DEF LadderInv, LadderTyped, DegradeAssumption
<1>4. IsPipe(p) /\ p.win = end /\ p.fps = pstate.fps
  BY DEF LadderInv, LadderTyped, IsPipe
<1>5. /\ IsCtl(r.ctl) /\ r.ctl.fps = ctl.fps
      /\ \/ r.act = "none" /\ r.ctl = ctl /\ end - ctl.start # WindowMs
         \/ r.act = "none" /\ r.ctl.start = end /\ r.ctl.bad = 0 /\ r.ctl.hold = ctl.hold
         \/ r.act = "none" /\ r.ctl.start = end /\ r.ctl.bad = bad /\ r.ctl.hold = ctl.hold
         \/ r.act = "stop" /\ r.ctl.start = end /\ r.ctl.bad = 0 /\ r.ctl.hold = ctl.hold
         \/ /\ r.act \in {"d0", "d1", "d2", "d3"} /\ bad >= 2 /\ end >= ctl.hold
            /\ r.ctl.start = end /\ r.ctl.bad = 0 /\ r.ctl.hold = end + HoldOffMs
  BY <1>3, WindowDoes DEF LadderInv
<1>6. /\ past'.act = r.act
      /\ past'.acts = IF r.act = "none" THEN past.acts ELSE past.acts + 1
      /\ past'.at = IF r.act = "none" THEN past.at ELSE end
      /\ past'.seen = IF Bad(w, pstate.fps) THEN IF past.act = "none" THEN past.seen + 1 ELSE 1 ELSE 0
  BY <1>1 DEF Remember
<1> HIDE DEF end, r, p, bad
<1>7. past'.seen \in Nat /\ past'.at \in Int /\ past'.acts \in Nat
  BY <1>3, <1>6 DEF LadderInv, LadderTyped
<1>8. ctl.fps = pstate.fps /\ ctl.fps \in Int /\ ctl.fps >= 10 /\ ctl.hold = past.at + HoldOffMs
      /\ (ctl.start # pstate.win => ctl.bad = 0) /\ ctl.bad \in Nat /\ ctl.start \in Int /\ pstate.win \in Int
      /\ past.at \in Int /\ past.seen \in Nat /\ past.acts \in Nat /\ ladderNow \in Nat
      /\ ctl.bad <= (IF past.act = "none" THEN past.seen ELSE 0)
  BY <1>2 DEF LadderInv, LadderTyped
<1>9. bad \in Nat /\ bad <= past'.seen
  BY <1>6, <1>8 DEF bad
<1>10. Earned
  BY <1>3, <1>5, <1>6, <1>8, <1>9 DEF Earned
<1>11. CASE r.act \in {"none", "d0"} /\ pstate' = p /\ ctl' = r.ctl /\ up' = up
  <2>1. LadderTyped'
    BY <1>2, <1>3, <1>4, <1>5, <1>7, <1>8, <1>9, <1>11 DEF LadderTyped
  <2>2. ctl'.fps = pstate'.fps /\ ctl'.fps >= 10
    BY <1>4, <1>5, <1>8, <1>11
  <2>3. ctl'.hold = past'.at + HoldOffMs
    BY <1>3, <1>5, <1>6, <1>8, <1>11
  <2>4. ctl'.start # pstate'.win => ctl'.bad = 0
    BY <1>3, <1>4, <1>5, <1>8, <1>11
  <2>5. ctl'.bad <= IF past'.act = "none" THEN past'.seen ELSE 0
    BY <1>3, <1>5, <1>6, <1>7, <1>8, <1>9, <1>11
  <2> QED
    BY <1>2, <1>10, <1>11, <2>1, <2>2, <2>3, <2>4, <2>5 DEF LadderInv
<1>12. CASE r.act = "d1" /\ pstate' = [p EXCEPT !.fps = 10]
            /\ ctl' = NotifyApplied(r.ctl, p.id, 10, ladderNow) /\ up' = up
  <2>1. IsPipe(pstate') /\ pstate'.win = end /\ pstate'.fps = 10
    BY <1>4, <1>12 DEF IsPipe
  <2>2. IsCtl(ctl') /\ ctl'.start = ladderNow /\ ctl'.bad = 0 /\ ctl'.fps = Lower(10, r.ctl.fps) /\ ctl'.hold = r.ctl.hold
    BY <1>5, <1>12, NotifyDoes
  <2>3. ctl'.fps = 10
    BY <1>5, <1>8, <2>2 DEF Lower
  <2>4. ctl'.hold = past'.at + HoldOffMs /\ past'.act # "none" /\ ctl'.hold \in Int
    BY <1>3, <1>5, <1>6, <1>8, <1>12, <2>2
  <2>5. LadderTyped'
    BY <1>2, <1>3, <1>7, <1>8, <1>12, <2>1, <2>2, <2>3, <2>4 DEF LadderTyped
  <2> QED
    BY <1>2, <1>10, <1>12, <2>1, <2>2, <2>3, <2>4, <2>5 DEF LadderInv
<1>13. ASSUME NEW id \in Nat, r.act \in {"d2", "d3"}, pstate' = Reconfigured(p, id, ladderNow),
              ctl' = NotifyApplied(r.ctl, id, p.fps, ladderNow), up' = up
       PROVE  LadderInv'
  <2>1. IsPipe(pstate') /\ pstate'.win = ladderNow /\ pstate'.fps = p.fps
    BY <1>4, <1>13 DEF Reconfigured, IsPipe
  <2>2. IsCtl(ctl') /\ ctl'.start = ladderNow /\ ctl'.bad = 0 /\ ctl'.fps = Lower(p.fps, r.ctl.fps) /\ ctl'.hold = r.ctl.hold
    BY <1>5, <1>13, NotifyDoes
  <2>3. ctl'.fps = ctl.fps
    BY <1>4, <1>5, <1>8, <2>2 DEF Lower
  <2>4. ctl'.hold = past'.at + HoldOffMs /\ past'.act # "none" /\ ctl'.hold \in Int
    BY <1>3, <1>5, <1>6, <1>8, <1>13, <2>2
  <2>5. LadderTyped'
    BY <1>2, <1>3, <1>7, <1>8, <1>13, <2>1, <2>2, <2>3, <2>4 DEF LadderTyped
  <2> QED
    BY <1>2, <1>4, <1>8, <1>13, <2>1, <2>2, <2>3, <2>4, <2>5, SMTT(40) DEF LadderInv
<1>14. CASE r.act \in {"d2", "d3", "stop"} /\ pstate' = p /\ ctl' = r.ctl /\ up' = "stopped"
  <2>1. ctl'.hold \in Int
    BY <1>3, <1>5, <1>8, <1>14
  <2> QED
    BY <1>2, <1>3, <1>4, <1>5, <1>7, <1>8, <1>10, <1>14, <2>1 DEF LadderInv, LadderTyped
<1> QED
  BY <1>1, <1>10, <1>11, <1>12, <1>13, <1>14 DEF end, r, p

LEMMA LadderStepKeeps ==
    ASSUME LadderInv, [LadderNext]_ladderVars
    PROVE  LadderInv' /\ (~UNCHANGED ladderVars => Earned)
<1>1. CASE UNCHANGED ladderVars
  BY <1>1 DEF ladderVars, LadderInv, LadderTyped
<1>2. CASE Start
  <2>1. past' = past
    BY <1>2 DEF Start
  <2>2. ~(past'.acts > past.acts)
    BY <2>1 DEF LadderInv, LadderTyped
  <2> QED
    BY <1>2, <2>2, LadderStartKeeps DEF Earned
<1>3. CASE CloseWindow
  BY <1>3, CloseKeeps
<1>4. CASE LoopTick
  <2>1. UNCHANGED <<pstate, ctl, up, past>> /\ ladderNow' \in Nat
    BY <1>4 DEF LoopTick, LadderInv, LadderTyped
  <2>2. LadderInv'
    BY <2>1 DEF LadderInv, LadderTyped
  <2>3. ~(past'.acts > past.acts)
    BY <2>1 DEF LadderInv, LadderTyped
  <2> QED
    BY <2>2, <2>3 DEF Earned
<1> QED
  BY <1>1, <1>2, <1>3, <1>4 DEF LadderNext

\* The counters of the controller are no more than the bad windows that were seen
\* since the last step, whatever the lateness of the loop.
THEOREM LadderCounts == LadderSpec => []LadderInv
<1>1. LadderInv /\ [LadderNext]_ladderVars => LadderInv'
  BY LadderStepKeeps
<1> QED
  BY <1>1, LadderInitial, PTL DEF LadderSpec

\* A step of the ladder follows two bad windows in a row and a hold-off since the
\* step before it, for every window length, hold-off and lateness of the loop.
THEOREM StepEarnedSafe == LadderSpec => StepEarned
<1>1. LadderInv /\ [LadderNext]_ladderVars => [Earned]_ladderVars
  BY LadderStepKeeps
<1>2. [Earned]_ladderVars => [ past'.acts > past.acts /\ past'.act # "stop" =>
            past'.seen >= 2 /\ past'.at - past.at >= HoldOffMs ]_ladderVars
  BY DEF Earned
<1> QED
  BY <1>1, <1>2, LadderCounts, PTL DEF LadderSpec, StepEarned

-----------------------------------------------------------------------------
(***************************************************************************)
(* The control plane of the desktop agent: a command takes effect once.    *)
(* The kept answers are what tells a repeated command from a new one, so   *)
(* the theorem is about commands that fit the cache; the two threads that  *)
(* run commands never run the same one, so nothing is looked up on one and *)
(* put on the other.                                                       *)
(***************************************************************************)

\* What the worker's queue holds.
InputCmds == {c \in Cmds : Kind[c] \in Inputs}

ControlTyped ==
    /\ ran \in [Cmds -> Nat] /\ cache \subseteq Cmds /\ inputQueue \in Seq(InputCmds)
    /\ wk \in [pc : {"idle", "gate", "inject", "release"}, cmd : InputCmds \cup {"none"}]
    /\ wk.pc # "idle" => wk.cmd \in InputCmds

\* A command that took effect has its answer kept, or is the press whose key the
\* worker still has to release.
Kept(c) == c \in cache \/ (wk.pc = "release" /\ wk.cmd = c)

ControlInv ==
    /\ ControlTyped
    /\ \A c \in Cmds : ran[c] <= 1 /\ (ran[c] = 1 => Kept(c))
    /\ wk.pc = "inject" => ran[wk.cmd] = 0

\* An answer that is put loses no other as long as the commands fit the cache.
LEMMA PutKeeps ==
    ASSUME Cardinality(Cmds) <= CacheSize, cache \subseteq Cmds, NEW c \in Cmds, dedup_cache_put(c)
    PROVE  cache' = cache \cup {c}
<1>1. CASE c \in cache
  BY <1>1 DEF dedup_cache_put
<1>2. CASE c \notin cache
  <2>1. IsFiniteSet(Cmds) /\ IsFiniteSet(Cmds \ {c}) /\ Cardinality(Cmds \ {c}) = Cardinality(Cmds) - 1
    BY DeskAssumption, FS_RemoveElement DEF DeskAssumption
  <2>2. cache \subseteq Cmds \ {c}
    BY <1>2
  <2>3. IsFiniteSet(cache) /\ Cardinality(cache) <= Cardinality(Cmds \ {c})
    BY <2>1, <2>2, FS_Subset
  <2>4. Cardinality(cache) \in Nat /\ Cardinality(Cmds) \in Nat /\ CacheSize \in Nat
    BY <2>1, <2>3, FS_CardinalityType, DeskAssumption DEF DeskAssumption
  <2>5. Cardinality(cache) < CacheSize
    BY <2>1, <2>3, <2>4
  <2> QED
    BY <2>5 DEF dedup_cache_put
<1> QED
  BY <1>1, <1>2

LEMMA ControlInitial == ControlInit => ControlInv
BY DEF ControlInit, ControlInv, ControlTyped, Kept, WorkerIdle

\* A step that leaves the commands and their answers alone.
LEMMA ControlSame ==
    ASSUME ControlInv, UNCHANGED <<ran, cache, wk>>, inputQueue' \in Seq(InputCmds)
    PROVE  ControlInv'
BY DEF ControlInv, ControlTyped, Kept

\* A stream command: the MQTT thread runs it, and keeps its answer, in one step.
LEMMA StreamKeeps ==
    ASSUME Cardinality(Cmds) <= CacheSize, ControlInv, NEW c \in Cmds, Kind[c] \notin Inputs,
           StreamCommand(c), wk' = wk
    PROVE  ControlInv'
<1>1. inputQueue' \in Seq(InputCmds)
  BY DEF StreamCommand, ControlInv, ControlTyped
<1>2. CASE UNCHANGED <<ran, cache>>
  BY <1>1, <1>2, ControlSame
<1>3. CASE ~dedup_cache_get(c) /\ Runs(c) /\ dedup_cache_put(c)
  <2>1. cache' = cache \cup {c}
    BY <1>3, PutKeeps DEF ControlInv, ControlTyped
  <2>2. c \notin cache /\ (wk.cmd # c \/ wk.pc = "idle")
    BY <1>3 DEF dedup_cache_get, ControlInv, ControlTyped, InputCmds
  <2>3. ran[c] = 0
    BY <1>3, <2>2 DEF dedup_cache_get, ControlInv, ControlTyped, Kept
  <2>4. ran' = [ran EXCEPT ![c] = 1]
    BY <1>3, <2>3 DEF Runs, ControlInv, ControlTyped
  <2>5. ControlTyped'
    BY <1>1, <2>1, <2>4 DEF ControlInv, ControlTyped
  <2>6. \A d \in Cmds : ran'[d] <= 1 /\ (ran'[d] = 1 => Kept(d)')
    BY <2>1, <2>4 DEF ControlInv, ControlTyped, Kept
  <2>7. wk'.pc = "inject" => ran'[wk'.cmd] = 0
    BY <2>2, <2>4 DEF ControlInv, ControlTyped
  <2> QED
    BY <2>5, <2>6, <2>7 DEF ControlInv
<1> QED
  BY <1>2, <1>3 DEF StreamCommand

\* The worker answers a command whose effect, if it had one, is counted.
LEMMA AnswerKeeps ==
    ASSUME Cardinality(Cmds) <= CacheSize, ControlInv, wk.pc # "idle", Answered, UNCHANGED inputQueue,
           \/ UNCHANGED ran
           \/ ran[wk.cmd] = 0 /\ Runs(wk.cmd)
    PROVE  ControlInv'
<1> DEFINE c == wk.cmd
<1>1. c \in Cmds /\ c \in InputCmds
  BY DEF ControlInv, ControlTyped, InputCmds
<1>2. cache' = cache \cup {c}
  BY <1>1, PutKeeps DEF Answered, ControlInv, ControlTyped
<1>3. wk' = WorkerIdle
  BY DEF Answered
<1>4. ran' = ran \/ ran' = [ran EXCEPT ![c] = 1]
  BY <1>1 DEF Runs, ControlInv, ControlTyped
<1>5. ControlTyped'
  BY <1>1, <1>2, <1>3, <1>4 DEF ControlInv, ControlTyped, WorkerIdle
<1>6. \A d \in Cmds : ran'[d] <= 1 /\ (ran'[d] = 1 => Kept(d)')
  BY <1>1, <1>2, <1>4 DEF ControlInv, ControlTyped, Kept
<1> QED
  BY <1>3, <1>5, <1>6 DEF ControlInv, WorkerIdle

LEMMA GateKeeps ==
    ASSUME Cardinality(Cmds) <= CacheSize, ControlInv, Gate
    PROVE  ControlInv'
<1>1. UNCHANGED <<ran, inputQueue>> /\ wk.pc = "gate"
  BY DEF Gate
<1>2. CASE wk' = WorkerIdle /\ UNCHANGED cache
  <2>1. ControlTyped'
    BY <1>1, <1>2 DEF ControlInv, ControlTyped, WorkerIdle
  <2> QED
    BY <1>1, <1>2, <2>1 DEF ControlInv, Kept, WorkerIdle
<1>3. CASE Answered
  BY <1>1, <1>3, AnswerKeeps
<1>4. CASE ~dedup_cache_get(wk.cmd) /\ UNCHANGED cache /\ wk' = [wk EXCEPT !.pc = "inject"]
  <2>1. wk'.pc = "inject" /\ wk'.cmd = wk.cmd /\ wk.cmd \in InputCmds
    BY <1>1, <1>4 DEF ControlInv, ControlTyped
  <2>2. ControlTyped'
    BY <1>1, <1>4, <2>1 DEF ControlInv, ControlTyped
  <2>3. \A d \in Cmds : ran'[d] <= 1 /\ (ran'[d] = 1 => Kept(d)')
    BY <1>1, <1>4 DEF ControlInv, Kept
  <2>4. ran[wk.cmd] = 0
    BY <1>1, <1>4, <2>1 DEF ControlInv, ControlTyped, Kept, dedup_cache_get, InputCmds
  <2> QED
    BY <1>1, <2>1, <2>2, <2>3, <2>4 DEF ControlInv
<1> QED
  BY <1>2, <1>3, <1>4 DEF Gate, Answered

LEMMA InjectKeeps ==
    ASSUME Cardinality(Cmds) <= CacheSize, ControlInv, NEW sent \in BOOLEAN, Inject(sent)
    PROVE  ControlInv'
<1>1. wk.pc = "inject" /\ UNCHANGED inputQueue /\ ran[wk.cmd] = 0
  BY DEF Inject, ControlInv
<1>2. CASE Answered /\ (UNCHANGED ran \/ Runs(wk.cmd))
  BY <1>1, <1>2, AnswerKeeps
<1>3. CASE Runs(wk.cmd) /\ UNCHANGED cache /\ wk' = [wk EXCEPT !.pc = "release"]
  <2>1. wk.cmd \in InputCmds /\ wk.cmd \in Cmds
    BY <1>1 DEF ControlInv, ControlTyped, InputCmds
  <2>2. ran' = [ran EXCEPT ![wk.cmd] = 1]
    BY <1>1, <1>3, <2>1 DEF Runs, ControlInv, ControlTyped
  <2>3. wk'.pc = "release" /\ wk'.cmd = wk.cmd
    BY <1>3 DEF ControlInv, ControlTyped
  <2>4. ControlTyped'
    BY <1>1, <1>3, <2>1, <2>2, <2>3 DEF ControlInv, ControlTyped
  <2>5. \A d \in Cmds : ran'[d] <= 1 /\ (ran'[d] = 1 => Kept(d)')
    BY <1>1, <1>3, <2>1, <2>2, <2>3 DEF ControlInv, ControlTyped, Kept
  <2> QED
    BY <2>3, <2>4, <2>5 DEF ControlInv
<1> QED
  BY <1>2, <1>3 DEF Inject

LEMMA ControlStep ==
    ASSUME Cardinality(Cmds) <= CacheSize, ControlInv, [ControlNext]_controlVars
    PROVE  ControlInv'
<1>q. inputQueue \in Seq(InputCmds)
  BY DEF ControlInv, ControlTyped
<1>1. CASE UNCHANGED controlVars
  BY <1>1, <1>q, ControlSame DEF controlVars
<1>2. ASSUME NEW c \in Cmds, Deliver(c) PROVE ControlInv'
  <2>1. CASE Kind[c] \in Inputs
    <3>1. inputQueue' \in Seq(InputCmds)
      BY <1>2, <1>q, <2>1, SMTT(40) DEF Deliver, InputCommand, Queued, InputCmds
    <3> QED
      BY <1>2, <2>1, <3>1, ControlSame DEF Deliver, InputCommand
  <2>2. CASE Kind[c] \notin Inputs
    BY <1>2, <2>2, StreamKeeps DEF Deliver
  <2> QED
    BY <2>1, <2>2
<1>3. CASE LeaseTick \/ Connect \/ Disconnect \/ LinkDies \/ Desktop \/ ControlClock
  BY <1>3, <1>q, ControlSame DEF LeaseTick, Connect, Disconnect, LinkDies, Desktop, ControlClock, ControlRest
<1>4. CASE Take
  <2>1. CASE inputQueue = <<>>
    BY <1>4, <1>q, <2>1, ControlSame DEF Take
  <2>2. CASE inputQueue # <<>>
    <3>1. wk.pc = "idle" /\ UNCHANGED <<ran, cache>>
          /\ wk' = [pc |-> "gate", cmd |-> Head(inputQueue)] /\ inputQueue' = Tail(inputQueue)
      BY <1>4, <2>2 DEF Take
    <3>2. Head(inputQueue) \in InputCmds /\ Tail(inputQueue) \in Seq(InputCmds)
      BY <1>q, <2>2
    <3>3. wk'.pc = "gate" /\ wk'.cmd \in InputCmds
      BY <3>1, <3>2
    <3>4. ControlTyped'
      BY <3>1, <3>2, <3>3 DEF ControlInv, ControlTyped
    <3> QED
      BY <3>1, <3>3, <3>4 DEF ControlInv, Kept
  <2> QED
    BY <2>1, <2>2
<1>5. CASE Gate
  BY <1>5, GateKeeps
<1>6. ASSUME NEW sent \in BOOLEAN, Inject(sent) PROVE ControlInv'
  BY <1>6, InjectKeeps
<1>7. ASSUME NEW sent \in BOOLEAN, Release(sent) PROVE ControlInv'
  <2>1. wk.pc # "idle" /\ Answered /\ UNCHANGED <<inputQueue, ran>>
    BY <1>7 DEF Release
  <2> QED
    BY <2>1, AnswerKeeps
<1> QED
  BY <1>1, <1>2, <1>3, <1>4, <1>5, <1>6, <1>7 DEF ControlNext, Worker

\* However often the broker delivers a command, and whichever thread handles it, it
\* takes effect once, as long as the commands of the behaviour fit the 256 answers
\* the agent keeps (dedup_cache.c).
THEOREM OnceSafe == ASSUME Cardinality(Cmds) <= CacheSize PROVE ControlSpec => []AtMostOnce
<1>1. ControlInv => AtMostOnce
  BY DEF ControlInv, AtMostOnce
<1> QED
  BY <1>1, ControlInitial, ControlStep, PTL DEF ControlSpec

-----------------------------------------------------------------------------
(***************************************************************************)
(* The supervisor of ffmpeg: one process sends, and it sends the stream    *)
(* that is reported.  Both rest on who holds a process: ffmpeg is held     *)
(* only while the supervisor is "running", so a launch never overwrites    *)
(* the handle of one that still runs.  They are about the ffmpeg backend:  *)
(* an l4capture child may outlive the wait for its end.                    *)
(***************************************************************************)

SupRecord == [state : States, stream : Streams \cup {None}, mode : Modes \cup {None}, expires : Nat,
              count : Nat, win : Nat, next : Nat, prog : Nat, pid : Nat]
FfRecord == [st : {"none", "alive", "dead"}, stream : Streams \cup {None}, job : BOOLEAN, id : Nat]

StreamInv ==
    /\ loopNow \in Nat /\ launches \in Nat
    /\ sup \in SupRecord /\ ff \in FfRecord
    /\ ad = NoAd /\ lost = {}
    /\ ff.st # "none" => sup.state = "running" /\ ff.stream = sup.stream

LEMMA StreamInitial == StreamInit => StreamInv
BY DEF StreamInit, StreamInv, SupRecord, FfRecord, NoSup, NoFF, States, Modes

\* ffmpeg is launched for the stream of the supervisor.
LEMMA LaunchKeeps ==
    ASSUME StreamInv, NEW x \in SupRecord, NEW job \in BOOLEAN, launch_ffmpeg_process(x, x.stream, job),
           ad' = NoAd, lost' = {}, loopNow' = loopNow
    PROVE  StreamInv'
<1>1. launches' \in Nat /\ loopNow' \in Nat
  BY DEF launch_ffmpeg_process, StreamInv
<1>2. ff' \in FfRecord /\ ff'.st = "alive" /\ ff'.stream = x.stream
  BY <1>1 DEF launch_ffmpeg_process, FfRecord, SupRecord, StreamInv
<1>3. sup' \in SupRecord /\ sup'.state = "running" /\ sup'.stream = x.stream
  BY <1>1 DEF launch_ffmpeg_process, SupRecord, States, StreamInv
<1> QED
  BY <1>1, <1>2, <1>3 DEF StreamInv

\* The handle is closed.
LEMMA ClosedKeeps ==
    ASSUME sup' \in SupRecord, ff' = NoFF, ad' = NoAd, lost' = {}, loopNow' \in Nat, launches' \in Nat
    PROVE  StreamInv'
BY DEF StreamInv, NoFF, FfRecord

\* A step that leaves the supervisor and its process alone.
LEMMA StreamSame ==
    ASSUME StreamInv, UNCHANGED <<sup, ff, ad, lost, launches>>, loopNow' \in Nat
    PROVE  StreamInv'
BY DEF StreamInv

LEMMA EnteredTyped ==
    ASSUME StreamInv, NEW s \in Streams, NEW m \in Modes
    PROVE  Entered(s, m) \in SupRecord /\ Entered(s, m).stream = s
BY DEF StreamInv, Entered, SupRecord

LEMMA CleanedTyped == ASSUME NEW x \in SupRecord PROVE Cleaned(x) \in SupRecord
BY DEF Cleaned, SupRecord

LEMMA CountedTyped ==
    ASSUME StreamInv, NEW x \in SupRecord
    PROVE  Rescheduled(x) \in SupRecord
<1>1. Counted(x) \in SupRecord
  <2>1. [x EXCEPT !.win = loopNow, !.count = 1] \in SupRecord
    BY DEF StreamInv, SupRecord
  <2>2. x.count + 1 \in Nat
    BY DEF SupRecord
  <2>3. [x EXCEPT !.count = @ + 1] \in SupRecord
    BY <2>2 DEF SupRecord
  <2> QED
    BY <2>1, <2>3 DEF Counted
<1>2. Cleaned(Counted(x)) \in SupRecord
  BY <1>1, CleanedTyped
<1>3. \A c \in SupRecord : [c EXCEPT !.state = "failed", !.next = 0] \in SupRecord
  BY DEF SupRecord, States
<1>4. \A c \in SupRecord, n \in Nat : [c EXCEPT !.state = "restarting", !.next = n] \in SupRecord
  BY DEF SupRecord, States
<1>5. loopNow + 1 \in Nat
  BY DEF StreamInv
<1> QED
  BY <1>2, <1>3, <1>4, <1>5 DEF Rescheduled

\* A start: what runs is switched off before the new process, and nothing runs
\* under a supervisor that is not "running".
LEMMA FfmpegStartKeeps ==
    ASSUME Backend = "ffmpeg", StreamInv, NEW s \in Streams, NEW m \in Modes, NEW ok \in BOOLEAN,
           NEW job \in BOOLEAN, NEW sure, StartFfmpeg(s, m, ok, job, sure)
    PROVE  StreamInv'
<1>1. ad' = NoAd /\ loopNow' = loopNow
  BY DEF StartFfmpeg, StreamInv, Same
<1>2. Overlaid = {}
  BY DEF Overlaid, StreamInv, Switched
<1>3. lost' = {}
  BY <1>2 DEF StartFfmpeg, StreamInv
<1>4. Entered(s, m) \in SupRecord /\ Entered(s, m).stream = s
  BY EnteredTyped
<1>5. CASE ok
  BY <1>1, <1>3, <1>4, <1>5, LaunchKeeps DEF StartFfmpeg
<1>6. CASE ~ok
  <2>1. sup' = [Entered(s, m) EXCEPT !.state = "failed"] /\ launches' = launches /\ ff' = IF Switched THEN NoFF ELSE ff
    BY <1>6 DEF StartFfmpeg
  <2>2. sup' \in SupRecord
    BY <1>4, <2>1 DEF SupRecord, States
  <2>3. CASE Switched
    BY <1>1, <1>3, <2>1, <2>2, <2>3, ClosedKeeps DEF StreamInv
  <2>4. CASE ~Switched
    BY <1>1, <1>3, <2>1, <2>2, <2>4 DEF StreamInv, Switched
  <2> QED
    BY <2>3, <2>4
<1> QED
  BY <1>5, <1>6

\* The tick: without an adapter the first check that applies decides.
LEMMA TickKeeps ==
    ASSUME Backend = "ffmpeg", StreamInv, NEW ok \in BOOLEAN, NEW job \in BOOLEAN, NEW sure,
           SupervisorTick(ok, job, sure)
    PROVE  StreamInv'
<1>1. l4d_adapter_poll(ad, ok, sure) = NoAd /\ NoAd.st = "NULL"
  BY DEF l4d_adapter_poll, StreamInv, NoAd
<1>2. Polled(NoAd) = sup
  BY <1>1 DEF Polled, StreamInv
<1>3. ad' = NoAd /\ lost' = {} /\ loopNow' = loopNow /\ sup \in SupRecord /\ loopNow \in Nat /\ launches \in Nat
  BY <1>1 DEF SupervisorTick, StreamInv, Same
<1>4. ~(ad.st = "RESTARTING")
  BY DEF StreamInv, NoAd
<1>5. CASE LeaseExpired(sup)
  <2>1. sup' = Released(sup) /\ ff' = NoFF /\ launches' = launches
    BY <1>1, <1>2, <1>5 DEF SupervisorTick
  <2>2. sup' \in SupRecord
    BY <1>3, <2>1 DEF Released, SupRecord, States
  <2> QED
    BY <1>3, <2>1, <2>2, ClosedKeeps
<1>6. CASE ~LeaseExpired(sup) /\ Relaunch(sup)
  <2>1. CASE ok /\ (sup.mode = "desktop" => env.session)
    <3>1. launch_ffmpeg_process([sup EXCEPT !.next = 0], sup.stream, job)
      BY <1>1, <1>2, <1>6, <2>1 DEF SupervisorTick
    <3>2. [sup EXCEPT !.next = 0] \in SupRecord /\ [sup EXCEPT !.next = 0].stream = sup.stream
      BY <1>3 DEF SupRecord
    <3> QED
      BY <1>3, <3>1, <3>2, LaunchKeeps
  <2>2. CASE ~(ok /\ (sup.mode = "desktop" => env.session))
    <3>1. sup' = Rescheduled(sup) /\ ff' = NoFF /\ launches' = launches
      BY <1>1, <1>2, <1>6, <2>2 DEF SupervisorTick
    <3> QED
      BY <1>3, <3>1, CountedTyped, ClosedKeeps
  <2> QED
    BY <2>1, <2>2
<1>7. CASE ~LeaseExpired(sup) /\ ~Relaunch(sup)
  <2>1. launches' = launches
    BY <1>1, <1>2, <1>4, <1>7 DEF SupervisorTick
  <2>2. \/ sup' = Rescheduled(sup) /\ ff' = NoFF
        \/ Down(sup, "session_unavailable") \/ Down(sup, "source_unavailable")
        \/ sup' = sup /\ ff' = ff
    BY <1>1, <1>2, <1>7 DEF SupervisorTick
  <2>3. CASE sup' = Rescheduled(sup) /\ ff' = NoFF
    BY <1>3, <2>1, <2>3, CountedTyped, ClosedKeeps
  <2>4. CASE Down(sup, "session_unavailable") \/ Down(sup, "source_unavailable")
    <3>0. \A c \in SupRecord : /\ [c EXCEPT !.state = "session_unavailable", !.next = 0] \in SupRecord
                               /\ [c EXCEPT !.state = "source_unavailable", !.next = 0] \in SupRecord
      BY DEF SupRecord, States
    <3>1. sup' \in SupRecord /\ ff' = NoFF
      BY <1>3, <2>4, <3>0, CleanedTyped DEF Down
    <3> QED
      BY <1>3, <2>1, <3>1, ClosedKeeps
  <2>5. CASE sup' = sup /\ ff' = ff
    BY <1>3, <2>1, <2>5, StreamSame DEF StreamInv
  <2> QED
    BY <2>2, <2>3, <2>4, <2>5
<1> QED
  BY <1>5, <1>6, <1>7

LEMMA StreamStep ==
    ASSUME Backend = "ffmpeg", StreamInv, [StreamNext]_streamVars
    PROVE  StreamInv'
<1>0. sup \in SupRecord /\ ff \in FfRecord /\ ad = NoAd /\ lost = {} /\ loopNow \in Nat /\ launches \in Nat
  BY DEF StreamInv
<1>1. CASE UNCHANGED streamVars
  BY <1>0, <1>1, StreamSame DEF streamVars
<1>2. ASSUME NEW s \in Streams, NEW sure, StartCapture(s, sure) PROVE StreamInv'
  BY <1>2 DEF StartCapture
<1>3. ASSUME NEW s \in Streams, NEW sure, StopStream(s, sure) PROVE StreamInv'
  <2>1. l4d_adapter_stop(ad, sure) = NoAd /\ Confirmed(NoAd)
    BY <1>0 DEF l4d_adapter_stop, Confirmed, NoAd
  <2>2. sup' = Released(sup) /\ ff' = NoFF /\ ad' = NoAd /\ lost' = lost /\ launches' = launches /\ loopNow' = loopNow
    BY <1>3, <2>1 DEF StopStream, Stopped, Same
  <2>3. sup' \in SupRecord
    BY <1>0, <2>2 DEF Released, SupRecord, States
  <2> QED
    BY <1>0, <2>2, <2>3, ClosedKeeps
<1>4. ASSUME NEW s \in Streams, NEW m \in Modes, NEW ok \in BOOLEAN, NEW job \in BOOLEAN, NEW sure,
             StartFfmpeg(s, m, ok, job, sure)
      PROVE  StreamInv'
  BY <1>4, FfmpegStartKeeps
<1>5. ASSUME NEW s \in Streams, NEW e \in 1 .. MaxExpiry, UpdateLease(s, e) PROVE StreamInv'
  <2>1. ad' = NoAd
    BY <1>0, <1>5 DEF UpdateLease, l4d_adapter_renew_lease, NoAd
  <2>2. e \in Nat
    BY StreamAssumption DEF StreamAssumption
  <2>3. sup' \in SupRecord /\ sup'.state = sup.state /\ sup'.stream = sup.stream
    BY <1>0, <1>5, <2>2 DEF UpdateLease, SupRecord
  <2> QED
    BY <1>5, <2>1, <2>3 DEF UpdateLease, Same, StreamInv
<1>6. ASSUME NEW ok \in BOOLEAN, NEW job \in BOOLEAN, NEW sure, SupervisorTick(ok, job, sure) PROVE StreamInv'
  BY <1>6, TickKeeps
<1>7. CASE Cleanup \/ Crash
  <2>1. NoSup \in SupRecord
    BY DEF NoSup, SupRecord, States, Modes
  <2>2. sup' = NoSup /\ ff' = NoFF /\ ad' = NoAd /\ lost' = {} /\ loopNow' = loopNow /\ launches' = launches
    BY <1>7 DEF Cleanup, Crash
  <2> QED
    BY <1>0, <2>1, <2>2, ClosedKeeps
<1>8. CASE PidReused \/ Reconcile \/ Session \/ (\E m \in Modes : Source(m)) \/ Clock
  BY <1>0, <1>8, StreamSame DEF PidReused, Reconcile, Session, Source, Clock, Rest
<1>9. CASE FfmpegExits
  <2>1. ff' \in FfRecord /\ ff'.stream = ff.stream /\ ff.st # "none"
    BY <1>0, <1>9 DEF FfmpegExits, FfRecord
  <2> QED
    BY <1>9, <2>1 DEF FfmpegExits, Rest, StreamInv
<1>10. CASE CaptureExits
  BY <1>0, <1>10 DEF CaptureExits, NoAd
<1>11. CASE Progress
  <2>1. sup' \in SupRecord /\ sup'.state = sup.state /\ sup'.stream = sup.stream
    BY <1>0, <1>11 DEF Progress, SupRecord
  <2> QED
    BY <1>11, <2>1 DEF Progress, Rest, StreamInv
<1> QED
  BY <1>1, <1>2, <1>3, <1>4, <1>5, <1>6, <1>7, <1>8, <1>9, <1>10, <1>11 DEF StreamNext

\* With no adapter and nothing lost, what runs is the process the supervisor holds.
LEMMA AliveIs == StreamInv => Alive = IF ff.st = "alive" THEN {Proc(ff)} ELSE {}
BY DEF StreamInv, Alive, NoAd

\* Who holds a process, in every reachable state of the agent with the ffmpeg backend.
THEOREM StreamHeld == ASSUME Backend = "ffmpeg" PROVE StreamSpec => []StreamInv
BY StreamInitial, StreamStep, PTL DEF StreamSpec

\* One ffmpeg at most runs, over switches, restarts, failed launches, crashes of the
\* agent and starts from every state.
THEOREM OneSenderSafe == ASSUME Backend = "ffmpeg" PROVE StreamSpec => []OneSender
<1>1. StreamInv => OneSender
  <2> SUFFICES ASSUME StreamInv PROVE Cardinality(Alive) <= 1
    BY DEF OneSender
  <2>1. Cardinality({Proc(ff)}) = 1 /\ Cardinality({}) = 0
    BY FS_Singleton, FS_EmptySet
  <2>2. Alive = {Proc(ff)} \/ Alive = {}
    BY AliveIs
  <2> QED
    BY <2>1, <2>2
<1> QED
  BY <1>1, StreamHeld, PTL

\* The ffmpeg that runs sends the stream the agent reports: a restart never brings
\* back the stream that was switched off.
THEOREM RightStreamSafe == ASSUME Backend = "ffmpeg" PROVE StreamSpec => []RightStream
<1>1. StreamInv => RightStream
  BY AliveIs DEF StreamInv, RightStream, Proc
<1> QED
  BY <1>1, StreamHeld, PTL
=============================================================================
