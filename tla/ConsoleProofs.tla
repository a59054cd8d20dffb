--------------------------- MODULE ConsoleProofs ---------------------------
(***************************************************************************)
(* The console agent, proved for every value of the constants: the link    *)
(* probe of an update, the file transfers, and the commands with the drain *)
(* of an update.                                                           *)
(***************************************************************************)
EXTENDS ConLink, ConFiles, ConAgent, TLAPS

-----------------------------------------------------------------------------
(***************************************************************************)
(* The evidence of the link probe, proved for every bound and every        *)
(* timeout. OneConnection alone is not inductive: that a probe which is    *)
(* done has its four marks on one connection depends on what the marks     *)
(* were at each earlier stage, on the MQTT thread being able to reach a    *)
(* new connection only after probe_disconnect, and on what it took out of  *)
(* the lock still being about the probe that is there when it comes back.  *)
(***************************************************************************)

LiveStages == {"wait_rsp", "need_event", "wait_eva"}
Dialling == {"resolve", "dial", "connack"}

\* What the argument needs of the types: nothing is asked of the timeouts and the bounds
LinkShape ==
  /\ pc \in Dialling \cup {"greet", "loop", "send", "after", "io", "lost"}
  /\ conn \in Nat /\ probeGen \in Nat
  /\ probe \in [stage : Stages, deadline : {probe.deadline}, req : Nat, rsp : Nat, evt : Nat, eva : Nat]
  /\ outgoing \in [stage : {"none", "queued", "need_event"}, gen : Nat, ok : BOOLEAN]

\* The thread is on a connection unless it is looking for one, and then no probe is under way on the wire
Placed == IF pc \in Dialling THEN probe.stage \notin LiveStages ELSE conn # 0
\* Every mark a stage stands for was set on the connection of now
Marked ==
  /\ probe.stage \in LiveStages => probe.req = conn
  /\ probe.stage \in {"need_event", "wait_eva"} => probe.rsp = conn
  /\ probe.stage = "wait_eva" => probe.evt = conn
\* An event that was taken out of the lock for this generation finds the probe where it was, or failed
Carried ==
  /\ outgoing.gen <= probeGen
  /\ pc \in {"send", "after"} /\ outgoing.stage = "need_event" /\ outgoing.gen = probeGen =>
       /\ probe.stage \in {"need_event", "failed"}
       /\ pc = "after" /\ probe.stage = "need_event" => probe.evt = conn

LinkIInv == LinkShape /\ Placed /\ Marked /\ Carried /\ OneConnection

USE DEF world, probes, cert

\* The agent starts without a connection, a probe or a message
LEMMA LinkInitIInv == LinkInit => LinkIInv
  BY DEF LinkInit, LinkIInv, LinkShape, Placed, Marked, Carried, OneConnection, NoProbe, Nothing, LiveStages, Dialling, Stages

\* Steps that leave the thread's place, the connection and the probe alone
LEMMA LinkSame == ASSUME LinkIInv, UNCHANGED <<pc, conn, probe, probeGen, outgoing>> PROVE LinkIInv'
  BY DEF LinkIInv, LinkShape, Placed, Marked, Carried, OneConnection

\* The connect loop: a new connection only while no probe is under way
LEMMA ConnectStep ==
  ASSUME LinkIInv, ResolveSn \/ Dial \/ (\E a \in BOOLEAN : Connack(a)) \/ Greet PROVE LinkIInv'
<1>1. CASE ResolveSn \/ Dial
  BY <1>1 DEF ResolveSn, Dial, AsksProxy, Connects, LinkIInv, LinkShape, Placed, Marked, Carried, OneConnection, Dialling
<1>2. CASE \E a \in BOOLEAN : Connack(a)
  BY <1>2 DEF Connack, LinkIInv, LinkShape, Placed, Marked, Carried, OneConnection, Dialling, LiveStages, Stages
<1>3. CASE Greet
  BY <1>3 DEF Greet, LinkIInv, LinkShape, Placed, Marked, Carried, OneConnection, Dialling
<1> QED BY <1>1, <1>2, <1>3

\* The caller's thread: a call takes the next generation, giving up fails the probe
LEMMA CallerStep ==
  ASSUME LinkIInv, ProbeCall \/ (\E c \in BOOLEAN : ProbePoll(c)) PROVE LinkIInv'
<1>1. CASE ProbeCall
  <2>1. /\ probeGen' = probeGen + 1 /\ UNCHANGED <<pc, conn, outgoing>>
        /\ probe' = [stage |-> "queued", deadline |-> linkNow + ProbeTimeout, req |-> 0, rsp |-> 0, evt |-> 0, eva |-> 0]
    BY <1>1 DEF ProbeCall, NoProbe
  <2> QED BY <2>1 DEF LinkIInv, LinkShape, Placed, Marked, Carried, OneConnection, LiveStages, Stages
<1>2. CASE \E c \in BOOLEAN : ProbePoll(c)
  <2>1. /\ UNCHANGED <<pc, conn, probeGen, outgoing>>
        /\ probe' = probe \/ probe' = [probe EXCEPT !.stage = "failed"]
    BY <1>2 DEF ProbePoll
  <2> QED BY <2>1 DEF LinkIInv, LinkShape, Placed, Marked, Carried, OneConnection, LiveStages, Stages
<1> QED BY <1>1, <1>2

\* The thread under the lock: the request is marked with the connection it is about to use
LEMMA TickStep == ASSUME LinkIInv, Tick PROVE LinkIInv'
<1>1. PICK p : /\ p = probe \/ p = [probe EXCEPT !.stage = "failed"]
               /\ probe' = IF p.stage = "queued" THEN [p EXCEPT !.stage = "wait_rsp", !.req = conn] ELSE p
               /\ outgoing' = IF p.stage \in {"queued", "need_event"} THEN [stage |-> p.stage, gen |-> probeGen, ok |-> TRUE] ELSE Nothing
               /\ pc' = IF p.stage \in {"queued", "need_event"} THEN "send" ELSE "io"
               /\ pc = "loop" /\ UNCHANGED <<conn, probeGen>>
  BY DEF Tick
<1>2. /\ p \in [stage : Stages, deadline : {p.deadline}, req : Nat, rsp : Nat, evt : Nat, eva : Nat]
      /\ p.stage # "failed" => p = probe
  BY <1>1 DEF LinkIInv, LinkShape, Stages
<1> USE DEF LinkIInv, LinkShape, Placed, Marked, Carried, OneConnection, LiveStages, Stages, Nothing, Dialling
<1>3. CASE p.stage = "queued"
  <2>1. probe' = [probe EXCEPT !.stage = "wait_rsp", !.req = conn] /\ pc' = "send" /\ UNCHANGED <<conn, probeGen>>
    BY <1>1, <1>2, <1>3
  <2>2. outgoing' = [stage |-> "queued", gen |-> probeGen, ok |-> TRUE]
    BY <1>1, <1>3
  <2>3. LinkShape'
    BY <2>1, <2>2
  <2>4. Placed' /\ Marked' /\ OneConnection'
    BY <2>1, <1>1
  <2>5. Carried'
    BY <2>1, <2>2
  <2> QED BY <2>3, <2>4, <2>5
<1>4. CASE p.stage = "need_event"
  BY <1>1, <1>2, <1>4
<1>5. CASE p.stage \notin {"queued", "need_event"}
  BY <1>1, <1>2, <1>5
<1> QED BY <1>3, <1>4, <1>5

\* The message outside the lock, and the lock taken again
LEMMA SendStep == ASSUME LinkIInv, (\E ok \in BOOLEAN : Send(ok)) \/ AfterSend PROVE LinkIInv'
<1>1. CASE \E ok \in BOOLEAN : Send(ok)
  BY <1>1 DEF Send, LinkIInv, LinkShape, Placed, Marked, Carried, OneConnection, LiveStages, Stages, Dialling
<1>2. CASE AfterSend
  BY <1>2 DEF AfterSend, StillOurs, LinkIInv, LinkShape, Placed, Marked, Carried, OneConnection, LiveStages, Stages, Nothing, Dialling
<1> QED BY <1>1, <1>2

\* The answers: each sets its mark on the connection it came over
LEMMA ReceiveStep == ASSUME LinkIInv, NEW r \in replies, ReceiveRsp(r) \/ ReceiveEva(r) PROVE LinkIInv'
<1>1. CASE ReceiveRsp(r)
  BY <1>1 DEF ReceiveRsp, Answers, LinkIInv, LinkShape, Placed, Marked, Carried, OneConnection, LiveStages, Stages, Dialling
<1>2. CASE ReceiveEva(r)
  BY <1>2 DEF ReceiveEva, Answers, LinkIInv, LinkShape, Placed, Marked, Carried, OneConnection, LiveStages, Stages, Dialling
<1> QED BY <1>1, <1>2

\* The connection is given up: the loop is left, and probe_disconnect runs before the next attempt
LEMMA LoopStep == ASSUME LinkIInv, Turn \/ Break \/ Lost PROVE LinkIInv'
<1>1. CASE Turn \/ Break
  BY <1>1 DEF Turn, Break, Leave, LinkIInv, LinkShape, Placed, Marked, Carried, OneConnection, Dialling
<1>2. CASE Lost
  BY <1>2 DEF Lost, ProbeDisconnect, LinkIInv, LinkShape, Placed, Marked, Carried, OneConnection, LiveStages, Stages, Dialling
<1> QED BY <1>1, <1>2

\* Every step keeps the invariant
LEMMA LinkInductive == LinkIInv /\ [LinkNext]_linkVars => LinkIInv'
<1> SUFFICES ASSUME LinkIInv, [LinkNext]_linkVars PROVE LinkIInv'
  OBVIOUS
<1>1. CASE ResolveSn \/ Dial \/ (\E a \in BOOLEAN : Connack(a)) \/ Greet
  BY <1>1, ConnectStep
<1>2. CASE ProbeCall \/ (\E c \in BOOLEAN : ProbePoll(c))
  BY <1>2, CallerStep
<1>3. CASE Tick
  BY <1>3, TickStep
<1>4. CASE (\E ok \in BOOLEAN : Send(ok)) \/ AfterSend
  BY <1>4, SendStep
<1>5. CASE \E r \in replies : ReceiveRsp(r) \/ ReceiveEva(r)
  BY <1>5, ReceiveStep
<1>6. CASE Turn \/ Break \/ Lost
  BY <1>6, LoopStep
<1>7. CASE \/ (\E t \in Topics : Suback(t)) \/ FmSuback \/ (\E a, m \in BOOLEAN : Bytes(a, m)) \/ CertAttempt
           \/ WorkBegins \/ WorkEnds \/ IdentityChanges \/ LinkTock \/ UNCHANGED linkVars
  <2>1. UNCHANGED <<pc, conn, probe, probeGen, outgoing>>
    BY <1>7 DEF Suback, FmSuback, Bytes, CertAttempt, WorkBegins, WorkEnds, IdentityChanges, LinkTock, linkVars
  <2> QED BY <2>1, LinkSame
<1> QED BY <1>1, <1>2, <1>3, <1>4, <1>5, <1>6, <1>7 DEF LinkNext

\* The strengthening holds in every reachable state: what each stage of the probe has gathered, and
\* where the MQTT thread stands with it (probe_tick, link_probe_rsp, link_probe_eva, probe_disconnect)
THEOREM EvidenceKept == LinkSpec => []LinkIInv
<1> QED BY LinkInitIInv, LinkInductive, PTL DEF LinkSpec

\* A finished probe's request, answer, event and acknowledgement went over one connection, whatever
\* the order in which the caller, the MQTT thread and the server take their steps, and however often
\* the connection is lost (probe_local_evidence, probe_tick, probe_disconnect)
THEOREM OneConnectionSafe == LinkSpec => []OneConnection
<1>1. LinkIInv => OneConnection
  BY DEF LinkIInv
<1> QED BY <1>1, EvidenceKept, PTL

-----------------------------------------------------------------------------
(***************************************************************************)
(* ProcessingBackend is told the truth about an upload wherever the child  *)
(* is ended, proved for every set of operations and every bound.           *)
(*                                                                         *)
(* ToldTruth is not inductive. It needs what the worker has done at each   *)
(* step of a transfer (Transfer, also while a renewal is served inside     *)
(* it), that a receipt of failure is never about a published file          *)
(* (ReceiptTrue), and that an operation is in one place only of the four   *)
(* it passes through, so that nothing that still waits can be about a file *)
(* that is published (Waiting, Once).                                      *)
(***************************************************************************)

Cmds == Commands \cup {NoCmd}
OpStates == {"none", "running", "committing", "completed", "failed", "cancelled"}

\* A file's three marks
FileMarks == [partial : BOOLEAN, receipt : {"none", "open", "done", "failed"}, published : BOOLEAN]

\* Operations are numbered from 1: 0 stands for a command without one
Numbered == 0 \notin Ops

\* What the argument needs of the types: nothing is asked of the times and the bounds
Shape ==
  /\ ipc \in [pend : Cmds, busy : {ipc.busy}, quiet : {ipc.quiet}, ring : {ipc.ring}]
  /\ main \in [pc : {"tick", "take", "enqueue", "quiet"}, cmd : Cmds] /\ fpend \in Cmds
  /\ w \in [pc : WorkerPcs, cmd : Cmds, match : BOOLEAN, gen : {w.gen}, at : {w.at}, ok : BOOLEAN,
            outer : [pc : WorkerPcs, cmd : Cmds]]
  /\ disk \in [Ops -> FileMarks]
  /\ pb \in [end : {pb.end}, state : [Ops -> OpStates]]

\* Only a renewal is served inside a transfer
Nested == w.outer # NoOuter =>
  w.cmd.kind = "renew" /\ w.pc \in {"ticket", "result"} /\ w.outer.pc \in {"stage", "commit", "source"}
\* The transfer the worker is in, whatever it serves inside it
Job == IF w.outer = NoOuter THEN [pc |-> w.pc, cmd |-> w.cmd] ELSE w.outer

\* What each step of a transfer has behind it
Transfer ==
  LET o == Job.cmd.op IN
  /\ Job.pc \in {"open", "stage", "receipt", "commit", "rename", "settle"} => o \in Ops
  /\ Job.pc = "source" => o = 0
  /\ o # 0 /\ Job.pc \in {"ticket", "open", "stage", "receipt", "commit", "rename"} => ~disk[o].published
  /\ Job.pc \in {"commit", "rename"} => disk[o].receipt = "open"
  /\ Job.pc = "rename" => pb.state[o] = "committing"
  /\ o # 0 /\ Job.pc \in {"settle", "result"} => (w.ok <=> disk[o].published)

\* A command that waits is about an operation PB has created and nobody has published
FreshId(c) == c.op # 0 => pb.state[c.op] # "none" /\ ~disk[c.op].published
Waiting == /\ FreshId(ipc.pend) /\ FreshId(main.cmd) /\ FreshId(fpend)
           /\ Job.cmd.op # 0 => pb.state[Job.cmd.op] # "none"
\* An operation is in one place
Apart(c, d) == c.op = d.op => c.op = 0
Once == /\ Apart(ipc.pend, main.cmd) /\ Apart(ipc.pend, fpend) /\ Apart(ipc.pend, Job.cmd)
        /\ Apart(main.cmd, fpend) /\ Apart(main.cmd, Job.cmd) /\ Apart(fpend, Job.cmd)

\* A receipt of failure is never about a published file
ReceiptTrue == \A o \in Ops : disk[o].receipt = "failed" => ~disk[o].published

IInv == Numbered /\ Shape /\ Nested /\ Transfer /\ Waiting /\ Once /\ ReceiptTrue /\ ToldTruth

USE DEF parent, session, bounds

\* Only an upload has an operation
LEMMA CommandIs ==
  ASSUME NEW c \in Cmds
  PROVE  /\ c.op \in Ops \cup {0}
         /\ c.kind = "upload" => c.op \in Ops
         /\ c.kind # "upload" => c.op = 0
<1>1. CASE c = NoCmd
  BY <1>1 DEF NoCmd
<1>2. CASE c \in Commands
  BY <1>2 DEF Commands
<1> QED BY <1>1, <1>2 DEF Cmds

\* No command is one without an operation
LEMMA NoCmdIs == NoCmd \in Cmds /\ NoCmd.op = 0 /\ NoCmd.kind = "none"
  BY DEF Cmds, NoCmd

\* What the rename does to the disk
LEMMA Published ==
  ASSUME NEW d \in [Ops -> FileMarks], NEW o \in Ops,
         NEW e, e = [d EXCEPT ![o].published = TRUE, ![o].partial = FALSE]
  PROVE  /\ e \in [Ops -> FileMarks]
         /\ \A q \in Ops : e[q].receipt = d[q].receipt
         /\ \A q \in Ops : q # o => e[q].published = d[q].published
         /\ e[o].published = TRUE
<1>1. \A q \in Ops : q # o => e[q] = d[q]
  OBVIOUS
<1>2. e[o].receipt = d[o].receipt
  BY DEF FileMarks
<1>3. e[o].published = TRUE
  BY DEF FileMarks
<1>4. e \in [Ops -> FileMarks]
  BY Zenon DEF FileMarks
<1> QED BY <1>1, <1>2, <1>3, <1>4

\* Nothing is on the disk and nothing is known to PB at the start
LEMMA InitIInv == ASSUME Numbered PROVE Init => IInv
<1> SUFFICES ASSUME Init PROVE IInv
  OBVIOUS
<1> USE NoCmdIs
<1>1. Shape /\ Nested
  BY DEF Init, Shape, Nested, FreshIpc, FreshMain, Idle, NoOuter, WorkerPcs, OpStates, FileMarks
<1>2. Job = [pc |-> "idle", cmd |-> NoCmd]
  BY DEF Init, Job, Idle, NoOuter
<1>3. Transfer /\ Waiting /\ Once
  BY <1>2 DEF Init, Transfer, Waiting, Once, FreshId, Apart, FreshIpc, FreshMain
<1>4. ReceiptTrue /\ ToldTruth
  BY DEF Init, ReceiptTrue, ToldTruth
<1> QED BY <1>1, <1>3, <1>4 DEF IInv

\* Steps that change nothing of this
LEMMA Stays == ASSUME IInv, UNCHANGED <<ipc, main, fpend, w, disk, pb>> PROVE IInv'
  BY DEF IInv, Numbered, Shape, Nested, Transfer, Waiting, Once, ReceiptTrue, ToldTruth, Job, FreshId, Apart

\* The child's memory goes, the disk and PB stay
LEMMA Gone ==
  ASSUME IInv, ChildGone, UNCHANGED disk, pb' \in [end : {pb'.end}, state : {pb.state}] PROVE IInv'
<1> USE NoCmdIs DEF IInv
<1>0. pb'.state = pb.state
  OBVIOUS
<1>1. Shape' /\ Nested'
  BY <1>0 DEF ChildGone, Shape, Nested, FreshIpc, FreshMain, Idle, NoOuter, WorkerPcs
<1>2. Job' = [pc |-> "idle", cmd |-> NoCmd]
  BY DEF ChildGone, Job, Idle, NoOuter
<1>3. Transfer' /\ Waiting' /\ Once'
  BY <1>2 DEF ChildGone, Transfer, Waiting, Once, FreshId, Apart, FreshIpc, FreshMain
<1>4. ReceiptTrue' /\ ToldTruth' /\ Numbered'
  BY <1>0 DEF ReceiptTrue, ToldTruth, Numbered
<1> QED BY <1>1, <1>3, <1>4

\* Of the mapping only what says nothing of a command changes
LEMMA Mapping ==
  ASSUME IInv, UNCHANGED <<main, fpend, w, disk>>, pb' \in [end : {pb'.end}, state : {pb.state}],
         ipc' \in [pend : {ipc.pend}, busy : {ipc'.busy}, quiet : {ipc'.quiet}, ring : {ipc'.ring}]
  PROVE  IInv'
<1>1. ipc'.pend = ipc.pend /\ pb'.state = pb.state
  OBVIOUS
<1> QED BY <1>1 DEF IInv, Numbered, Shape, Nested, Transfer, Waiting, Once, ReceiptTrue, ToldTruth, Job, FreshId, Apart

\* The parent: it ends the child, starts it, or looks at the mapping
LEMMA ParentStep ==
  ASSUME IInv, \/ FmConnect \/ (\E e \in BOOLEAN : FmDisconnect(e) \/ Stalled(e)) \/ ParentTick
               \/ (\E l \in Leases, e \in BOOLEAN : FmStop(l, e))
  PROVE  IInv'
<1>1. UNCHANGED disk /\ pb' \in [end : {pb'.end}, state : {pb.state}]
  BY DEF FmConnect, FmDisconnect, Stalled, ParentTick, FmTick, FmStop, IInv, Shape
<1>2. \/ ChildGone \/ UNCHANGED <<ipc, main, fpend, w>>
      \/ UNCHANGED <<main, fpend, w>> /\ ipc' = [ipc EXCEPT !.ring = IF ipc.ring > 0 THEN ipc.ring - 1 ELSE 0]
  BY DEF FmConnect, FmDisconnect, Stalled, ParentTick, FmTick, FmStop, StopEnds, CloseChild, StartChild, Same
<1>3. CASE ChildGone
  BY <1>1, <1>3, Gone
<1>4. CASE UNCHANGED <<ipc, main, fpend, w>>
  BY <1>1, <1>4, Mapping DEF IInv, Shape
<1>5. CASE UNCHANGED <<main, fpend, w>> /\ ipc' = [ipc EXCEPT !.ring = IF ipc.ring > 0 THEN ipc.ring - 1 ELSE 0]
  <2>1. ipc' \in [pend : {ipc.pend}, busy : {ipc'.busy}, quiet : {ipc'.quiet}, ring : {ipc'.ring}]
    BY <1>5 DEF IInv, Shape
  <2> QED BY <1>1, <1>5, <2>1, Mapping
<1> QED BY <1>2, <1>3, <1>4, <1>5

\* A command arrives: its operation is new to PB, so it is nowhere else
LEMMA EnqueueStep ==
  ASSUME IInv, NEW c \in Commands, FmEnqueue(c) \/ FmList(c) PROVE IInv'
<1> USE DEF IInv
<1>1. /\ UNCHANGED <<main, fpend, w, disk>> /\ ipc' = [ipc EXCEPT !.pend = c]
  BY DEF FmEnqueue, FmList
<1>2. Job' = Job /\ Nested' /\ Numbered' /\ ReceiptTrue'
  BY <1>1 DEF Job, Nested, ReceiptTrue, Numbered
<1>3. c \in Cmds /\ ipc'.pend = c
  BY <1>1 DEF Cmds, Shape
<1> USE <1>3, CommandIs
<1>4. CASE c.op = 0
  <2>1. pb' \in [end : {pb'.end}, state : {pb.state}]
    BY <1>4 DEF FmEnqueue, FmList, PbCreates, Shape
  <2>2. pb'.state = pb.state
    BY <2>1
  <2> QED BY <1>1, <1>2, <1>4, <2>1, <2>2 DEF Shape, Transfer, Waiting, Once, ToldTruth, FreshId, Apart
<1>5. CASE c.op # 0
  <2>1. /\ c.op \in Ops /\ pb.state[c.op] = "none"
        /\ pb' = [pb EXCEPT !.state[c.op] = "running"]
    BY <1>5 DEF FmEnqueue, FmList, PbCreates, Control
  <2>2. /\ pb' \in [end : {pb'.end}, state : [Ops -> OpStates]]
        /\ pb'.state = [pb.state EXCEPT ![c.op] = "running"]
    BY <2>1 DEF Shape, OpStates
  <2>3. Shape'
    BY <1>1, <2>2 DEF Shape
  <2>4. ~disk[c.op].published /\ ToldTruth'
    BY <1>1, <2>1, <2>2 DEF ToldTruth, Shape
  <2>5. c.op # main.cmd.op /\ c.op # fpend.op /\ c.op # Job.cmd.op
    BY <1>5, <2>1 DEF Waiting, FreshId
  <2>6. main.cmd.op \in Ops \cup {0} /\ fpend.op \in Ops \cup {0} /\ Job.cmd.op \in Ops \cup {0}
    BY DEF Shape, Job
  <2>7. Transfer' /\ Once'
    BY <1>1, <1>2, <2>2, <2>5, <2>6 DEF Transfer, Once, Apart, Shape
  <2>8. Waiting'
    BY <1>1, <1>2, <2>1, <2>2, <2>4, <2>5, <2>6 DEF Waiting, FreshId, Shape
  <2> QED BY <1>2, <2>3, <2>4, <2>7, <2>8
<1> QED BY <1>4, <1>5

\* The child's main loop: a command moves from the mapping to the loop and to the queue, or is refused
LEMMA ChildStep == ASSUME IInv, ChildMain PROVE IInv'
<1> USE NoCmdIs DEF IInv
<1>0. UNCHANGED <<disk, pb>>
  BY DEF ChildMain, ChildTick, ChildTake, ChildEnqueue, ChildQuiet
<1>1. CASE ChildTick
  <2>1. /\ main' = [main EXCEPT !.pc = "take"] /\ fpend' \in {fpend, NoCmd} /\ UNCHANGED <<ipc, w>>
    BY <1>1 DEF ChildTick
  <2> QED BY <1>0, <2>1 DEF Numbered, Shape, Nested, Transfer, Waiting, Once, ReceiptTrue, ToldTruth, Job, FreshId, Apart
<1>2. CASE ChildTake
  <2>1. /\ ipc' = [ipc EXCEPT !.pend = NoCmd, !.quiet = 0, !.busy = MainBusy(ipc.pend)]
        /\ main' = [pc |-> IF ipc.pend = NoCmd THEN "quiet" ELSE "enqueue", cmd |-> ipc.pend] /\ UNCHANGED <<fpend, w>>
    BY <1>2 DEF ChildTake
  <2>2. ipc' \in [pend : {NoCmd}, busy : {ipc'.busy}, quiet : {ipc'.quiet}, ring : {ipc'.ring}]
    BY <2>1 DEF Shape
  <2> QED BY <1>0, <2>1, <2>2 DEF Numbered, Shape, Nested, Transfer, Waiting, Once, ReceiptTrue, ToldTruth, Job, FreshId, Apart
<1>3. CASE ChildEnqueue
  <2>1. main' = FreshMain
    BY <1>3 DEF ChildEnqueue
  <2>2. CASE fpend' = main.cmd /\ UNCHANGED <<ipc, w>>
    BY <1>0, <2>1, <2>2 DEF FreshMain, Numbered, Shape, Nested, Transfer, Waiting, Once, ReceiptTrue, ToldTruth, Job, FreshId, Apart
  <2>3. CASE UNCHANGED <<fpend, w>> /\ \E n : ipc' = [ipc EXCEPT !.ring = n]
    BY <1>0, <2>1, <2>3 DEF FreshMain, Numbered, Shape, Nested, Transfer, Waiting, Once, ReceiptTrue, ToldTruth, Job, FreshId, Apart
  <2>4. CASE UNCHANGED <<fpend, ipc>> /\ w' = [Idle EXCEPT !.pc = "exit"]
    <3>1. Job' = [pc |-> "exit", cmd |-> NoCmd] /\ Nested'
      BY <2>4 DEF Job, Idle, Nested
    <3>2. Shape'
      BY <1>0, <2>1, <2>4 DEF Idle, NoOuter, WorkerPcs, Shape, FreshMain
    <3> QED BY <1>0, <2>1, <2>4, <3>1, <3>2 DEF FreshMain, Numbered, Transfer, Waiting, Once, ReceiptTrue, ToldTruth, FreshId, Apart
  <2> QED BY <1>3, <2>2, <2>3, <2>4 DEF ChildEnqueue
<1>4. CASE ChildQuiet
  <2>1. main' = FreshMain /\ UNCHANGED <<fpend, w>> /\ \E n : ipc' = [ipc EXCEPT !.quiet = n]
    BY <1>4 DEF ChildQuiet
  <2> QED BY <1>0, <2>1 DEF FreshMain, Numbered, Shape, Nested, Transfer, Waiting, Once, ReceiptTrue, ToldTruth, Job, FreshId, Apart
<1> QED BY <1>1, <1>2, <1>3, <1>4 DEF ChildMain

\* A step of the worker that moves no command: what is left to show is about the worker alone
LEMMA Moves ==
  ASSUME IInv, UNCHANGED <<main, fpend, disk, pb>>, ipc'.pend = ipc.pend,
         Shape', Nested', Transfer', Job'.cmd.op \in {Job.cmd.op, 0}
  PROVE  IInv'
  BY DEF IInv, Numbered, Waiting, Once, ReceiptTrue, ToldTruth, FreshId, Apart

\* The command leaves the queue
LEMMA TakeStep == ASSUME IInv, Take \/ NestedRenew PROVE IInv'
<1> USE NoCmdIs, CommandIs DEF IInv
<1>1. UNCHANGED <<ipc, main, disk, pb>> /\ fpend' = NoCmd
  BY DEF Take, NestedRenew
<1>2. Numbered' /\ ReceiptTrue' /\ ToldTruth'
  BY <1>1 DEF Numbered, ReceiptTrue, ToldTruth
<1>3. CASE Take
  <2>1. /\ w'.pc \in {"list", "result", "ticket"} /\ w'.cmd = fpend /\ w'.ok = FALSE /\ w'.outer = NoOuter
        /\ w' \in [pc : WorkerPcs, cmd : Cmds, match : BOOLEAN, gen : {w'.gen}, at : {w'.at}, ok : BOOLEAN,
                   outer : [pc : WorkerPcs, cmd : Cmds]]
    BY <1>3 DEF Take, Begin, NoOuter, WorkerPcs, Shape
  <2>2. Job' = [pc |-> w'.pc, cmd |-> fpend] /\ Nested' /\ Shape'
    BY <1>1, <2>1 DEF Job, Nested, Shape
  <2>3. Transfer'
    BY <1>1, <2>1, <2>2 DEF Transfer, Waiting, FreshId
  <2> QED BY <1>1, <1>2, <2>2, <2>3 DEF Waiting, Once, FreshId, Apart
<1>4. CASE NestedRenew
  <2>1. /\ w.outer = NoOuter /\ w.pc \in {"stage", "commit", "source"} /\ fpend.kind = "renew"
        /\ w'.pc \in {"result", "ticket"} /\ w'.cmd = fpend /\ w'.outer = [pc |-> w.pc, cmd |-> w.cmd]
        /\ w' \in [pc : WorkerPcs, cmd : Cmds, match : BOOLEAN, gen : {w'.gen}, at : {w'.at}, ok : BOOLEAN,
                   outer : [pc : WorkerPcs, cmd : Cmds]]
    BY <1>4 DEF NestedRenew, Begin, WorkerPcs, Shape
  <2>2. Job' = Job /\ Nested' /\ Shape' /\ Job.pc \notin {"settle", "result"}
    BY <1>1, <2>1 DEF Job, Nested, Shape, NoOuter
  <2>3. Transfer'
    BY <1>1, <2>2 DEF Transfer
  <2> QED BY <1>1, <1>2, <2>2, <2>3 DEF Waiting, Once, FreshId, Apart
<1> QED BY <1>3, <1>4

\* The worker between its own steps of a transfer, when it is not inside a renewal
LEMMA Alone == ASSUME IInv, w.pc \notin {"ticket", "result"} PROVE w.outer = NoOuter /\ Job = [pc |-> w.pc, cmd |-> w.cmd]
  BY DEF IInv, Nested, Job

\* Steps of the worker that touch neither the disk nor PB
LEMMA QuietStep ==
  ASSUME IInv, \/ BackgroundBegin \/ List \/ (\E a \in BOOLEAN, t \in 0..MaxTime : Ticket(a, t))
               \/ (\E ok \in BOOLEAN : Stage(ok) \/ Source(ok))
  PROVE  IInv'
<1> USE NoCmdIs, CommandIs DEF IInv
<1>1. CASE BackgroundBegin
  <2>1. w.pc = "idle" /\ w' = [w EXCEPT !.pc = "background"] /\ UNCHANGED <<ipc, main, fpend, disk, pb>>
    BY <1>1 DEF BackgroundBegin
  <2>2. w.outer = NoOuter /\ Job' = [pc |-> "background", cmd |-> w.cmd] /\ Job = [pc |-> w.pc, cmd |-> w.cmd]
    BY <2>1, Alone DEF Job, Shape
  <2>3. Shape' /\ Nested' /\ Transfer'
    BY <2>1, <2>2 DEF Shape, Nested, Transfer, WorkerPcs
  <2> QED BY <2>1, <2>2, <2>3, Moves
<1>2. CASE List
  <2>1. /\ w' = Idle \/ w' = [Idle EXCEPT !.pc = "exit"]
        /\ UNCHANGED <<main, fpend, disk, pb>> /\ \E n : ipc' = [ipc EXCEPT !.ring = n]
    BY <1>2 DEF List, Shape
  <2>2. Job'.pc \in {"idle", "exit"} /\ Job'.cmd = NoCmd /\ Nested'
    BY <2>1 DEF Job, Nested, Idle
  <2>3. Shape' /\ ipc'.pend = ipc.pend
    <3>1. PICK n : ipc' = [ipc EXCEPT !.ring = n]
      BY <2>1
    <3>2. /\ ipc' \in [pend : Cmds, busy : {ipc'.busy}, quiet : {ipc'.quiet}, ring : {ipc'.ring}]
          /\ ipc'.pend = ipc.pend
      BY <3>1 DEF Shape
    <3>3. w' \in [pc : WorkerPcs, cmd : Cmds, match : BOOLEAN, gen : {w'.gen}, at : {w'.at}, ok : BOOLEAN,
                  outer : [pc : WorkerPcs, cmd : Cmds]]
      <4>1. CASE w' = Idle
        BY <4>1 DEF Idle, NoOuter, WorkerPcs
      <4>2. CASE w' = [Idle EXCEPT !.pc = "exit"]
        BY <4>2 DEF Idle, NoOuter, WorkerPcs
      <4> QED BY <2>1, <4>1, <4>2
    <3> QED BY <2>1, <3>2, <3>3 DEF Shape
  <2>4. Transfer'
    BY <2>2 DEF Transfer
  <2> QED BY <2>1, <2>2, <2>3, <2>4, Moves
<1>3. CASE \E a \in BOOLEAN, t \in 0..MaxTime : Ticket(a, t)
  <2>1. /\ w.pc = "ticket" /\ UNCHANGED <<ipc, main, fpend, disk, pb>>
        /\ \/ w' = [w EXCEPT !.pc = "result", !.ok = FALSE]
           \/ w' = [w EXCEPT !.pc = "result", !.ok = TRUE] /\ Control(w.cmd)
           \/ w' = [w EXCEPT !.pc = IF w.cmd.kind = "upload" THEN "open" ELSE "source"] /\ ~Control(w.cmd)
    BY <1>3 DEF Ticket, Fail
  <2>2. Shape' /\ Nested' /\ w'.outer = w.outer /\ w'.cmd = w.cmd
    BY <2>1, ZenonT(60) DEF Shape, Nested, WorkerPcs, Control
  <2>3. CASE w.outer = NoOuter
    <3>1. Job = [pc |-> w.pc, cmd |-> w.cmd] /\ Job' = [pc |-> w'.pc, cmd |-> w.cmd]
      BY <2>2, <2>3 DEF Job
    <3>2. Transfer'
      BY <2>1, <3>1, ZenonT(60) DEF Transfer, Shape, Control
    <3> QED BY <2>1, <2>2, <3>1, <3>2, Moves
  <2>4. CASE w.outer # NoOuter
    <3>1. Job = w.outer /\ Job' = Job /\ Job.pc \notin {"settle", "result"}
      BY <2>2, <2>4 DEF Job, Nested
    <3>2. Transfer'
      BY <2>1, <3>1 DEF Transfer
    <3> QED BY <2>1, <2>2, <3>1, <3>2, Moves
  <2> QED BY <2>3, <2>4
<1>4. CASE \E ok \in BOOLEAN : Stage(ok)
  <2>1. /\ w.pc = "stage" /\ UNCHANGED <<ipc, main, fpend, disk, pb>>
        /\ w' = [w EXCEPT !.pc = "receipt"] \/ w' = [w EXCEPT !.pc = "settle", !.ok = FALSE]
    BY <1>4 DEF Stage, To, Failed, TransferFrame
  <2>2. w.outer = NoOuter /\ Job' = [pc |-> w'.pc, cmd |-> w.cmd] /\ Job = [pc |-> w.pc, cmd |-> w.cmd]
    BY <2>1, Alone DEF Job, Shape
  <2>3. Shape' /\ Nested'
    BY <2>1, <2>2 DEF Shape, Nested, WorkerPcs
  <2>4. Transfer'
    BY <2>1, <2>2 DEF Transfer, Shape, Numbered
  <2> QED BY <2>1, <2>2, <2>3, <2>4, Moves
<1>5. CASE \E ok \in BOOLEAN : Source(ok)
  <2>1. PICK b \in BOOLEAN : /\ w.pc = "source" /\ UNCHANGED <<ipc, main, fpend, disk, pb>>
                             /\ w' = [w EXCEPT !.pc = "result", !.ok = b]
    BY <1>5 DEF Source, TransferFrame
  <2>2. w.outer = NoOuter /\ Job' = [pc |-> "result", cmd |-> w.cmd] /\ Job = [pc |-> w.pc, cmd |-> w.cmd]
    BY <2>1, Alone DEF Job, Shape
  <2>3. Shape' /\ Nested'
    BY <2>1, <2>2 DEF Shape, Nested, WorkerPcs
  <2>4. Transfer'
    BY <2>1, <2>2 DEF Transfer
  <2> QED BY <2>1, <2>2, <2>3, <2>4, Moves
<1> QED BY <1>1, <1>2, <1>3, <1>4, <1>5

\* The partial file and the receipt: nothing is published and PB is told nothing
LEMMA FileStep ==
  ASSUME IInv, (\E ok \in PathChecked : Open(ok)) \/ (\E ok \in BOOLEAN : SaveReceipt(ok)) \/ (\E a, b \in BOOLEAN : Settle(a, b))
  PROVE  IInv'
<1> USE DEF IInv
<1>1. w.pc \in {"open", "receipt", "settle"} /\ UNCHANGED <<ipc, main, fpend, pb>>
  BY DEF Open, SaveReceipt, Settle, TransferFrame
<1>2. w.outer = NoOuter /\ Job = [pc |-> w.pc, cmd |-> w.cmd] /\ Op \in Ops /\ Op # 0
  BY <1>1, Alone DEF Transfer, Op, Numbered
<1>30. ASSUME \E a, b \in BOOLEAN : Settle(a, b)
       PROVE  /\ disk' \in [Ops -> FileMarks]
              /\ \A o \in Ops : disk'[o].published = disk[o].published
              /\ \A o \in Ops : o # Op => disk'[o].receipt = disk[o].receipt
              /\ disk'[Op].receipt \in {disk[Op].receipt, Outcome}
  <2>1. PICK deletes, writes \in BOOLEAN : Settle(deletes, writes)
    BY <1>30
  <2> DEFINE p == disk[Op].partial /\ ~deletes
             r == IF disk[Op].receipt # "none" /\ writes THEN Outcome ELSE disk[Op].receipt
  <2>2. disk' = [disk EXCEPT ![Op].partial = p, ![Op].receipt = r]
    BY <2>1 DEF Settle
  <2>3. p \in BOOLEAN
    OBVIOUS
  <2>4. r \in {disk[Op].receipt, Outcome} /\ r \in {"none", "open", "done", "failed"}
    BY <1>2 DEF Outcome, Shape, FileMarks
  <2> HIDE DEF p, r
  <2>5. disk \in [Ops -> FileMarks]
    BY DEF Shape
  <2>6. /\ disk' \in [Ops -> FileMarks]
        /\ \A q \in Ops : disk'[q].published = disk[q].published
        /\ \A q \in Ops : q # Op => disk'[q].receipt = disk[q].receipt
        /\ disk'[Op].receipt = r
    <3>1. disk' \in [Ops -> FileMarks]
      BY <1>2, <2>2, <2>3, <2>4, <2>5, Zenon DEF FileMarks
    <3>2. \A q \in Ops : q # Op => disk'[q] = disk[q]
      BY <1>2, <2>2, <2>5
    <3>3. disk'[Op].receipt = r
      BY <1>2, <2>2, <2>5 DEF FileMarks
    <3>4. disk'[Op].published = disk[Op].published
      BY <1>2, <2>2, <2>5 DEF FileMarks
    <3> QED BY <3>1, <3>2, <3>3, <3>4
  <2> QED BY <2>4, <2>6
<1>3. /\ disk' \in [Ops -> FileMarks]
      /\ \A o \in Ops : disk'[o].published = disk[o].published
      /\ \A o \in Ops : o # Op => disk'[o].receipt = disk[o].receipt
  <2>1. CASE \E ok \in PathChecked : Open(ok)
    <3>1. disk' = disk \/ disk' = [disk EXCEPT ![Op].partial = TRUE]
      BY <2>1 DEF Open
    <3>2. CASE disk' = [disk EXCEPT ![Op].partial = TRUE]
      <4>1. disk' \in [Ops -> FileMarks]
        BY <1>2, <3>2, ZenonT(60) DEF Shape, FileMarks
      <4>2. \A o \in Ops : disk'[o].published = disk[o].published /\ disk'[o].receipt = disk[o].receipt
        BY <1>2, <3>2 DEF Shape, FileMarks
      <4> QED BY <4>1, <4>2
    <3> QED BY <3>1, <3>2 DEF Shape
  <2>2. CASE \E ok \in BOOLEAN : SaveReceipt(ok)
    BY <2>2, <1>2 DEF SaveReceipt, Shape, FileMarks
  <2>3. CASE \E a, b \in BOOLEAN : Settle(a, b)
    BY <1>30, <2>3
  <2> QED BY <2>1, <2>2, <2>3
<1>4. /\ \/ w.pc = "open" /\ w' = [w EXCEPT !.pc = "stage"] /\ ~disk[Op].published /\ disk'[Op].receipt = disk[Op].receipt
         \/ w.pc = "open" /\ w' = [w EXCEPT !.pc = "result", !.ok = FALSE] /\ ~disk[Op].published /\ disk'[Op].receipt = disk[Op].receipt
         \/ w.pc = "receipt" /\ w' = [w EXCEPT !.pc = "commit"] /\ disk'[Op].receipt = "open"
         \/ w.pc = "receipt" /\ w' = [w EXCEPT !.pc = "settle", !.ok = FALSE] /\ disk' = disk
         \/ /\ w.pc = "settle" /\ w' = [w EXCEPT !.pc = "result"]
            /\ disk'[Op].receipt = disk[Op].receipt \/ disk'[Op].receipt = Outcome
  <2>1. CASE \E ok \in PathChecked : Open(ok)
    BY <2>1, <1>2 DEF Open, Shape, FileMarks, To, Fail, Transfer, Op
  <2>2. CASE \E ok \in BOOLEAN : SaveReceipt(ok)
    BY <2>2, <1>2 DEF SaveReceipt, Shape, FileMarks, To, Failed
  <2>3. CASE \E a, b \in BOOLEAN : Settle(a, b)
    <3>1. w.pc = "settle" /\ w' = [w EXCEPT !.pc = "result"]
      BY <2>3 DEF Settle, To
    <3>2. disk'[Op].receipt = disk[Op].receipt \/ disk'[Op].receipt = Outcome
      BY <1>30, <2>3
    <3> QED BY <3>1, <3>2
  <2> QED BY <2>1, <2>2, <2>3
<1>5. /\ w' \in [pc : WorkerPcs, cmd : Cmds, match : BOOLEAN, gen : {w'.gen}, at : {w'.at}, ok : BOOLEAN,
                 outer : [pc : WorkerPcs, cmd : Cmds]]
      /\ w'.cmd = w.cmd /\ w'.outer = NoOuter
  BY <1>2, <1>4 DEF Shape, WorkerPcs
<1>6. Job' = [pc |-> w'.pc, cmd |-> w.cmd] /\ Nested' /\ Shape'
  BY <1>1, <1>3, <1>5 DEF Job, Nested, Shape
<1>7. Transfer'
  <2>1. /\ w'.pc \in {"stage", "commit"} => ~disk'[Op].published
        /\ w'.pc \in {"settle", "result"} => (w'.ok <=> disk'[Op].published)
        /\ w'.pc = "commit" => disk'[Op].receipt = "open"
        /\ w'.pc \in {"stage", "commit", "settle", "result"}
    BY <1>2, <1>3, <1>4, ZenonT(60) DEF Transfer, Shape, Op
  <2> QED BY <1>2, <1>6, <2>1 DEF Transfer, Op
<1>8. ReceiptTrue'
  BY <1>1, <1>2, <1>3, <1>4 DEF ReceiptTrue, Transfer, Outcome, Op
<1>9. Waiting' /\ Once'
  <2>1. ipc.pend.op \in Ops \cup {0} /\ main.cmd.op \in Ops \cup {0} /\ fpend.op \in Ops \cup {0}
    BY CommandIs DEF Shape
  <2> QED BY <1>1, <1>2, <1>3, <1>6, <2>1 DEF Waiting, Once, FreshId, Apart
<1>10. ToldTruth' /\ Numbered'
  BY <1>1, <1>3 DEF ToldTruth, Numbered
<1> QED BY <1>6, <1>7, <1>8, <1>9, <1>10

\* The commit: PB notes it before the file is renamed
LEMMA CommitStep == ASSUME IInv, \E a, b \in BOOLEAN : Commit(a, b) PROVE IInv'
<1> USE DEF IInv
<1>1. w.pc = "commit" /\ UNCHANGED <<ipc, main, fpend, disk>>
  BY DEF Commit, TransferFrame
<1>2. w.outer = NoOuter /\ Job = [pc |-> w.pc, cmd |-> w.cmd] /\ Op \in Ops /\ Op # 0
  BY <1>1, Alone DEF Transfer, Op, Numbered
<1>3. /\ \/ pb' = pb
         \/ pb.state[Op] = "running" /\ pb' = [pb EXCEPT !.state[Op] = "committing"]
      /\ \/ w' = [w EXCEPT !.pc = "rename"] /\ pb' = [pb EXCEPT !.state[Op] = "committing"]
         \/ w' = [w EXCEPT !.pc = "settle", !.ok = FALSE]
  BY <1>2 DEF Commit, To, Failed, MayRename, PbAllows, ApiOutcome, Op
<1>4. /\ pb' \in [end : {pb'.end}, state : [Ops -> OpStates]]
      /\ \A o \in Ops : o # Op => pb'.state[o] = pb.state[o]
      /\ pb'.state[Op] = pb.state[Op] \/ (pb.state[Op] = "running" /\ pb'.state[Op] = "committing")
      /\ (w' = [w EXCEPT !.pc = "rename"] /\ pb'.state[Op] = "committing") \/ w' = [w EXCEPT !.pc = "settle", !.ok = FALSE]
  BY <1>2, <1>3 DEF Shape, OpStates
<1>5. /\ w' \in [pc : WorkerPcs, cmd : Cmds, match : BOOLEAN, gen : {w'.gen}, at : {w'.at}, ok : BOOLEAN,
                 outer : [pc : WorkerPcs, cmd : Cmds]]
      /\ w'.cmd = w.cmd /\ w'.outer = NoOuter
  BY <1>2, <1>4 DEF Shape, WorkerPcs
<1>6. Job' = [pc |-> w'.pc, cmd |-> w.cmd] /\ Nested' /\ Shape'
  BY <1>1, <1>4, <1>5 DEF Job, Nested, Shape
<1>7. Transfer'
  BY <1>1, <1>2, <1>4, <1>6 DEF Transfer, Shape, Op
<1>8. ToldTruth' /\ ReceiptTrue' /\ Numbered'
  BY <1>1, <1>2, <1>4 DEF ToldTruth, ReceiptTrue, Numbered
<1>9. Waiting' /\ Once'
  <2>1. ipc.pend.op \in Ops \cup {0} /\ main.cmd.op \in Ops \cup {0} /\ fpend.op \in Ops \cup {0}
    BY CommandIs DEF Shape
  <2> QED BY <1>1, <1>2, <1>4, <1>6, <2>1 DEF Waiting, Once, FreshId, Apart, Op
<1> QED BY <1>6, <1>7, <1>8, <1>9

\* The rename: the file is published, its commit known to PB, and no other command is about it
LEMMA RenameStep == ASSUME IInv, \E ok \in BOOLEAN : Rename(ok) PROVE IInv'
<1> USE DEF IInv
<1>1. w.pc = "rename" /\ UNCHANGED <<ipc, main, fpend, pb>>
  BY DEF Rename, TransferFrame
<1>2. w.outer = NoOuter /\ Job = [pc |-> w.pc, cmd |-> w.cmd] /\ Op \in Ops /\ Op # 0
  BY <1>1, Alone DEF Transfer, Op, Numbered
<1>3. \/ disk' = [disk EXCEPT ![Op].published = TRUE, ![Op].partial = FALSE] /\ w' = [w EXCEPT !.pc = "settle", !.ok = TRUE]
      \/ disk' = disk /\ w' = [w EXCEPT !.pc = "settle", !.ok = FALSE]
  BY DEF Rename, Failed
<1>4. /\ disk' \in [Ops -> FileMarks]
      /\ \A o \in Ops : disk'[o].receipt = disk[o].receipt
      /\ \A o \in Ops : o # Op => disk'[o].published = disk[o].published
      /\ \/ disk'[Op].published = TRUE /\ w' = [w EXCEPT !.pc = "settle", !.ok = TRUE]
         \/ disk'[Op].published = disk[Op].published /\ w' = [w EXCEPT !.pc = "settle", !.ok = FALSE]
  BY <1>2, <1>3, Published, ZenonT(60) DEF Shape
<1>5. /\ w' \in [pc : WorkerPcs, cmd : Cmds, match : BOOLEAN, gen : {w'.gen}, at : {w'.at}, ok : BOOLEAN,
                 outer : [pc : WorkerPcs, cmd : Cmds]]
      /\ w'.cmd = w.cmd /\ w'.outer = NoOuter /\ w'.pc = "settle"
  BY <1>2, <1>4, ZenonT(60) DEF Shape, WorkerPcs
<1>6. Job' = [pc |-> "settle", cmd |-> w.cmd] /\ Nested' /\ Shape'
  BY <1>1, <1>4, <1>5 DEF Job, Nested, Shape
<1>7. ~disk[Op].published /\ disk[Op].receipt = "open" /\ pb.state[Op] = "committing"
  BY <1>1, <1>2 DEF Transfer, Op
<1>8. Transfer'
  BY <1>1, <1>2, <1>4, <1>6, <1>7 DEF Transfer, Shape, Op
<1>9. ToldTruth' /\ ReceiptTrue' /\ Numbered'
  BY <1>1, <1>2, <1>4, <1>7 DEF ToldTruth, ReceiptTrue, Numbered
<1>10. Waiting' /\ Once'
  <2>1. ipc.pend.op \in Ops \cup {0} /\ main.cmd.op \in Ops \cup {0} /\ fpend.op \in Ops \cup {0}
    BY CommandIs DEF Shape
  <2>2. ipc.pend.op # Op /\ main.cmd.op # Op /\ fpend.op # Op
    BY <1>2 DEF Once, Apart, Op
  <2> QED BY <1>1, <1>2, <1>4, <1>6, <2>1, <2>2 DEF Waiting, Once, FreshId, Apart
<1> QED BY <1>6, <1>8, <1>9, <1>10

\* PB hears of one operation: what it is told is true, and the operation stays known
LEMMA Told ==
  ASSUME IInv, UNCHANGED <<main, fpend>>, ipc'.pend = ipc.pend,
         NEW o \in Ops, NEW v \in {"committing", "completed", "failed", "cancelled"},
         pb'.state = pb.state \/ pb'.state = [pb.state EXCEPT ![o] = v],
         disk' \in [Ops -> FileMarks],
         \A q \in Ops : disk'[q].published = disk[q].published,
         \A q \in Ops : disk'[q].receipt = disk[q].receipt \/ disk'[q].receipt = "none",
         pb'.state # pb.state => IF disk[o].published THEN v \in {"committing", "completed"} ELSE v # "completed",
         Shape', Nested', Transfer', Job'.cmd.op \in {Job.cmd.op, 0}
  PROVE  IInv'
<1> USE DEF IInv
<1>1. pb.state \in [Ops -> OpStates] /\ disk \in [Ops -> FileMarks]
  BY DEF Shape
<1>2. \A q \in Ops : pb.state[q] # "none" => pb'.state[q] # "none"
  BY <1>1
<1>3. ToldTruth' /\ ReceiptTrue' /\ Numbered'
  BY <1>1 DEF ToldTruth, ReceiptTrue, Numbered
<1>4. ipc.pend.op \in Ops \cup {0} /\ main.cmd.op \in Ops \cup {0} /\ fpend.op \in Ops \cup {0} /\ Job.cmd.op \in Ops \cup {0}
  BY CommandIs DEF Shape, Job
<1>5. Once'
  BY DEF Once, Apart
<1>6. Waiting'
  BY <1>2, <1>4 DEF Waiting, FreshId
<1> QED BY <1>3, <1>5, <1>6

\* The end of a command: PB is told how it went, and a transfer around it goes on
LEMMA ResultStep == ASSUME IInv, \E a, b \in BOOLEAN : Result(a, b) PROVE IInv'
<1> USE NoCmdIs DEF IInv
<1>1. /\ w.pc = "result" /\ UNCHANGED <<main, fpend, disk>>
      /\ ipc' = ipc \/ ipc' = [ipc EXCEPT !.ring = ipc.ring + 1]
      /\ pb' = pb \/ (Op # 0 /\ pb' = [pb EXCEPT !.state[Op] = IF w.ok THEN "completed" ELSE "failed"])
      /\ \/ w' = Idle /\ w.outer = NoOuter
         \/ w' = [Idle EXCEPT !.pc = w.outer.pc, !.cmd = w.outer.cmd, !.match = TRUE] /\ w.outer # NoOuter
         \/ w' = [Idle EXCEPT !.pc = "exit"]
  BY DEF Result
<1>2. /\ ipc' \in [pend : Cmds, busy : {ipc'.busy}, quiet : {ipc'.quiet}, ring : {ipc'.ring}]
      /\ ipc'.pend = ipc.pend
  BY <1>1 DEF Shape
<1>3. Op \in Ops \cup {0} /\ w.cmd \in Cmds
  BY CommandIs DEF Shape, Op
<1>4. pb' \in [end : {pb'.end}, state : [Ops -> OpStates]]
  BY <1>1, <1>3 DEF Shape, OpStates
<1>5. /\ w' \in [pc : WorkerPcs, cmd : Cmds, match : BOOLEAN, gen : {w'.gen}, at : {w'.at}, ok : BOOLEAN,
                 outer : [pc : WorkerPcs, cmd : Cmds]]
      /\ w'.outer = NoOuter
      /\ \/ w'.pc \in {"idle", "exit"} /\ w'.cmd = NoCmd
         \/ w.outer # NoOuter /\ w'.pc = w.outer.pc /\ w'.cmd = w.outer.cmd
  <2>1. CASE w' = Idle
    BY <2>1 DEF Idle, NoOuter, WorkerPcs
  <2>2. CASE w' = [Idle EXCEPT !.pc = "exit"]
    BY <2>2 DEF Idle, NoOuter, WorkerPcs
  <2>3. CASE w' = [Idle EXCEPT !.pc = w.outer.pc, !.cmd = w.outer.cmd, !.match = TRUE] /\ w.outer # NoOuter
    BY <2>3 DEF Idle, NoOuter, WorkerPcs, Shape
  <2> QED BY <1>1, <2>1, <2>2, <2>3
<1>6. Shape' /\ Nested'
  BY <1>1, <1>2, <1>4, <1>5 DEF Shape, Nested
<1>7. \/ Job'.pc \in {"idle", "exit"} /\ Job'.cmd = NoCmd
      \/ w.outer # NoOuter /\ Job' = Job
  BY <1>5 DEF Job, Shape
<1>8. Job'.cmd.op \in {Job.cmd.op, 0}
  BY <1>7
<1>9. w.outer # NoOuter => Op = 0 /\ pb' = pb /\ Job.pc \in {"stage", "commit", "source"}
  BY <1>1, CommandIs DEF Nested, Op, Shape, Job
<1>10. Transfer'
  BY <1>1, <1>7, <1>9 DEF Transfer
<1>11. CASE Op = 0
  <2>1. pb' = pb
    BY <1>1, <1>11
  <2> QED BY <1>1, <1>2, <1>6, <1>8, <1>10, <2>1, Moves
<1>12. CASE Op # 0
  <2>1. Op \in Ops /\ w.outer = NoOuter /\ (w.ok <=> disk[Op].published)
    BY <1>1, <1>3, <1>9, <1>12 DEF Transfer, Job, Op
  <2>2. pb'.state = pb.state \/ pb'.state = [pb.state EXCEPT ![Op] = IF w.ok THEN "completed" ELSE "failed"]
    BY <1>1 DEF Shape
  <2>3. disk' \in [Ops -> FileMarks]
    BY <1>1 DEF Shape
  <2> DEFINE v == IF w.ok THEN "completed" ELSE "failed"
  <2>4. /\ v \in {"committing", "completed", "failed", "cancelled"}
        /\ IF disk[Op].published THEN v \in {"committing", "completed"} ELSE v # "completed"
    BY <2>1
  <2>5. pb'.state = pb.state \/ pb'.state = [pb.state EXCEPT ![Op] = v]
    BY <2>2
  <2> HIDE DEF v
  <2> QED BY <1>1, <1>2, <1>6, <1>8, <1>10, <2>1, <2>3, <2>4, <2>5, Told
<1> QED BY <1>11, <1>12

\* A receipt is reconciled after the child was ended: a failure is known, a success is on the disk
LEMMA BackgroundStep == ASSUME IInv, \E a, b \in BOOLEAN : BackgroundEnd(a, b) PROVE IInv'
<1> USE NoCmdIs DEF IInv
<1>1. /\ w.pc = "background" /\ w' = Idle /\ UNCHANGED <<ipc, main, fpend>>
      /\ \/ UNCHANGED <<pb, disk>>
         \/ /\ Settled(Head)
            /\ pb' = pb \/ pb' = [pb EXCEPT !.state[Head] = Said(Head)]
            /\ disk' = disk \/ disk' = [disk EXCEPT ![Head].receipt = "none"]
  BY DEF BackgroundEnd
<1>2. Job' = [pc |-> "idle", cmd |-> NoCmd] /\ Nested'
  BY <1>1 DEF Job, Nested, Idle, NoOuter
<1>3. w' \in [pc : WorkerPcs, cmd : Cmds, match : BOOLEAN, gen : {w'.gen}, at : {w'.at}, ok : BOOLEAN,
              outer : [pc : WorkerPcs, cmd : Cmds]]
  BY <1>1 DEF Idle, NoOuter, WorkerPcs
<1>4. Transfer'
  BY <1>2 DEF Transfer
<1>5. CASE UNCHANGED <<pb, disk>>
  <2>1. Shape'
    BY <1>1, <1>3, <1>5 DEF Shape
  <2> QED BY <1>1, <1>2, <1>4, <1>5, <2>1, Moves
<1>6. CASE ~UNCHANGED <<pb, disk>>
  <2> DEFINE h == Head
  <2>1. /\ h \in Ops /\ Settled(h)
        /\ pb' = pb \/ pb' = [pb EXCEPT !.state[h] = Said(h)]
        /\ disk' = disk \/ disk' = [disk EXCEPT ![h].receipt = "none"]
    <3>1. CASE h \in Ops
      BY <1>1, <1>6, <3>1
    <3>2. CASE h \notin Ops
      <4>1. [pb EXCEPT !.state[h] = Said(h)] = pb
        BY <3>2 DEF Shape
      <4>2. [disk EXCEPT ![h].receipt = "none"] = disk
        BY <3>2 DEF Shape
      <4> QED BY <1>1, <1>6, <4>1, <4>2
    <3> QED BY <3>1, <3>2
  <2> HIDE DEF h
  <2>2. pb' \in [end : {pb'.end}, state : [Ops -> OpStates]] /\ (pb'.state = pb.state \/ pb'.state = [pb.state EXCEPT ![h] = Said(h)])
    BY <2>1 DEF Shape, OpStates, Said
  <2>3. disk' \in [Ops -> FileMarks]
    BY <2>1 DEF Shape, FileMarks
  <2>4. /\ \A q \in Ops : disk'[q].published = disk[q].published
        /\ \A q \in Ops : disk'[q].receipt = disk[q].receipt \/ disk'[q].receipt = "none"
    <3>1. CASE disk' = disk
      BY <3>1
    <3>2. CASE disk' = [disk EXCEPT ![h].receipt = "none"]
      <4> DEFINE m == [disk[h] EXCEPT !.receipt = "none"]
      <4>1. disk \in [Ops -> FileMarks] /\ disk[h] \in FileMarks
        BY <2>1 DEF Shape
      <4>2. m.published = disk[h].published /\ m.receipt = "none"
        BY <4>1 DEF FileMarks
      <4>3. disk' = [disk EXCEPT ![h] = m]
        BY <3>2
      <4> HIDE DEF m
      <4>4. \A q \in Ops : disk'[q] = IF q = h THEN m ELSE disk[q]
        BY <4>1, <4>3
      <4> QED BY <4>2, <4>4
    <3> QED BY <2>1, <3>1, <3>2
  <2>5. /\ Said(h) \in {"committing", "completed", "failed", "cancelled"}
        /\ IF disk[h].published THEN Said(h) \in {"committing", "completed"} ELSE Said(h) # "completed"
    BY <2>1 DEF Said, Settled, ReceiptTrue
  <2>6. Shape'
    BY <1>1, <1>3, <2>2, <2>3 DEF Shape
  <2> QED BY <1>1, <1>2, <1>4, <2>1, <2>2, <2>3, <2>4, <2>5, <2>6, Told
<1> QED BY <1>5, <1>6

\* The server cancels an operation that was never committed
LEMMA CancelStep == ASSUME IInv, NEW o \in Ops, NEW l \in Leases, ServerCancels(o, l) PROVE IInv'
<1> USE DEF IInv
<1>1. /\ pb.state[o] = "running" /\ pb' = [pb EXCEPT !.state[o] = "cancelled"]
      /\ UNCHANGED <<ipc, main, fpend, w, disk>>
  BY DEF ServerCancels
<1>2. /\ pb' \in [end : {pb'.end}, state : [Ops -> OpStates]]
      /\ pb'.state = [pb.state EXCEPT ![o] = "cancelled"]
  BY <1>1 DEF Shape, OpStates
<1>3. ~disk[o].published
  BY <1>1 DEF ToldTruth
<1>4. Shape' /\ Nested' /\ Job' = Job
  BY <1>1, <1>2 DEF Shape, Nested, Job
<1>5. Transfer'
  BY <1>1, <1>2, <1>4 DEF Transfer, Shape
<1> QED BY <1>1, <1>2, <1>3, <1>4, <1>5, Told DEF Shape

\* Every step keeps the invariant
LEMMA Inductive == IInv /\ [Next]_vars => IInv'
<1> SUFFICES ASSUME IInv, [Next]_vars PROVE IInv'
  OBVIOUS
<1>1. CASE \/ FmConnect \/ (\E e \in BOOLEAN : FmDisconnect(e) \/ Stalled(e)) \/ ParentTick
           \/ (\E l \in Leases, e \in BOOLEAN : FmStop(l, e))
  BY <1>1, ParentStep
<1>2. CASE \E c \in Commands : FmEnqueue(c) \/ FmList(c)
  BY <1>2, EnqueueStep
<1>3. CASE ChildMain
  BY <1>3, ChildStep
<1>4. CASE Worker
  <2>1. CASE Take \/ NestedRenew
    BY <2>1, TakeStep
  <2>2. CASE List \/ (\E a \in BOOLEAN, t \in 0..MaxTime : Ticket(a, t)) \/ (\E ok \in BOOLEAN : Stage(ok) \/ Source(ok))
    BY <2>2, QuietStep
  <2>3. CASE (\E ok \in PathChecked : Open(ok)) \/ (\E ok \in BOOLEAN : SaveReceipt(ok)) \/ (\E a, b \in BOOLEAN : Settle(a, b))
    BY <2>3, FileStep
  <2>4. CASE \E a, b \in BOOLEAN : Commit(a, b)
    BY <2>4, CommitStep
  <2>5. CASE \E ok \in BOOLEAN : Rename(ok)
    BY <2>5, RenameStep
  <2>6. CASE \E a, b \in BOOLEAN : Result(a, b)
    BY <2>6, ResultStep
  <2> QED BY <1>4, <2>1, <2>2, <2>3, <2>4, <2>5, <2>6 DEF Worker
<1>5. CASE Background
  BY <1>5, QuietStep, BackgroundStep DEF Background
<1>6. CASE \E o \in Ops, l \in Leases : ServerCancels(o, l)
  BY <1>6, CancelStep
<1>7. CASE Drain \/ OpenWindow \/ CloseWindow \/ Tock \/ UNCHANGED vars
  <2>1. UNCHANGED <<ipc, main, fpend, w, disk, pb>>
    BY <1>7 DEF Drain, OpenWindow, CloseWindow, Tock, vars
  <2> QED BY <2>1, Stays
<1> QED BY <1>1, <1>2, <1>3, <1>4, <1>5, <1>6, <1>7 DEF Next

\* Where operations are numbered from 1, the strengthening holds in every reachable state: how far a
\* transfer is against the disk and PB, and where its command is (transfer, fm_enqueue, fm_child_enqueue)
THEOREM TransferKept == ASSUME Numbered PROVE Spec => []IInv
<1>1. Init => IInv
  BY InitIInv
<1> QED BY <1>1, Inductive, PTL DEF Spec

\* What PB holds of an operation is what is on the disk, whenever and however often the child is ended:
\* completed only when published, and never failed or cancelled once it is (transfer, receipt_outcome,
\* reconcile_receipts_at)
THEOREM ToldTruthSafe == ASSUME Numbered PROVE Spec => []ToldTruth
<1>1. IInv => ToldTruth
  BY DEF IInv
<1> QED BY <1>1, TransferKept, PTL

-----------------------------------------------------------------------------
(***************************************************************************)
(* The console agent: what an acknowledged drain promises, and that a body *)
(* is run once.                                                            *)
(*                                                                         *)
(* The drain rests on the admission lock: a decision is taken and carried  *)
(* out under one shared hold, so with the lock taken exclusively nothing   *)
(* is under way, and a body parsed later has seen the window.  The single  *)
(* run rests on the mark in the result cache, which is set before anything *)
(* is done for a task: the token that entitles to a start is made once,    *)
(* and moves from the handler to the worker.                               *)
(***************************************************************************)

HandlerPcs == {"idle", "lookup", "decide", "guard", "join", "start", "lost", "stopping", "joining", "exited"}
Threads == {"none", "boot", "loop", "closing", "result", "final", "done"}

-----------------------------------------------------------------------------
(* The drain                                                               *)

IsHandler(x) == x \in [pc : HandlerPcs, task : Tasks \cup {None}, upd : BOOLEAN, acted : {x.acted}, status : {x.status}]

DrainTyped ==
    /\ IsHandler(rpc) /\ thread \in Threads
    /\ drain \in [pc : {"idle", "trying", "locked"}, window : Nat]
    /\ upWindow \in Nat /\ upWindows \in Nat /\ acked \in Nat

\* Nothing runs, nothing is decided, and a body that is being handled has seen the window.
Calm ==
    /\ thread \in Quiet /\ proc = "none" /\ files = None /\ admission.task = None
    /\ rpc.pc \notin {"guard", "join", "start"} /\ (rpc.pc \in {"lookup", "decide"} => rpc.upd)

DrainInv ==
    /\ DrainTyped
    /\ late = FALSE
    /\ upWindow \in {0, upWindows} /\ acked <= upWindows
    /\ Exclusive => ~HandlerShares
    /\ proc # "none" => thread = "loop"
    /\ rpc.pc = "start" => thread = "none"
    /\ acked # 0 /\ upWindow = acked => Calm

LEMMA DrainInitial == AgentInit => DrainInv
BY DEF AgentInit, DrainInv, DrainTyped, IsHandler, HandlerPcs, HandlerIdle, Threads, Exclusive, HandlerShares, Statuses,
   None

\* A step of the other parts: the handler, the work and the windows stay as they are.
LEMMA DrainSame ==
    ASSUME DrainInv, UNCHANGED <<rpc, thread, proc, drain, upWindow, upWindows, acked, late, files, admission>>
    PROVE  DrainInv'
BY DEF DrainInv, DrainTyped, Calm, Exclusive, HandlerShares

\* The handler comes to rest, or refuses.
LEMMA RestsKeeps ==
    ASSUME DrainInv, rpc' = HandlerIdle,
           UNCHANGED <<thread, proc, drain, upWindow, upWindows, acked, late, files, admission>>
    PROVE  DrainInv'
<1>1. IsHandler(rpc') /\ rpc'.pc = "idle"
  BY DEF HandlerIdle, IsHandler, HandlerPcs
<1> QED
  BY <1>1 DEF DrainInv, DrainTyped, Calm, Exclusive, HandlerShares

\* The handler moves on within its shared hold.
LEMMA HandlerKeeps ==
    ASSUME DrainInv, HandlerShares, IsHandler(rpc'), ~(acked # 0 /\ upWindow = acked),
           rpc'.pc \in {"guard", "join", "start", "decide"}, thread' \in Threads,
           rpc'.pc = "start" => thread' = "none", thread' = thread \/ (thread \in Quiet /\ thread' = "none"),
           UNCHANGED <<proc, drain, upWindow, upWindows, acked, late, files, admission>>
    PROVE  DrainInv'
<1>1. proc' # "none" => thread' = "loop"
  BY DEF DrainInv, Quiet
<1>2. ~Exclusive' /\ ~(acked' # 0 /\ upWindow' = acked')
  BY DEF DrainInv, Exclusive
<1> QED
  BY <1>1, <1>2 DEF DrainInv, DrainTyped

\* The command worker runs only while nothing has been acknowledged.
LEMMA WorkKeeps ==
    ASSUME DrainInv, thread \notin Quiet, thread' \in Threads, proc' # "none" => thread' = "loop",
           UNCHANGED <<rpc, drain, upWindow, upWindows, acked, late, files, admission>>
    PROVE  DrainInv'
<1>1. ~(acked' # 0 /\ upWindow' = acked')
  BY DEF DrainInv, Calm
<1>2. rpc.pc # "start"
  BY DEF DrainInv, Quiet
<1> QED
  BY <1>1, <1>2 DEF DrainInv, DrainTyped, Exclusive, HandlerShares

\* A decision taken without having seen a window is not taken after its acknowledgement.
LEMMA FreshUnacked ==
    ASSUME DrainInv, Fresh, Method[rpc.task] # "update" \/ ~rpc.upd
    PROVE  ~(acked # 0 /\ upWindow = acked)
BY DEF DrainInv, Calm, Fresh

LEMMA ReceiveKeepsDrain ==
    ASSUME DrainInv, NEW t \in Tasks, Receive(t)
    PROVE  DrainInv'
<1>1. UNCHANGED <<thread, proc, drain, upWindow, upWindows, acked, late, files, admission>> /\ ~Exclusive
  BY DEF Receive, cmdVars
<1>2. CASE rpc' = rpc
  BY <1>1, <1>2, DrainSame
<1>3. CASE rpc' = [HandlerIdle EXCEPT !.pc = "lookup", !.task = t, !.upd = Updating]
  <2>1. IsHandler(rpc') /\ rpc'.pc = "lookup"
    BY <1>3 DEF HandlerIdle, IsHandler, HandlerPcs, Updating
  <2>2. upWindow # 0 => rpc'.upd
    BY <1>3 DEF HandlerIdle, Updating
  <2>3. acked' # 0 /\ upWindow' = acked' => Calm'
    BY <1>1, <2>1, <2>2 DEF DrainInv, Calm
  <2> QED
    BY <1>1, <2>1, <2>3 DEF DrainInv, DrainTyped, Exclusive
<1> QED
  BY <1>2, <1>3 DEF Receive

LEMMA LookupKeepsDrain ==
    ASSUME DrainInv, Lookup
    PROVE  DrainInv'
<1>1. UNCHANGED <<thread, proc, drain, upWindow, upWindows, acked, late, files, admission>> /\ rpc.pc = "lookup"
  BY DEF Lookup, cmdVars, agentWorld
<1>2. PICK a, st : rpc' = [rpc EXCEPT !.pc = "decide", !.acted = a, !.status = st]
  BY DEF Lookup
<1>3. IsHandler(rpc') /\ rpc'.pc = "decide" /\ rpc'.upd = rpc.upd
  BY <1>2 DEF DrainInv, DrainTyped, IsHandler, HandlerPcs
<1>4. acked' # 0 /\ upWindow' = acked' => Calm'
  BY <1>1, <1>3 DEF DrainInv, Calm
<1>5. ~Exclusive'
  BY <1>1 DEF DrainInv, Exclusive, HandlerShares
<1> QED
  BY <1>1, <1>3, <1>4, <1>5 DEF DrainInv, DrainTyped

LEMMA DispatchKeepsDrain ==
    ASSUME DrainInv,
           \/ DecideKnown \/ DispatchPing \/ DispatchCancel \/ DispatchUpdate \/ DispatchFiles
           \/ \E x \in BOOLEAN : DispatchExec(x)
    PROVE  DrainInv'
<1>1. CASE DecideKnown \/ DispatchPing \/ DispatchCancel
  <2>1. UNCHANGED <<thread, proc, drain, upWindow, upWindows, acked, late, files, admission>>
    BY <1>1 DEF DecideKnown, DispatchPing, DispatchCancel, cmdVars, agentWorld
  <2>2. rpc' = HandlerIdle
    BY <1>1 DEF DecideKnown, DispatchPing, DispatchCancel, Answer, Silent
  <2> QED
    BY <2>1, <2>2, RestsKeeps
<1>2. CASE DispatchUpdate \/ DispatchFiles
  <2>1. UNCHANGED <<thread, proc, drain, upWindow, upWindows, acked, late>> /\ rpc' = HandlerIdle
    BY <1>2 DEF DispatchUpdate, DispatchFiles, Answer, Silent, cmdVars, agentWorld
  <2>2. CASE UNCHANGED <<files, admission>>
    BY <2>1, <2>2, RestsKeeps
  <2>3. CASE Fresh /\ (Method[rpc.task] # "update" \/ ~rpc.upd)
    <3>1. ~(acked' # 0 /\ upWindow' = acked')
      BY <2>1, <2>3, FreshUnacked
    <3>2. IsHandler(rpc') /\ rpc'.pc = "idle"
      BY <2>1 DEF HandlerIdle, IsHandler, HandlerPcs
    <3> QED
      BY <2>1, <3>1, <3>2 DEF DrainInv, DrainTyped, Exclusive, HandlerShares
  <2> QED
    BY <1>2, <2>2, <2>3 DEF DispatchUpdate, DispatchFiles
<1>3. ASSUME NEW x \in BOOLEAN, DispatchExec(x) PROVE DrainInv'
  <2>1. UNCHANGED <<thread, proc, drain, upWindow, upWindows, acked, late, files, admission>>
    BY <1>3 DEF DispatchExec, cmdVars, agentWorld
  <2>2. CASE rpc' = HandlerIdle
    BY <2>1, <2>2, RestsKeeps
  <2>3. CASE rpc' = [rpc EXCEPT !.pc = IF thread = "none" THEN "start" ELSE "guard"]
    <3>1. Fresh /\ Method[rpc.task] # "update" /\ HandlerShares
      BY <1>3 DEF DispatchExec, Fresh, HandlerShares
    <3>2. ~(acked # 0 /\ upWindow = acked)
      BY <3>1, FreshUnacked
    <3>3. IsHandler(rpc') /\ rpc'.pc = IF thread = "none" THEN "start" ELSE "guard"
      BY <2>3 DEF DrainInv, DrainTyped, IsHandler, HandlerPcs
    <3>4. thread' = thread /\ thread' \in Threads
      BY <2>1 DEF DrainInv, DrainTyped
    <3> QED
      BY <2>1, <3>1, <3>2, <3>3, <3>4, HandlerKeeps
  <2> QED
    BY <1>3, <2>2, <2>3 DEF DispatchExec, Answer
<1> QED
  BY <1>1, <1>2, <1>3

LEMMA StartKeepsDrain ==
    ASSUME DrainInv, Guard \/ Join \/ \E m \in BOOLEAN : Start(m)
    PROVE  DrainInv'
<1>1. HandlerShares /\ rpc.pc \in {"guard", "join", "start"} /\ ~(acked # 0 /\ upWindow = acked)
  BY DEF Guard, Join, Start, HandlerShares, DrainInv, Calm
<1>2. UNCHANGED <<proc, drain, upWindow, upWindows, acked, late, files, admission>>
  BY DEF Guard, Join, Start, agentWorld
<1>3. CASE rpc' = HandlerIdle /\ thread' = thread
  BY <1>2, <1>3, RestsKeeps
<1>4. CASE Guard /\ rpc' = [rpc EXCEPT !.pc = "join"]
  <2>1. IsHandler(rpc') /\ rpc'.pc = "join"
    BY <1>4 DEF DrainInv, DrainTyped, IsHandler, HandlerPcs
  <2>2. thread' = thread /\ thread' \in Threads
    BY <1>4 DEF Guard, DrainInv, DrainTyped
  <2> QED
    BY <1>1, <1>2, <2>1, <2>2, HandlerKeeps
<1>5. CASE thread \in Quiet /\ thread' = "none" /\ rpc' = [rpc EXCEPT !.pc = "start"]
  <2>1. IsHandler(rpc') /\ rpc'.pc = "start"
    BY <1>5 DEF DrainInv, DrainTyped, IsHandler, HandlerPcs
  <2>2. thread' \in Threads
    BY <1>5 DEF Threads
  <2> QED
    BY <1>1, <1>2, <1>5, <2>1, <2>2, HandlerKeeps
<1>6. ASSUME NEW m \in BOOLEAN, Start(m) PROVE DrainInv'
  <2>1. rpc' = HandlerIdle /\ thread' \in {"boot", "none"} /\ rpc.pc = "start"
    BY <1>6 DEF Start, Answer, Silent
  <2>2. proc = "none"
    BY <2>1 DEF DrainInv
  <2>3. IsHandler(rpc') /\ rpc'.pc = "idle"
    BY <2>1 DEF HandlerIdle, IsHandler, HandlerPcs
  <2> QED
    BY <1>1, <1>2, <2>1, <2>2, <2>3 DEF DrainInv, DrainTyped, Exclusive, HandlerShares, Threads
<1> QED
  BY <1>3, <1>4, <1>5, <1>6 DEF Guard, Join, Answer

LEMMA WorkerKeepsDrain ==
    ASSUME DrainInv, CommandWorker
    PROVE  DrainInv'
<1>1. UNCHANGED <<rpc, drain, upWindow, upWindows, acked, late, files, admission>>
  BY DEF CommandWorker, BootFails, Boot, Loop, Close, WorkerResult, WorkerDone, hist, agentWorld
<1>2. thread \notin Quiet /\ thread' \in Threads
  BY DEF CommandWorker, BootFails, Boot, Loop, LoopCancel, LoopTimeout, LoopTruncate, LoopExit, Kill, Close, WorkerResult,
         WorkerDone, Quiet, Threads
<1>3. proc' # "none" => thread' = "loop"
  <2>1. CASE thread = "loop"
    BY <2>1 DEF CommandWorker, BootFails, Boot, Loop, LoopCancel, LoopTimeout, LoopTruncate, LoopExit, Kill, Close,
         WorkerResult, WorkerDone
  <2>2. CASE thread # "loop"
    BY <2>2 DEF CommandWorker, BootFails, Boot, Loop, Close, WorkerResult, WorkerDone, DrainInv
  <2> QED
    BY <2>1, <2>2
<1> QED
  BY <1>1, <1>2, <1>3, WorkKeeps

\* The windows and the drain: an acknowledgement is given with the lock held exclusively
\* and no work under way.
LEMMA WindowKeepsDrain ==
    ASSUME DrainInv, OpenUpdate \/ CloseUpdate \/ DrainCall \/ DrainLock \/ DrainCheck \/ DrainGivesUp
    PROVE  DrainInv'
<1>1. UNCHANGED <<rpc, thread, proc, late, files, admission>>
  BY DEF OpenUpdate, CloseUpdate, DrainCall, DrainLock, DrainCheck, DrainGivesUp, cmdVars, hist
<1>2. CASE OpenUpdate
  BY <1>1, <1>2 DEF OpenUpdate, DrainInv, DrainTyped, Exclusive, HandlerShares
<1>3. CASE CloseUpdate
  BY <1>1, <1>3 DEF CloseUpdate, DrainInv, DrainTyped, Exclusive, HandlerShares, agentWorld
<1>4. CASE DrainCall \/ DrainLock \/ DrainGivesUp
  <2>1. UNCHANGED <<upWindow, upWindows, acked>>
    BY <1>4 DEF DrainCall, DrainLock, DrainGivesUp, agentWorld
  <2>2. drain' \in [pc : {"idle", "trying", "locked"}, window : Nat]
    BY <1>4 DEF DrainCall, DrainLock, DrainGivesUp, DrainInv, DrainTyped
  <2>3. Exclusive' => ~HandlerShares
    BY <1>4 DEF DrainCall, DrainLock, DrainGivesUp, Exclusive
  <2> QED
    BY <1>1, <2>1, <2>2, <2>3 DEF DrainInv, DrainTyped, Calm, HandlerShares
<1>5. CASE DrainCheck
  <2>1. UNCHANGED <<upWindow, upWindows>> /\ drain.pc = "locked" /\ ~HandlerShares
    BY <1>5 DEF DrainCheck, DrainInv, Exclusive, agentWorld
  <2>2. drain' \in [pc : {"idle", "trying", "locked"}, window : Nat] /\ drain'.pc # "locked"
    BY <1>5 DEF DrainCheck, DrainInv, DrainTyped
  <2>3. CASE acked' = acked
    BY <1>1, <2>1, <2>2, <2>3 DEF DrainInv, DrainTyped, Calm, HandlerShares, Exclusive
  <2>4. CASE ~WorkBusy /\ acked' = upWindow
    <3>1. Calm
      BY <2>1, <2>4 DEF WorkBusy, WorkerAlive, Calm, HandlerShares, DrainInv, Quiet
    <3>2. Calm'
      BY <1>1, <3>1 DEF Calm
    <3> QED
      BY <1>1, <2>1, <2>2, <2>4, <3>2 DEF DrainInv, DrainTyped, HandlerShares, Exclusive
  <2> QED
    BY <1>5, <2>3, <2>4 DEF DrainCheck
<1> QED
  BY <1>2, <1>3, <1>4, <1>5

LEMMA EndKeepsDrain ==
    ASSUME DrainInv, Lose \/ LinkLost \/ Reconnect \/ Stop \/ Exit
    PROVE  DrainInv'
<1>1. UNCHANGED <<proc, drain, upWindow, upWindows, acked, late, admission>>
  BY DEF Lose, LinkLost, Reconnect, Stop, Exit, cmdVars, hist, agentWorld
<1>2. CASE Reconnect
  BY <1>1, <1>2, DrainSame DEF Reconnect, cmdVars
<1>3. CASE Lose \/ LinkLost \/ Stop \/ Exit
  <2>1. IsHandler(rpc') /\ rpc'.pc \in {"lost", "idle", "joining", "stopping", "exited"}
    <3>1. \A q \in HandlerPcs : IsHandler([HandlerIdle EXCEPT !.pc = q]) /\ [HandlerIdle EXCEPT !.pc = q].pc = q
      BY DEF HandlerIdle, IsHandler
    <3>2. \E q \in {"lost", "idle", "joining", "stopping", "exited"} : rpc' = [HandlerIdle EXCEPT !.pc = q]
      BY <1>3 DEF Lose, LinkLost, Stop, Exit
    <3> QED
      BY <3>1, <3>2 DEF HandlerPcs
  <2>2. files' \in {files, None} /\ (thread' = thread \/ (thread \in Quiet /\ thread' = "none"))
    BY <1>3 DEF Lose, LinkLost, Stop, Exit, cmdVars, WorkerAlive
  <2>3. thread' \in Threads /\ (proc' # "none" => thread' = "loop")
    BY <1>1, <2>2 DEF DrainInv, DrainTyped, Quiet, Threads
  <2>4. acked' # 0 /\ upWindow' = acked' => Calm'
    BY <1>1, <2>1, <2>2 DEF DrainInv, Calm, Quiet
  <2> QED
    BY <1>1, <2>1, <2>3, <2>4 DEF DrainInv, DrainTyped, HandlerShares, Exclusive
<1> QED
  BY <1>2, <1>3

LEMMA DrainStep ==
    ASSUME DrainInv, [AgentNext]_agentVars
    PROVE  DrainInv'
<1>1. CASE UNCHANGED agentVars
  BY <1>1, DrainSame DEF agentVars, cmdVars, hist, agentWorld
<1>2. ASSUME NEW t \in Tasks, Announce(t) PROVE DrainInv'
  BY <1>2, DrainSame DEF Announce
<1>3. ASSUME NEW t \in Tasks, Receive(t) PROVE DrainInv'
  BY <1>3, ReceiveKeepsDrain
<1>4. CASE Handler
  BY <1>4, LookupKeepsDrain, DispatchKeepsDrain, StartKeepsDrain DEF Handler
<1>5. CASE CommandWorker
  BY <1>5, WorkerKeepsDrain
<1>6. ASSUME NEW how \in {"exit0", "exit1"}, ProcessExits(how) PROVE DrainInv'
  <2>1. UNCHANGED <<thread, rpc, drain, upWindow, upWindows, acked, late, files, admission>> /\ thread = "loop"
    BY <1>6 DEF ProcessExits, hist, agentWorld, DrainInv
  <2> QED
    BY <2>1, WorkKeeps DEF DrainInv, DrainTyped, Quiet
<1>7. ASSUME NEW b \in BOOLEAN, EventEnter(b) PROVE DrainInv'
  BY <1>7, DrainSame DEF EventEnter, cmdVars, hist
<1>8. CASE EventLeave
  <2>1. late = FALSE /\ ~(MaySend /\ upWindow # 0 /\ acked = upWindow)
    BY DEF MaySend, Updating, DrainInv
  <2>2. late' = late
    BY <1>8, <2>1, Zenon DEF EventLeave
  <2> QED
    BY <1>8, <2>2, DrainSame DEF EventLeave, agentWorld
<1>9. CASE AdmissionTake \/ FilesDone \/ \E a \in BOOLEAN : AdmissionReply(a)
  <2>1. UNCHANGED <<rpc, thread, proc, drain, upWindow, upWindows, acked, late>>
    BY <1>9 DEF AdmissionTake, FilesDone, AdmissionReply, cmdVars, hist, agentWorld
  <2>2. acked' # 0 /\ upWindow' = acked' => Calm'
    BY <1>9, <2>1 DEF AdmissionTake, FilesDone, AdmissionReply, DrainInv, Calm
  <2> QED
    BY <2>1, <2>2 DEF DrainInv, DrainTyped, HandlerShares, Exclusive
<1>10. CASE OpenUpdate \/ CloseUpdate \/ DrainCall \/ DrainLock \/ DrainCheck \/ DrainGivesUp
  BY <1>10, WindowKeepsDrain
<1>11. CASE Lose \/ LinkLost \/ Reconnect \/ Stop \/ Exit
  BY <1>11, EndKeepsDrain
<1> QED
  BY <1>1, <1>2, <1>3, <1>4, <1>5, <1>6, <1>7, <1>8, <1>9, <1>10, <1>11 DEF AgentNext

\* Once a drain has acknowledged a window nothing runs, starts or is announced until it
\* closes, for any set of tasks, and any number of windows, losses and stops.
THEOREM DrainQuietSafe == AgentSpec => []DrainQuiet
<1>1. DrainInv => DrainQuiet
  BY DEF DrainInv, Calm, DrainQuiet, WorkerAlive
<1>2. DrainInv /\ [AgentNext]_agentVars => DrainInv'
  BY DrainStep
<1> QED
  BY <1>1, <1>2, DrainInitial, PTL DEF AgentSpec

-----------------------------------------------------------------------------
(* The result cache                                                        *)

IsEntry(x) == x \in [id : Tasks \cup {None}, acted : {x.acted}, status : {x.status}]

CacheTyped ==
    /\ DOMAIN recent = 1..Slots /\ next \in 0..Slots - 1
    /\ \A n \in 1..Slots : IsEntry(recent[n])
    /\ evicted \subseteq Tasks

\* A task has one slot.
Unique == \A m, n \in 1..Slots : recent[m].id = recent[n].id /\ recent[m].id # None => m = n

MarkHeld(t) == \E n \in 1..Slots : recent[n].id = t /\ recent[n].acted

\* What a call of rpc_recent does to the marks: a mark is lost with its slot only, and the
\* task that had it is remembered as displaced.
CacheGrows ==
    /\ CacheTyped' /\ Unique' /\ evicted \subseteq evicted'
    /\ \A u \in Tasks \ evicted' : MarkHeld(u) => MarkHeld(u)'

LEMMA SlotTaken == CacheTyped => SlotToTake \in 1..Slots /\ NextSlot(SlotToTake) \in 0..Slots - 1
<1> SUFFICES ASSUME CacheTyped PROVE SlotToTake \in 1..Slots /\ NextSlot(SlotToTake) \in 0..Slots - 1
  OBVIOUS
<1>1. Slots \in Nat /\ Slots > 0 /\ next \in 0..Slots - 1
  BY AgentAssumption DEF AgentAssumption, CacheTyped
<1>2. (next + 1) % Slots \in 0..Slots - 1
  BY <1>1
<1>3. SlotToTake \in 1..Slots
  BY <1>1, <1>2 DEF SlotToTake
<1>4. SlotToTake % Slots \in 0..Slots - 1
  BY <1>1, <1>3
<1> QED
  BY <1>3, <1>4 DEF NextSlot

LEMMA SlotFound ==
    ASSUME CacheTyped, NEW t \in Tasks
    PROVE  /\ SlotOf(t) \in 1..Slots
           /\ Found(t) # {} => recent[SlotOf(t)].id = t
           /\ Found(t) = {} => SlotOf(t) = SlotToTake
<1>1. CASE Found(t) # {}
  BY <1>1 DEF SlotOf, Found
<1>2. CASE Found(t) = {}
  BY <1>2, SlotTaken DEF SlotOf
<1> QED
  BY <1>1, <1>2

LEMMA RecallIs ==
    ASSUME CacheTyped, Unique, NEW t \in Tasks
    PROVE  IsEntry(Recall(t)) /\ Recall(t).id = t /\ (MarkHeld(t) => Recall(t).acted)
<1>1. CASE Found(t) # {}
  <2>1. SlotOf(t) \in 1..Slots /\ recent[SlotOf(t)].id = t /\ Recall(t) = recent[SlotOf(t)]
    BY <1>1, SlotFound DEF Recall
  <2>2. t # None
    BY AgentAssumption DEF AgentAssumption, None
  <2>3. ASSUME NEW n \in 1..Slots, recent[n].id = t PROVE n = SlotOf(t)
    BY <2>1, <2>2, <2>3 DEF Unique
  <2> QED
    BY <2>1, <2>3 DEF CacheTyped, MarkHeld
<1>2. CASE Found(t) = {}
  <2>1. Recall(t) = [Free EXCEPT !.id = t]
    BY <1>2 DEF Recall
  <2>2. ~MarkHeld(t)
    BY <1>2 DEF MarkHeld, Found
  <2> QED
    BY <2>1, <2>2 DEF Free, IsEntry
<1> QED
  BY <1>1, <1>2

LEMMA RememberGrows ==
    ASSUME CacheTyped, Unique, NEW t \in Tasks, NEW e, IsEntry(e), e.id = t, Recall(t).acted => e.acted,
           Remember(t, e)
    PROVE  CacheGrows /\ (e.acted => MarkHeld(t)')
<1> DEFINE k == SlotOf(t)
<1>1. k \in 1..Slots /\ (Found(t) # {} => recent[k].id = t) /\ (Found(t) = {} => k = SlotToTake)
  BY SlotFound
<1>2. recent' = [recent EXCEPT ![k] = e]
  BY DEF Remember
<1> HIDE DEF k
<1>3. DOMAIN recent' = 1..Slots /\ \A n \in 1..Slots : recent'[n] = IF n = k THEN e ELSE recent[n]
  BY <1>1, <1>2 DEF CacheTyped
<1>4. t # None
  BY AgentAssumption DEF AgentAssumption, None
<1>5. CacheTyped'
  <2>1. \A n \in 1..Slots : IsEntry(recent'[n])
    BY <1>3 DEF CacheTyped
  <2>2. next' \in 0..Slots - 1
    BY SlotTaken DEF CacheTyped, Remember
  <2>3. recent[SlotToTake].id \in Tasks \cup {None}
    BY SlotTaken DEF CacheTyped, IsEntry
  <2>4. evicted' \subseteq Tasks
    BY <2>3 DEF Remember, CacheTyped
  <2> QED
    BY <1>3, <2>1, <2>2, <2>4 DEF CacheTyped
<1>6. \A n \in 1..Slots : n # k => recent[n].id # t
  <2>1. CASE Found(t) = {}
    BY <2>1 DEF Found
  <2>2. CASE Found(t) # {}
    BY <1>1, <1>4, <2>2 DEF Unique
  <2> QED
    BY <2>1, <2>2
<1>7. Unique'
  BY <1>1, <1>3, <1>6 DEF Unique
<1>8. evicted \subseteq evicted'
  BY AgentAssumption DEF Remember, CacheTyped, AgentAssumption, None
<1>9. \A u \in Tasks \ evicted' : MarkHeld(u) => MarkHeld(u)'
  <2> SUFFICES ASSUME NEW u \in Tasks \ evicted', NEW n \in 1..Slots, recent[n].id = u, recent[n].acted
               PROVE  MarkHeld(u)'
    BY DEF MarkHeld
  <2>1. CASE n # k
    BY <1>3, <2>1 DEF MarkHeld
  <2>2. CASE n = k /\ Found(t) # {}
    <3>1. u = t /\ Recall(t).acted
      BY <1>1, <2>2 DEF Recall, k
    <3> QED
      BY <1>1, <1>3, <3>1 DEF MarkHeld
  <2>3. CASE n = k /\ Found(t) = {}
    <3>1. u \in evicted'
      BY <1>1, <2>3, AgentAssumption DEF Remember, AgentAssumption, None
    <3> QED
      BY <3>1
  <2> QED
    BY <2>1, <2>2, <2>3
<1>10. e.acted => MarkHeld(t)'
  BY <1>1, <1>3 DEF MarkHeld
<1> QED
  BY <1>5, <1>7, <1>8, <1>9, <1>10 DEF CacheGrows

\* rpc_result and rpc_status keep every mark.
LEMMA ResultGrows ==
    ASSUME CacheTyped, Unique, NEW t \in Tasks, NEW st, TaskResult(t, st)
    PROVE  CacheGrows
<1> DEFINE e == [Recall(t) EXCEPT !.status = st]
<1>1. IsEntry(Recall(t)) /\ Recall(t).id = t
  BY RecallIs
<1>2. IsEntry(e) /\ e.id = t /\ e.acted = Recall(t).acted
  BY <1>1 DEF IsEntry
<1>3. Remember(t, e)
  BY DEF TaskResult
<1> HIDE DEF e
<1> QED
  BY <1>2, <1>3, RememberGrows

-----------------------------------------------------------------------------
(* The single run                                                          *)

IsCommand(x) == x \in [task : Tasks \cup {None}, running : {x.running}, cancel : {x.cancel}, protected : {x.protected}]
IsAdmission(x) == x \in [task : Tasks \cup {None}, working : {x.working}]

WorkTyped ==
    /\ IsCommand(cmd) /\ (WorkerAlive => cmd.task # None)
    /\ IsAdmission(admission) /\ (admission.working => admission.task # None)
    /\ files \in Tasks \cup {None} /\ started \in [Tasks -> Nat]
    /\ HandlerShares => rpc.task # None
    /\ rpc.pc \in {"guard", "join", "start"} => ~rpc.acted

\* What entitles to a start of t: the handler found the mark unset, or the worker is at its boot.
HandlerMay(t) == rpc.pc \in {"decide", "guard", "join", "start"} /\ rpc.task = t /\ ~rpc.acted
WorkerMay(t) == thread = "boot" /\ cmd.task = t

Single(t) ==
    /\ started[t] <= 1
    /\ HandlerMay(t) => ~WorkerMay(t) /\ started[t] = 0
    /\ WorkerMay(t) => started[t] = 0
    /\ HandlerMay(t) \/ WorkerMay(t) \/ started[t] = 1 => MarkHeld(t)

OnceInv == CacheTyped /\ Unique /\ WorkTyped /\ \A t \in Tasks \ evicted : Single(t)

CacheKept == CacheGrows \/ UNCHANGED <<recent, next, evicted>>

LEMMA OnceInitial == AgentInit => OnceInv
<1> SUFFICES ASSUME AgentInit PROVE OnceInv
  OBVIOUS
<1>1. CacheTyped /\ Unique
  <2>1. DOMAIN recent = 1..Slots /\ \A n \in 1..Slots : recent[n] = Free
    BY DEF AgentInit
  <2>2. IsEntry(Free) /\ Free.id = None
    BY DEF Free, IsEntry
  <2>3. next \in 0..Slots - 1 /\ evicted \subseteq Tasks
    BY AgentAssumption DEF AgentInit, AgentAssumption
  <2> QED
    BY <2>1, <2>2, <2>3 DEF CacheTyped, Unique
<1>2. rpc.pc = "idle" /\ thread = "none"
  BY DEF AgentInit, HandlerIdle
<1>3. IsCommand(cmd)
  BY DEF AgentInit, NoCommand, IsCommand
<1>4. IsAdmission(admission) /\ ~admission.working
  BY DEF AgentInit, IsAdmission
<1>5. files \in Tasks \cup {None} /\ started \in [Tasks -> Nat] /\ \A t \in Tasks : started[t] = 0
  BY DEF AgentInit
<1>6. WorkTyped
  BY <1>2, <1>3, <1>4, <1>5 DEF WorkTyped, WorkerAlive, HandlerShares, Quiet
<1>7. \A t \in Tasks : Single(t)
  <2>1. \A t \in Tasks : ~HandlerMay(t) /\ ~WorkerMay(t)
    BY <1>2 DEF HandlerMay, WorkerMay
  <2>2. ASSUME NEW t \in Tasks PROVE started[t] <= 1 /\ started[t] # 1
    <3>1. started[t] = 0
      BY <1>5
    <3> QED
      BY <3>1
  <2> QED
    BY <2>1, <2>2 DEF Single
<1> QED
  BY <1>1, <1>6, <1>7 DEF OnceInv

\* No token is made and the cache keeps its marks.
LEMMA TokensKeep ==
    ASSUME OnceInv, CacheKept, UNCHANGED started, WorkTyped',
           \A t \in Tasks : HandlerMay(t)' => HandlerMay(t),
           \A t \in Tasks : WorkerMay(t)' => WorkerMay(t)
    PROVE  OnceInv'
<1>1. CacheTyped' /\ Unique' /\ evicted \subseteq evicted' /\ \A u \in Tasks \ evicted' : MarkHeld(u) => MarkHeld(u)'
  BY DEF CacheKept, CacheGrows, OnceInv, CacheTyped, Unique, MarkHeld
<1>2. \A t \in Tasks \ evicted' : Single(t)'
  <2> SUFFICES ASSUME NEW t \in Tasks \ evicted' PROVE Single(t)'
    OBVIOUS
  <2>1. Single(t) /\ started'[t] = started[t] /\ (MarkHeld(t) => MarkHeld(t)')
    BY <1>1 DEF OnceInv
  <2>2. HandlerMay(t)' => HandlerMay(t)
    OBVIOUS
  <2>3. WorkerMay(t)' => WorkerMay(t)
    OBVIOUS
  <2> QED
    BY <2>1, <2>2, <2>3 DEF Single
<1> QED
  BY <1>1, <1>2 DEF OnceInv

\* The handler stays or rests; the worker stays or leaves its boot; the command keeps its task.
LEMMA RestingStep ==
    ASSUME OnceInv, CacheKept, UNCHANGED started,
           rpc' = rpc \/ rpc'.pc \in {"idle", "lost", "stopping", "joining", "exited"},
           thread' = thread \/ thread' # "boot",
           IsCommand(cmd'), cmd'.task = cmd.task, thread' \in Quiet \/ thread \notin Quiet,
           IsAdmission(admission'), admission'.working => admission'.task # None,
           files' \in Tasks \cup {None}
    PROVE  OnceInv'
<1>1. WorkTyped'
  BY DEF OnceInv, WorkTyped, WorkerAlive, HandlerShares
<1>2. \A t \in Tasks : HandlerMay(t)' => HandlerMay(t)
  BY DEF HandlerMay
<1>3. \A t \in Tasks : WorkerMay(t)' => WorkerMay(t)
  BY DEF WorkerMay
<1> QED
  BY <1>1, <1>2, <1>3, TokensKeep

\* Cancelling, protecting or ending a command keeps its task.
LEMMA CommandKept ==
    ASSUME OnceInv,
           \/ cmd' = cmd
           \/ cmd' = [cmd EXCEPT !.cancel = "user"] \/ cmd' = [cmd EXCEPT !.cancel = "replace"]
           \/ cmd' = [cmd EXCEPT !.running = FALSE] \/ cmd' = [cmd EXCEPT !.protected = TRUE]
    PROVE  IsCommand(cmd') /\ cmd'.task = cmd.task
<1>1. IsCommand(cmd)
  BY DEF OnceInv, WorkTyped
<1> QED
  BY <1>1 DEF IsCommand

LEMMA AnswerKept ==
    ASSUME DrainInv, OnceInv, HandlerShares, (\E st : Answer(st)) \/ Silent
    PROVE  CacheKept /\ rpc'.pc = "idle"
<1>1. rpc' = HandlerIdle
  BY DEF Answer, Silent
<1>2. rpc.task \in Tasks
  BY DEF OnceInv, WorkTyped, DrainInv, DrainTyped, IsHandler
<1>3. ASSUME NEW st, Answer(st) PROVE CacheKept
  BY <1>2, <1>3, ResultGrows DEF Answer, OnceInv, CacheKept
<1>4. ASSUME Silent PROVE CacheKept
  BY <1>4 DEF Silent, NoResult, cache, CacheKept
<1> QED
  BY <1>1, <1>3, <1>4 DEF HandlerIdle

LEMMA ReceiveKeepsOnce ==
    ASSUME DrainInv, OnceInv, NEW t \in Tasks, Announce(t) \/ Receive(t)
    PROVE  OnceInv'
<1>1. UNCHANGED <<started, thread, admission, files>> /\ rpc.pc = "idle"
  BY DEF Announce, Receive, cmdVars
<1>2. CASE Announce(t)
  <2>1. CacheKept
    <3>1. CASE Remember(t, [Recall(t) EXCEPT !.acted = TRUE])
      <4> DEFINE e == [Recall(t) EXCEPT !.acted = TRUE]
      <4>1. IsEntry(e) /\ e.id = t /\ e.acted
        BY RecallIs DEF OnceInv, IsEntry
      <4>2. Remember(t, e)
        BY <3>1
      <4> HIDE DEF e
      <4> QED
        BY <4>1, <4>2, RememberGrows DEF OnceInv, CacheKept
    <3>2. CASE UNCHANGED <<cache, evicted>>
      BY <3>2 DEF cache, CacheKept
    <3> QED
      BY <1>2, <3>1, <3>2 DEF Announce
  <2>2. IsCommand(cmd') /\ cmd'.task = cmd.task
    <3>1. cmd' = cmd \/ cmd' = [cmd EXCEPT !.cancel = "user"]
      BY <1>2 DEF Announce
    <3> QED
      BY <3>1, CommandKept
  <2>3. rpc' = rpc
    BY <1>2 DEF Announce
  <2> QED
    BY <1>1, <2>1, <2>2, <2>3, RestingStep DEF OnceInv, WorkTyped
<1>3. CASE Receive(t)
  <2>1. cmd' = cmd
    BY <1>3 DEF Receive, cmdVars
  <2>2. CASE Method[t] = "bad"
    <3>1. TaskResult(t, 400) /\ rpc' = rpc
      BY <1>3, <2>2 DEF Receive
    <3>2. CacheKept
      BY <3>1, ResultGrows DEF OnceInv, CacheKept
    <3> QED
      BY <1>1, <2>1, <3>1, <3>2, RestingStep DEF OnceInv, WorkTyped
  <2>3. CASE Method[t] # "bad"
    <3>1. NoResult /\ rpc' = [HandlerIdle EXCEPT !.pc = "lookup", !.task = t, !.upd = Updating]
      BY <1>3, <2>3 DEF Receive
    <3>2. CacheKept
      BY <3>1 DEF NoResult, cache, CacheKept
    <3>3. rpc'.pc = "lookup" /\ rpc'.task = t /\ t # None
      BY <3>1, AgentAssumption DEF HandlerIdle, AgentAssumption, None
    <3>4. WorkTyped'
      BY <1>1, <2>1, <3>3 DEF OnceInv, WorkTyped, WorkerAlive
    <3>5. \A u \in Tasks : ~HandlerMay(u)'
      BY <3>3 DEF HandlerMay
    <3>6. \A u \in Tasks : WorkerMay(u)' => WorkerMay(u)
      BY <1>1, <2>1 DEF WorkerMay
    <3> QED
      BY <1>1, <3>2, <3>4, <3>5, <3>6, TokensKeep
  <2> QED
    BY <2>2, <2>3
<1> QED
  BY <1>2, <1>3

\* The mark is set in the step that reads it: of several handlings of one body only the
\* first finds it unset.
LEMMA LookupKeepsOnce ==
    ASSUME DrainInv, OnceInv, Lookup
    PROVE  OnceInv'
<1>1. UNCHANGED <<cmd, started, thread, admission, files>> /\ rpc.pc = "lookup"
  BY DEF Lookup, cmdVars
<1>2. PICK r \in Tasks : r = rpc.task
  BY <1>1 DEF OnceInv, WorkTyped, HandlerShares, DrainInv, DrainTyped, IsHandler
<1> DEFINE e == [Recall(r) EXCEPT !.acted = TRUE]
<1>3. Remember(r, e)
  BY <1>2 DEF Lookup
<1>4. rpc'.pc = "decide" /\ rpc'.task = r /\ rpc'.acted = Recall(r).acted
  BY <1>2 DEF Lookup, DrainInv, DrainTyped, IsHandler
<1>5. IsEntry(e) /\ e.id = r /\ e.acted /\ (MarkHeld(r) => Recall(r).acted)
  BY <1>2, RecallIs DEF OnceInv, IsEntry
<1> HIDE DEF e
<1>6. CacheGrows /\ MarkHeld(r)'
  <2>1. CacheTyped /\ Unique /\ (Recall(r).acted => e.acted)
    BY <1>5 DEF OnceInv
  <2>2. CacheGrows /\ (e.acted => MarkHeld(r)')
    BY <1>2, <1>3, <1>5, <2>1, RememberGrows
  <2> QED
    BY <1>5, <2>2
<1>7. WorkTyped'
  <2>1. r # None
    BY <1>2, AgentAssumption DEF AgentAssumption, None
  <2> QED
    BY <1>1, <1>4, <2>1 DEF OnceInv, WorkTyped, WorkerAlive
<1>8. \A t \in Tasks \ evicted' : Single(t)'
  <2> SUFFICES ASSUME NEW t \in Tasks \ evicted' PROVE Single(t)'
    OBVIOUS
  <2>1. Single(t) /\ started'[t] = started[t] /\ started[t] \in Nat /\ (MarkHeld(t) => MarkHeld(t)')
    BY <1>1, <1>6 DEF OnceInv, CacheGrows, WorkTyped
  <2>2. WorkerMay(t)' => WorkerMay(t)
    BY <1>1 DEF WorkerMay
  <2>3. HandlerMay(t)' => t = r /\ ~MarkHeld(t)
    BY <1>4, <1>5 DEF HandlerMay
  <2>4. ASSUME HandlerMay(t)' PROVE ~WorkerMay(t)' /\ started'[t] = 0 /\ MarkHeld(t)'
    <3>1. t = r /\ ~MarkHeld(t)
      BY <2>3, <2>4
    <3>2. ~WorkerMay(t) /\ started[t] # 1 /\ started[t] <= 1
      BY <2>1, <3>1 DEF Single
    <3>3. started[t] = 0
      BY <2>1, <3>2
    <3> QED
      BY <1>6, <2>1, <2>2, <3>1, <3>2, <3>3
  <2> QED
    BY <2>1, <2>2, <2>4 DEF Single
<1> QED
  BY <1>6, <1>7, <1>8 DEF OnceInv, CacheGrows

LEMMA DispatchKeepsOnce ==
    ASSUME DrainInv, OnceInv,
           \/ DecideKnown \/ DispatchPing \/ DispatchCancel \/ DispatchUpdate \/ DispatchFiles
           \/ \E x \in BOOLEAN : DispatchExec(x)
    PROVE  OnceInv'
<1>1. UNCHANGED <<started, thread>> /\ rpc.pc = "decide"
  BY DEF DecideKnown, DispatchPing, DispatchCancel, DispatchUpdate, DispatchFiles, DispatchExec, Fresh, cmdVars
<1>2. HandlerShares /\ rpc.task \in Tasks
  BY <1>1 DEF HandlerShares, OnceInv, WorkTyped, DrainInv, DrainTyped, IsHandler
<1>3. IsCommand(cmd') /\ cmd'.task = cmd.task
  <2>1. cmd' = cmd \/ cmd' = [cmd EXCEPT !.cancel = "user"]
    BY DEF DecideKnown, DispatchPing, DispatchCancel, DispatchUpdate, DispatchFiles, DispatchExec, cmdVars
  <2> QED
    BY <2>1, CommandKept
<1>4. IsAdmission(admission') /\ (admission'.working => admission'.task # None)
  <2>1. CASE UNCHANGED admission
    BY <2>1 DEF OnceInv, WorkTyped
  <2>2. CASE admission' = [task |-> rpc.task, working |-> FALSE]
    BY <1>2, <2>2 DEF IsAdmission
  <2> QED
    BY <2>1, <2>2 DEF DecideKnown, DispatchPing, DispatchCancel, DispatchUpdate, DispatchFiles, DispatchExec
<1>5. files' \in Tasks \cup {None}
  BY <1>2 DEF DecideKnown, DispatchPing, DispatchCancel, DispatchUpdate, DispatchFiles, DispatchExec, OnceInv, WorkTyped
<1>6. CASE (\E st : Answer(st)) \/ Silent
  BY <1>1, <1>2, <1>3, <1>4, <1>5, <1>6, AnswerKept, RestingStep
<1>7. CASE Fresh /\ NoResult /\ UNCHANGED <<cmd, files, admission>>
           /\ rpc' = [rpc EXCEPT !.pc = IF thread = "none" THEN "start" ELSE "guard"]
  <2>1. rpc'.pc \in {"start", "guard"} /\ rpc'.task = rpc.task /\ rpc'.acted = rpc.acted /\ ~rpc.acted
    BY <1>7 DEF DrainInv, DrainTyped, IsHandler, Fresh
  <2>2. WorkTyped'
    BY <1>1, <1>2, <1>7, <2>1 DEF OnceInv, WorkTyped, WorkerAlive
  <2>3. \A t \in Tasks : HandlerMay(t)' => HandlerMay(t)
    BY <1>1, <2>1 DEF HandlerMay
  <2>4. \A t \in Tasks : WorkerMay(t)' => WorkerMay(t)
    BY <1>1, <1>7 DEF WorkerMay
  <2>5. CacheKept
    BY <1>7 DEF NoResult, cache, CacheKept
  <2> QED
    BY <1>1, <2>2, <2>3, <2>4, <2>5, TokensKeep
<1>8. CASE DecideKnown
  BY <1>6, <1>8 DEF DecideKnown
<1>9. CASE DispatchPing \/ DispatchCancel \/ DispatchUpdate \/ DispatchFiles
  BY <1>6, <1>9 DEF DispatchPing, DispatchCancel, DispatchUpdate, DispatchFiles
<1>10. ASSUME NEW x \in BOOLEAN, DispatchExec(x) PROVE OnceInv'
  BY <1>6, <1>7, <1>10 DEF DispatchExec, cmdVars
<1> QED
  BY <1>8, <1>9, <1>10

LEMMA GuardKeepsOnce ==
    ASSUME DrainInv, OnceInv, Guard \/ Join
    PROVE  OnceInv'
<1>1. UNCHANGED <<started, admission, files>> /\ rpc.pc \in {"guard", "join"} /\ HandlerShares
  BY DEF Guard, Join, HandlerShares
<1>2. IsCommand(cmd') /\ cmd'.task = cmd.task
  <2>1. cmd' = cmd \/ cmd' = [cmd EXCEPT !.cancel = "replace"]
    BY DEF Guard, Join
  <2> QED
    BY <2>1, CommandKept
<1>3. thread' = thread \/ (thread \in Quiet /\ thread' = "none")
  BY DEF Guard, Join
<1>4. thread' = thread \/ thread' # "boot"
  BY <1>3
<1>5. thread' \in Quiet \/ thread \notin Quiet
  BY <1>3 DEF Quiet
<1>6. CASE \E st : Answer(st)
  <2>1. CacheKept /\ rpc'.pc = "idle"
    BY <1>1, <1>6, AnswerKept
  <2> QED
    BY <1>1, <1>2, <1>4, <1>5, <2>1, RestingStep DEF OnceInv, WorkTyped
<1>7. CASE NoResult /\ \E q \in {"join", "start"} : rpc' = [rpc EXCEPT !.pc = q]
  <2>1. rpc'.pc \in {"join", "start"} /\ rpc'.task = rpc.task /\ rpc'.acted = rpc.acted /\ ~rpc.acted
    BY <1>1, <1>7 DEF DrainInv, DrainTyped, IsHandler, OnceInv, WorkTyped
  <2>2. WorkTyped'
    BY <1>1, <1>2, <1>5, <2>1 DEF OnceInv, WorkTyped, WorkerAlive
  <2>3. \A t \in Tasks : HandlerMay(t)' => HandlerMay(t)
    BY <1>1, <2>1 DEF HandlerMay
  <2>4. \A t \in Tasks : WorkerMay(t)' => WorkerMay(t)
    BY <1>2, <1>4 DEF WorkerMay
  <2>5. CacheKept
    BY <1>7 DEF NoResult, cache, CacheKept
  <2> QED
    BY <1>1, <2>2, <2>3, <2>4, <2>5, TokensKeep
<1> QED
  BY <1>6, <1>7 DEF Guard, Join

\* The entitlement passes from the handler to the worker.
LEMMA StartKeepsOnce ==
    ASSUME DrainInv, OnceInv, NEW m \in BOOLEAN, Start(m)
    PROVE  OnceInv'
<1>1. UNCHANGED <<started, admission, files>> /\ rpc.pc = "start" /\ HandlerShares /\ ~rpc.acted
  BY DEF Start, HandlerShares, OnceInv, WorkTyped
<1>2. PICK r \in Tasks : r = rpc.task
  BY <1>1 DEF OnceInv, WorkTyped, DrainInv, DrainTyped, IsHandler
<1>3. CacheKept /\ rpc'.pc = "idle"
  BY <1>1, AnswerKept DEF Start
<1>4. IsCommand(cmd') /\ cmd'.task = r /\ r # None
  <2>1. cmd' = [task |-> r, running |-> m, cancel |-> None, protected |-> Method[r] = "renew"]
    BY <1>2 DEF Start
  <2> QED
    BY <2>1, AgentAssumption DEF IsCommand, AgentAssumption, None
<1>5. thread' \in {"boot", "none"}
  BY DEF Start
<1>6. WorkTyped'
  BY <1>1, <1>3, <1>4 DEF OnceInv, WorkTyped, HandlerShares
<1>7. CacheTyped' /\ Unique' /\ evicted \subseteq evicted' /\ \A u \in Tasks \ evicted' : MarkHeld(u) => MarkHeld(u)'
  BY <1>3 DEF CacheKept, CacheGrows, OnceInv, CacheTyped, Unique, MarkHeld
<1>8. \A t \in Tasks \ evicted' : Single(t)'
  <2> SUFFICES ASSUME NEW t \in Tasks \ evicted' PROVE Single(t)'
    OBVIOUS
  <2>1. Single(t) /\ (MarkHeld(t) => MarkHeld(t)')
    BY <1>7 DEF OnceInv
  <2>2. started'[t] = started[t]
    BY <1>1
  <2>3. ~HandlerMay(t)'
    BY <1>3 DEF HandlerMay
  <2>4. WorkerMay(t)' => HandlerMay(t)
    BY <1>1, <1>2, <1>4 DEF WorkerMay, HandlerMay
  <2> QED
    BY <2>1, <2>2, <2>3, <2>4 DEF Single
<1> QED
  BY <1>6, <1>7, <1>8 DEF OnceInv

\* The entitlement is used: the process is started, and none is left.
LEMMA BootKeepsOnce ==
    ASSUME DrainInv, OnceInv, NEW i \in BOOLEAN, Boot(i)
    PROVE  OnceInv'
<1>1. UNCHANGED <<recent, next, evicted, cmd, rpc, admission, files>> /\ thread = "boot" /\ thread' = "loop"
  BY DEF Boot, cache
<1>2. PICK r \in Tasks : r = cmd.task
  BY <1>1 DEF OnceInv, WorkTyped, WorkerAlive, Quiet, IsCommand
<1>3. started' = [started EXCEPT ![r] = started[r] + 1] /\ started \in [Tasks -> Nat]
  BY <1>2 DEF Boot, OnceInv, WorkTyped
<1>4. WorkTyped'
  BY <1>1, <1>2, <1>3 DEF OnceInv, WorkTyped, WorkerAlive, HandlerShares, Quiet
<1>5. CacheTyped' /\ Unique' /\ \A u \in Tasks : MarkHeld(u)' <=> MarkHeld(u)
  BY <1>1 DEF OnceInv, CacheTyped, Unique, MarkHeld
<1>6. \A t \in Tasks \ evicted' : Single(t)'
  <2> SUFFICES ASSUME NEW t \in Tasks \ evicted' PROVE Single(t)'
    OBVIOUS
  <2>1. Single(t) /\ (MarkHeld(t)' <=> MarkHeld(t))
    BY <1>1, <1>5 DEF OnceInv
  <2>2. ~WorkerMay(t)' /\ (HandlerMay(t)' <=> HandlerMay(t))
    BY <1>1 DEF WorkerMay, HandlerMay
  <2>3. CASE t = r
    <3>1. WorkerMay(t)
      BY <1>1, <1>2, <2>3 DEF WorkerMay
    <3>2. started[t] = 0 /\ ~HandlerMay(t) /\ MarkHeld(t)
      BY <2>1, <3>1 DEF Single
    <3>3. started'[t] = 1
      BY <1>3, <2>3, <3>2
    <3>4. started'[t] <= 1
      BY <3>3
    <3> QED
      BY <2>1, <2>2, <3>2, <3>4 DEF Single
  <2>4. CASE t # r
    <3>1. started'[t] = started[t]
      BY <1>3, <2>4
    <3> QED
      BY <2>1, <2>2, <3>1 DEF Single
  <2> QED
    BY <2>3, <2>4
<1> QED
  BY <1>4, <1>5, <1>6 DEF OnceInv

LEMMA WorkerKeepsOnce ==
    ASSUME DrainInv, OnceInv, CommandWorker
    PROVE  OnceInv'
<1>1. CASE \E i \in BOOLEAN : Boot(i)
  BY <1>1, BootKeepsOnce
<1>2. CASE BootFails \/ Loop \/ Close \/ WorkerResult \/ WorkerDone
  <2>1. UNCHANGED <<rpc, admission, files, started>>
    BY <1>2 DEF BootFails, Loop, Close, WorkerResult, WorkerDone, hist
  <2>2. thread \notin Quiet /\ thread' # "boot"
    BY <1>2 DEF BootFails, Loop, LoopCancel, LoopTimeout, LoopTruncate, LoopExit, Kill, Close, WorkerResult, WorkerDone, Quiet
  <2>3. IsCommand(cmd') /\ cmd'.task = cmd.task
    <3>1. cmd' = cmd \/ cmd' = [cmd EXCEPT !.running = FALSE]
      BY <1>2 DEF BootFails, Loop, Close, WorkerResult, WorkerDone
    <3> QED
      BY <3>1, CommandKept
  <2>4. CacheKept
    <3>1. CASE WorkerResult
      <4>1. cmd.task \in Tasks
        BY <2>2 DEF OnceInv, WorkTyped, WorkerAlive, IsCommand
      <4> QED
        BY <3>1, <4>1, ResultGrows DEF WorkerResult, OnceInv, CacheKept
    <3>2. CASE ~WorkerResult
      BY <1>2, <3>2 DEF BootFails, Loop, Close, WorkerDone, cache, hist, CacheKept
    <3> QED
      BY <3>1, <3>2
  <2> QED
    BY <2>1, <2>2, <2>3, <2>4, RestingStep DEF OnceInv, WorkTyped
<1> QED
  BY <1>1, <1>2 DEF CommandWorker

LEMMA AdmissionKeepsOnce ==
    ASSUME DrainInv, OnceInv, AdmissionTake \/ FilesDone \/ \E a \in BOOLEAN : AdmissionReply(a)
    PROVE  OnceInv'
<1>1. UNCHANGED <<rpc, thread, cmd, started>>
  BY DEF AdmissionTake, FilesDone, AdmissionReply, cmdVars, hist
<1>2. IsAdmission(admission) /\ IsCommand(cmd) /\ files \in Tasks \cup {None} /\ (admission.working => admission.task # None)
  BY DEF OnceInv, WorkTyped
<1>3. CASE AdmissionTake
  <2>1. IsAdmission(admission') /\ admission'.task # None /\ files' = files
    BY <1>2, <1>3 DEF AdmissionTake, IsAdmission
  <2>2. CacheKept
    BY <1>3 DEF AdmissionTake, cache, hist, CacheKept
  <2> QED
    BY <1>1, <1>2, <2>1, <2>2, RestingStep
<1>4. CASE FilesDone
  <2>1. CacheKept
    BY <1>2, <1>4, ResultGrows DEF FilesDone, OnceInv, CacheKept
  <2>2. files' = None /\ admission' = admission
    BY <1>4 DEF FilesDone
  <2> QED
    BY <1>1, <1>2, <2>1, <2>2, RestingStep
<1>5. ASSUME NEW a \in BOOLEAN, AdmissionReply(a) PROVE OnceInv'
  <2>1. admission.task \in Tasks
    BY <1>2, <1>5 DEF AdmissionReply, IsAdmission
  <2>2. CacheKept
    BY <1>5, <2>1, ResultGrows DEF AdmissionReply, OnceInv, CacheKept
  <2>3. IsAdmission(admission') /\ ~admission'.working /\ files' = files
    BY <1>5 DEF AdmissionReply, IsAdmission
  <2> QED
    BY <1>1, <1>2, <2>2, <2>3, RestingStep
<1> QED
  BY <1>3, <1>4, <1>5

LEMMA OnceStep ==
    ASSUME DrainInv, OnceInv, [AgentNext]_agentVars
    PROVE  OnceInv'
<1>1. CASE UNCHANGED agentVars \/ OpenUpdate \/ CloseUpdate \/ DrainCall \/ DrainLock \/ DrainCheck \/ DrainGivesUp
           \/ Reconnect \/ (\E b \in BOOLEAN : EventEnter(b)) \/ (\E how \in {"exit0", "exit1"} : ProcessExits(how))
  <2>1. UNCHANGED <<recent, next, evicted, started, rpc, thread, cmd, admission, files>>
    BY <1>1 DEF agentVars, OpenUpdate, CloseUpdate, DrainCall, DrainLock, DrainCheck, DrainGivesUp, Reconnect, EventEnter,
       ProcessExits, cache, cmdVars, hist
  <2> QED
    BY <2>1, RestingStep DEF OnceInv, WorkTyped, CacheKept
<1>2. CASE \E t \in Tasks : Announce(t) \/ Receive(t)
  BY <1>2, ReceiveKeepsOnce
<1>3. CASE Handler
  BY <1>3, LookupKeepsOnce, DispatchKeepsOnce, GuardKeepsOnce, StartKeepsOnce DEF Handler
<1>4. CASE CommandWorker
  BY <1>4, WorkerKeepsOnce
<1>5. CASE EventLeave \/ Lose \/ LinkLost \/ Stop \/ Exit
  <2>1. UNCHANGED <<recent, next, evicted, started, admission>> /\ files' \in {files, None}
    BY <1>5 DEF EventLeave, Lose, LinkLost, Stop, Exit, cache, hist
  <2>2. IsCommand(cmd') /\ cmd'.task = cmd.task
    <3>1. cmd' = cmd \/ cmd' = [cmd EXCEPT !.cancel = "user"] \/ cmd' = [cmd EXCEPT !.protected = TRUE]
      BY <1>5 DEF EventLeave, Lose, LinkLost, Stop, Exit, cmdVars
    <3> QED
      BY <3>1, CommandKept
  <2>3. rpc' = rpc \/ rpc'.pc \in {"idle", "lost", "stopping", "joining", "exited"}
    BY <1>5 DEF EventLeave, Lose, LinkLost, Stop, Exit, HandlerIdle
  <2>4. thread' = thread \/ (thread \in Quiet /\ thread' = "none")
    BY <1>5 DEF EventLeave, Lose, LinkLost, Stop, Exit, cmdVars, WorkerAlive
  <2>5. CacheKept
    BY <2>1 DEF CacheKept
  <2> QED
    BY <2>1, <2>2, <2>3, <2>4, <2>5, RestingStep DEF OnceInv, WorkTyped, Quiet
<1>6. CASE AdmissionTake \/ FilesDone \/ \E a \in BOOLEAN : AdmissionReply(a)
  BY <1>6, AdmissionKeepsOnce
<1> QED
  BY <1>1, <1>2, <1>3, <1>4, <1>5, <1>6 DEF AgentNext

\* A task whose slot has not been displaced is started at most once, however often it is
\* announced and delivered, for any set of tasks and any size of the ring above one.
THEOREM RunOnceSafe == AgentSpec => []RunOnce
<1>1. OnceInv => RunOnce
  BY DEF OnceInv, Single, RunOnce
<1>2. DrainInv /\ [AgentNext]_agentVars => DrainInv'
  BY DrainStep
<1>3. DrainInv /\ OnceInv /\ [AgentNext]_agentVars => OnceInv'
  BY OnceStep
<1> QED
  BY <1>1, <1>2, <1>3, DrainInitial, OnceInitial, PTL DEF AgentSpec
=============================================================================
