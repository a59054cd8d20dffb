------------------------------- MODULE ConLink -------------------------------
(***************************************************************************)
(* The connection of the console agent (l4con): the serial number asked of *)
(* Leo4Proxy, the connect loop, the subscriptions and their deadlines, the *)
(* identity event, and the link probe by which an update controller has    *)
(* the agent prove a fresh exchange in both directions over the connection *)
(* it has now.                                                             *)
(*                                                                         *)
(* The MQTT thread sends probe messages outside probe_cs, so a step of the *)
(* probe is three (Tick, Send, AfterSend), between which the calling thread *)
(* may give up and the next call may begin. A nonce is its generation.     *)
(***************************************************************************)
EXTENDS Integers, FiniteSets

CONSTANTS
  ProbeTimeout,   \* a caller's budget
  SubackDeadline, \* 5 s in the code
  FrameTimeout,   \* 10 s in the code
  Snapshots,      \* identities and inventories the agent can report
  MaxConn, MaxLinkTime, MaxCalls, MaxFrames, MaxWork, MaxSnap   \* bounds

Topics == {"tsk", "rsp", "eva"}
NoProbe == [stage |-> "idle", deadline |-> 0, req |-> 0, rsp |-> 0, evt |-> 0, eva |-> 0]

VARIABLES
  pc, conn,                \* the MQTT thread; the number of its connection (the last one while it is down)
  ready, fmwait,           \* probe_ready; deadline of the fmc SUBACK, 0 when it has come
  probe, probeGen, outgoing,        \* state->probe, its generation, what the thread took out of the lock
  caller,                  \* probe_local_evidence in the probe server's thread
  replies,                 \* answers of the server on their way
  rx,                      \* the receive buffer
  work,                    \* connection on which the work in progress began, 0: none
  snapshot, last, certSent, due, \* identity now, last_snapshot, cert_event_sent, a new attempt is due
  told,                    \* connection on which the event was last sent (history)
  dropped,                 \* why the loop was left
  linkNow, calls, frames, works, snaps
world == <<calls, frames, works, snaps>>
probes == <<probe, probeGen, outgoing, caller>>
cert == <<snapshot, last, certSent, due, told>>
linkVars == <<pc, conn, ready, fmwait, probes, replies, rx, work, cert, dropped, linkNow, world>>

Stages == {"idle", "queued", "wait_rsp", "need_event", "wait_eva", "done", "failed"}
LinkTypeOK ==
  /\ pc \in {"resolve", "dial", "connack", "greet", "loop", "send", "after", "io", "lost"}
  /\ conn \in 0..MaxConn /\ ready \subseteq Topics /\ fmwait \in 0..(MaxLinkTime + SubackDeadline)
  /\ probe \in [stage : Stages, deadline : 0..(MaxLinkTime + ProbeTimeout),
                req : 0..MaxConn, rsp : 0..MaxConn, evt : 0..MaxConn, eva : 0..MaxConn]
  /\ probeGen \in 0..MaxCalls /\ outgoing \in [stage : Stages \cup {"none"}, gen : 0..MaxCalls, ok : BOOLEAN]
  /\ caller \in [pc : {"idle", "waiting", "ok", "error"}, gen : 0..MaxCalls]
  /\ replies \subseteq [kind : {"rsp", "eva"}, nonce : 1..MaxCalls, ok : BOOLEAN]
  /\ rx \in [partial : BOOLEAN, mark : 0..MaxLinkTime, began : 0..MaxLinkTime]
  /\ work \in 0..MaxConn /\ snapshot \in Snapshots /\ last \in Snapshots \cup {0}
  /\ told \in 0..MaxConn /\ certSent \in BOOLEAN /\ due \in BOOLEAN /\ dropped \in {"no", "socket", "suback", "frame", "early"}
  /\ linkNow \in 0..MaxLinkTime

Empty == [partial |-> FALSE, mark |-> 0, began |-> 0]
Nothing == [stage |-> "none", gen |-> 0, ok |-> TRUE]

LinkInit ==
  /\ pc = "resolve" /\ conn = 0 /\ ready = {} /\ fmwait = 0
  /\ probe = NoProbe /\ probeGen = 0 /\ outgoing = Nothing /\ caller = [pc |-> "idle", gen |-> 0]
  /\ replies = {} /\ rx = Empty /\ work = 0
  /\ snapshot \in Snapshots /\ last = 0 /\ certSent = FALSE /\ due = FALSE /\ told = 0
  /\ dropped = "no" /\ linkNow = 0 /\ calls = 0 /\ frames = 0 /\ works = 0 /\ snaps = 0

Connected == pc \in {"greet", "loop", "send", "after", "io"}

-----------------------------------------------------------------------------
(* The connect loop *)

\* config_query_sn_from_proxy: no answer, or no certificate there yet
AsksProxy == {"resolve", "dial"}
\* The serial number comes from Leo4Proxy; the thread waits for it without end
ResolveSn ==
  /\ pc = "resolve" /\ pc' \in AsksProxy
  /\ UNCHANGED <<conn, ready, fmwait, probes, replies, rx, work, cert, dropped, linkNow, world>>
\* socket_connect_bounded
Connects == {"connack", "dial"}
\* The address is resolved, the socket connected within 5 s and CONNECT sent; or the next attempt
Dial ==
  /\ pc = "dial" /\ conn < MaxConn /\ pc' \in Connects
  /\ UNCHANGED <<conn, ready, fmwait, probes, replies, rx, work, cert, dropped, linkNow, world>>
\* read_connack_v5 within 10 s, with reason 0
Connack(accepted) ==
  /\ pc = "connack"
  /\ IF accepted THEN /\ pc' = "greet" /\ conn' = conn + 1 /\ fmwait' = linkNow + SubackDeadline
                 ELSE pc' = "dial" /\ UNCHANGED <<conn, fmwait>>
  /\ UNCHANGED <<ready, probes, replies, rx, work, cert, dropped, linkNow, world>>

\* publish_certificate_connected_event: only when forced or changed, and kept only when it was sent
Report(force, sends) ==
  IF ~force /\ snapshot = last THEN certSent' = TRUE /\ UNCHANGED <<last, told>>
  ELSE /\ certSent' = sends /\ last' = (IF sends THEN snapshot ELSE last)
       /\ told' = IF sends THEN conn ELSE told
\* svc_online, the identity event and the four subscriptions
Greet ==
  /\ pc = "greet" /\ pc' = "loop"
  /\ \E sends \in BOOLEAN : Report(TRUE, sends)
  /\ rx' = Empty /\ dropped' = "no" /\ due' = FALSE
  /\ UNCHANGED <<conn, ready, fmwait, probes, replies, work, snapshot, linkNow, world>>

-----------------------------------------------------------------------------
(* The probe *)

\* link_probe_begin, called with all three subscriptions acknowledged
ProbeCall ==
  /\ caller.pc \in {"idle", "ok", "error"} /\ calls < MaxCalls /\ calls' = calls + 1
  /\ ready = Topics /\ probe.stage \in {"idle", "done", "failed"}
  /\ probeGen' = probeGen + 1 /\ caller' = [pc |-> "waiting", gen |-> probeGen + 1]
  /\ probe' = [NoProbe EXCEPT !.stage = "queued", !.deadline = linkNow + ProbeTimeout]
  /\ UNCHANGED <<pc, conn, ready, fmwait, outgoing, replies, rx, work, cert, dropped, linkNow, frames, works, snaps>>

CallerSees == IF probeGen # caller.gen THEN "failed" ELSE probe.stage
\* probe_local_evidence looks every 25 ms; at its deadline, or cancelled, it fails the probe itself
ProbePoll(cancelled) ==
  /\ caller.pc = "waiting"
  /\ CASE CallerSees = "done" -> caller' = [caller EXCEPT !.pc = "ok"] /\ UNCHANGED probe
       [] CallerSees = "failed" -> caller' = [caller EXCEPT !.pc = "error"] /\ UNCHANGED probe
       [] OTHER -> /\ cancelled \/ linkNow >= probe.deadline
                   /\ caller' = [caller EXCEPT !.pc = "error"] /\ probe' = [probe EXCEPT !.stage = "failed"]
  /\ UNCHANGED <<pc, conn, ready, fmwait, probeGen, outgoing, replies, rx, work, cert, dropped, linkNow, world>>

Underway(p) == p.stage \notin {"idle", "done", "failed"}
\* The deadline, or work that still uses a connection before a message is to be sent
Blocked(p) == Underway(p) /\ (linkNow >= p.deadline \/ (p.stage \in {"queued", "need_event"} /\ work # 0))
\* probe_tick under the lock: what is to be sent
Tick ==
  /\ pc = "loop"
  /\ LET p == IF Blocked(probe) THEN [probe EXCEPT !.stage = "failed"] ELSE probe
     IN  /\ probe' = IF p.stage = "queued" THEN [p EXCEPT !.stage = "wait_rsp", !.req = conn] ELSE p
         /\ outgoing' = IF p.stage \in {"queued", "need_event"} THEN [stage |-> p.stage, gen |-> probeGen, ok |-> TRUE] ELSE Nothing
         /\ pc' = IF p.stage \in {"queued", "need_event"} THEN "send" ELSE "io"
  /\ UNCHANGED <<conn, ready, fmwait, probeGen, caller, replies, rx, work, cert, dropped, linkNow, world>>
\* The request, or the event, goes out; the server answers some time, with success or an error
Send(ok) ==
  /\ pc = "send" /\ pc' = "after" /\ outgoing' = [outgoing EXCEPT !.ok = ok]
  /\ probe' = IF outgoing.stage = "need_event" /\ outgoing.gen = probeGen /\ probe.stage = "need_event"
              THEN [probe EXCEPT !.evt = conn] ELSE probe
  /\ \E answer \in BOOLEAN :
       replies' = IF ok THEN replies \cup {[kind |-> IF outgoing.stage = "queued" THEN "rsp" ELSE "eva", nonce |-> outgoing.gen, ok |-> answer]}
                  ELSE replies
  /\ UNCHANGED <<conn, ready, fmwait, probeGen, caller, rx, work, cert, dropped, linkNow, world>>
StillOurs == outgoing.gen = probeGen
AfterSend ==
  /\ pc = "after" /\ pc' = "io" /\ outgoing' = Nothing
  /\ probe' = IF ~(StillOurs /\ probe.stage # "failed") THEN probe
              ELSE IF ~outgoing.ok THEN [probe EXCEPT !.stage = "failed"]
              ELSE IF outgoing.stage = "need_event" THEN [probe EXCEPT !.stage = "wait_eva"] ELSE probe
  /\ UNCHANGED <<conn, ready, fmwait, probeGen, caller, replies, rx, work, cert, dropped, linkNow, world>>

\* link_probe_rsp and link_probe_eva: the stage, the deadline and the nonce must agree
Answers(r, stage) == probe.stage = stage /\ linkNow < probe.deadline /\ r.nonce = probeGen
ReceiveRsp(r) ==
  /\ pc = "io" /\ r \in replies /\ r.kind = "rsp" /\ replies' = replies \ {r}
  /\ probe' = IF ~Answers(r, "wait_rsp") THEN probe
              ELSE IF r.ok THEN [probe EXCEPT !.stage = "need_event", !.rsp = conn]
              ELSE [probe EXCEPT !.stage = "failed"]
  /\ UNCHANGED <<pc, conn, ready, fmwait, probeGen, outgoing, caller, rx, work, cert, dropped, linkNow, world>>
ReceiveEva(r) ==
  /\ pc = "io" /\ r \in replies /\ r.kind = "eva" /\ replies' = replies \ {r}
  /\ probe' = IF ~Answers(r, "wait_eva") THEN probe
              ELSE IF r.ok THEN [probe EXCEPT !.stage = "done", !.eva = conn]
              ELSE [probe EXCEPT !.stage = "failed"]
  /\ UNCHANGED <<pc, conn, ready, fmwait, probeGen, outgoing, caller, rx, work, cert, dropped, linkNow, world>>

-----------------------------------------------------------------------------
(* The rest of the loop *)

\* A SUBACK for one of this connection's subscriptions
Suback(t) ==
  /\ pc = "io" /\ t \in Topics \ ready /\ ready' = ready \cup {t}
  /\ UNCHANGED <<pc, conn, fmwait, probes, replies, rx, work, cert, dropped, linkNow, world>>
FmSuback ==
  /\ pc = "io" /\ fmwait # 0 /\ fmwait' = 0
  /\ UNCHANGED <<pc, conn, ready, probes, replies, rx, work, cert, dropped, linkNow, world>>

\* Bytes arrive: frame_started is only set when the buffer was empty; what is complete is consumed.
\* "began" is when the packet that is incomplete now really began
Bytes(whole, more) ==
  /\ pc = "io" /\ frames < MaxFrames /\ frames' = frames + 1
  /\ whole \/ more
  /\ rx' = IF ~more THEN Empty
           ELSE [partial |-> TRUE, mark |-> IF rx.partial THEN rx.mark ELSE linkNow,
                 began |-> IF rx.partial /\ ~whole THEN rx.began ELSE linkNow]
  /\ UNCHANGED <<pc, conn, ready, fmwait, probes, replies, work, cert, dropped, linkNow, calls, works, snaps>>

\* The periodic attempt at the identity event
CertAttempt ==
  /\ pc = "io" /\ due /\ due' = FALSE /\ \E sends \in BOOLEAN : Report(FALSE, sends)
  /\ UNCHANGED <<pc, conn, ready, fmwait, probes, replies, rx, work, snapshot, dropped, linkNow, world>>
\* End of a turn; a quarter or a whole minute may have passed
Turn ==
  /\ pc = "io" /\ ~due /\ pc' = "loop" /\ due' \in BOOLEAN
  /\ UNCHANGED <<conn, ready, fmwait, probes, replies, rx, work, snapshot, last, certSent, told, dropped, linkNow, world>>

\* The tests before select()
SubackLate == fmwait # 0 /\ linkNow >= fmwait
FrameLate == rx.partial /\ linkNow - rx.mark >= FrameTimeout
Leave(why) ==
  /\ pc \in {"loop", "io"} /\ pc' = "lost" /\ dropped' = why
  /\ UNCHANGED <<conn, ready, fmwait, probes, replies, rx, work, cert, linkNow, world>>
Break == \/ SubackLate /\ Leave("suback")
         \/ FrameLate /\ Leave(IF linkNow - rx.began >= FrameTimeout THEN "frame" ELSE "early")
         \/ Leave("socket")

\* Mutant: the disconnect leaves the probe alone
ProbeDisconnect_Keep == UNCHANGED probe /\ ready' = {}
\* probe_disconnect
ProbeDisconnect ==
  /\ ready' = {}
  /\ probe' = IF probe.stage \notin {"idle", "done"} THEN [probe EXCEPT !.stage = "failed"] ELSE probe
Lost ==
  /\ pc = "lost" /\ pc' = "dial" /\ ProbeDisconnect
  /\ fmwait' = 0 /\ rx' = Empty /\ due' = FALSE
  /\ UNCHANGED <<conn, probeGen, outgoing, caller, replies, work, snapshot, last, certSent, told, dropped, linkNow, world>>

\* Commands and transfers begin on a connection and may outlive it
WorkBegins ==
  /\ Connected /\ work = 0 /\ works < MaxWork /\ works' = works + 1 /\ work' = conn
  /\ UNCHANGED <<pc, conn, ready, fmwait, probes, replies, rx, cert, dropped, linkNow, calls, frames, snaps>>
WorkEnds ==
  /\ work # 0 /\ work' = 0
  /\ UNCHANGED <<pc, conn, ready, fmwait, probes, replies, rx, cert, dropped, linkNow, world>>
IdentityChanges ==
  /\ snaps < MaxSnap /\ snaps' = snaps + 1 /\ snapshot' \in Snapshots \ {snapshot}
  /\ UNCHANGED <<pc, conn, ready, fmwait, probes, replies, rx, work, last, certSent, due, told, dropped, linkNow, calls, frames, works>>
LinkTock ==
  /\ linkNow < MaxLinkTime /\ linkNow' = linkNow + 1
  /\ UNCHANGED <<pc, conn, ready, fmwait, probes, replies, rx, work, cert, dropped, world>>

LinkNext ==
  \/ ResolveSn \/ Dial \/ (\E a \in BOOLEAN : Connack(a)) \/ Greet
  \/ ProbeCall \/ (\E c \in BOOLEAN : ProbePoll(c)) \/ Tick \/ (\E ok \in BOOLEAN : Send(ok)) \/ AfterSend
  \/ (\E r \in replies : ReceiveRsp(r) \/ ReceiveEva(r))
  \/ (\E t \in Topics : Suback(t)) \/ FmSuback \/ (\E w, m \in BOOLEAN : Bytes(w, m))
  \/ CertAttempt \/ Turn \/ Break \/ Lost
  \/ WorkBegins \/ WorkEnds \/ IdentityChanges \/ LinkTock
LinkSpec == LinkInit /\ [][LinkNext]_linkVars

-----------------------------------------------------------------------------
(* Properties *)

\* The evidence of a finished probe was gathered over one connection: the request, its answer, the
\* event and its acknowledgement (probe_disconnect, link_probe_rsp, link_probe_eva)
OneConnection ==
  probe.stage = "done" => probe.req # 0 /\ probe.rsp = probe.req /\ probe.evt = probe.req /\ probe.eva = probe.req

=============================================================================
