---------------------------- MODULE MediaIngress ----------------------------
(***************************************************************************)
(* The publishers' side of the ingress server: L4RTP connections, the      *)
(* routes their frames follow, the reverse RTCP feedback queue and the     *)
(* binding of a camera connection to the route it was prepared for         *)
(* (l4media/ingress/src/l4media_ingress.c, with the parts of media_v2.h    *)
(* and media_lifecycle.h that touch clients).                              *)
(*                                                                         *)
(* One thread serves an epoll loop; every event looks its connection up    *)
(* again by epoch or RTCP generation, so a handler is one step on a        *)
(* connection that is there.  A frame is two bytes long: the shortest that *)
(* can be sent in part.  An RTP and an RTCP port go in pairs, one number.  *)
(***************************************************************************)
EXTENDS Naturals, Sequences, FiniteSets

CONSTANTS Sns, Ports,        \* serial numbers; port pairs of the sessions
          ManualPorts,       \* port pairs a caller of PUT /routes names
          Kinds,             \* which of "v1", "desktop" (v3), "camera" (v3) are started
          MaxRoutes, MaxClients, QueueFrames,
          MaxEpoch, MaxGen   \* bounds on connections and on session starts

None == 0
\* What the constants satisfy
ASSUME IngressAssumption == /\ Ports \cup ManualPorts \subseteq Nat \ {0} /\ Sns \subseteq Nat \ {0}
                            /\ {MaxRoutes, MaxClients, QueueFrames, MaxEpoch, MaxGen} \subseteq Nat \ {0}
                            /\ Kinds \subseteq {"v1", "desktop", "camera"}

VARIABLES clients,  \* g_clients: a function from the epochs of the open connections
          route,    \* g_routes: [Sns -> port or None]
          owner,    \* the live session of a serial number, or NoOwner
          epoch,    \* g_next_epoch
          gen,      \* g_route_generation
          out       \* the last frame handed to Janus (for the properties)

ingressVars == <<clients, route, owner, epoch, gen, out>>
Mem == [clients |-> clients, route |-> route, owner |-> owner]

\* bind is camera_route_generation, rtcp the port the feedback socket is
\* connected to.  tx holds the ports the queued frames came from, off and first
\* are tx_off and tx_first_end.  lim and held are the keyframe limiter; half and
\* keys are not in the code: bytes of an unfinished frame the terminal has seen,
\* and keyframe requests queued for it in one interval.
NewClient == [sn |-> None, bind |-> 0, revoked |-> FALSE, port |-> None, rtcp |-> None,
              tx |-> <<>>, off |-> 0, first |-> 0, lim |-> FALSE, held |-> FALSE, half |-> 0, keys |-> 0]
NoOwner == [kind |-> "none", gen |-> 0, port |-> None, min |-> 0, state |-> "none", due |-> FALSE, before |-> {}]

Without(m, e) == [m EXCEPT !.clients = [x \in DOMAIN m.clients \ {e} |-> m.clients[x]]]
Of(m, sn) == {e \in DOMAIN m.clients : m.clients[e].sn = sn}
V3(o) == o.kind \in {"desktop", "camera"}

Commit(m) == clients' = m.clients /\ route' = m.route /\ owner' = m.owner

-----------------------------------------------------------------------------
(* Feedback queue and targets.                                             *)

\* A started frame is completed; tx_first_end also marks the frame the last send
\* stopped in front of.
reset_feedback(c) ==
    LET d == [c EXCEPT !.lim = FALSE, !.held = FALSE, !.rtcp = None]
    IN  IF c.off # 0 /\ c.off < c.first
        THEN [d EXCEPT !.tx = SubSeq(c.tx, 1, c.first \div 2)]
        ELSE [d EXCEPT !.tx = <<>>, !.off = 0, !.first = 0]

\* A camera connection never follows its serial number to another route.
Retarget(c, port) ==
    LET d == reset_feedback(c)
    IN  IF c.bind # 0 \/ c.revoked THEN [d EXCEPT !.revoked = TRUE, !.port = None] ELSE [d EXCEPT !.port = port]

update_client_targets_for_sn(m, sn, port) ==
    [m EXCEPT !.clients = [e \in DOMAIN m.clients |->
        IF m.clients[e].sn = sn THEN Retarget(m.clients[e], port) ELSE m.clients[e]]]

RouteRoom(m, sn) == m.route[sn] # None \/ Cardinality({x \in Sns : m.route[x] # None}) < MaxRoutes
upsert_route(m, sn, port) == update_client_targets_for_sn([m EXCEPT !.route[sn] = port], sn, port)

delete_route(m, sn) ==
    IF m.route[sn] = None THEN m
    ELSE update_client_targets_for_sn([m EXCEPT !.route[sn] = None], sn, None)

\* stop_media_session as far as the clients and routes are concerned.
stop_media_session(m, sn) == [delete_route(m, sn) EXCEPT !.owner[sn] = NoOwner]

\* Expiry of a v3 session, asked at every frame; v1 leases are left to the sweep.
expire_session(m, sn) == IF m.owner[sn].due THEN stop_media_session(m, sn) ELSE m
ExpireV3(m, sn) == IF sn \in Sns /\ V3(m.owner[sn]) THEN expire_session(m, sn) ELSE m

\* The connection's route is still the one the live camera session prepared.
Bound(m, e) ==
    LET c == m.clients[e]
        o == m.owner[c.sn]
    IN  o.kind = "camera" /\ o.gen = c.bind /\ e >= o.min

\* camera_connection_current: the state it leaves (it may expire the session, and
\* it revokes) and whether the connection may go on.
Check(m, e) ==
    LET c == m.clients[e]
        a == ExpireV3(m, c.sn)
    IN  IF c.revoked \/ c.bind = 0 THEN m
        ELSE IF Bound(a, e) THEN a ELSE [a EXCEPT !.clients[e].revoked = TRUE]
camera_connection_current(m, e) == ~Check(m, e).clients[e].revoked

remove_ingress_client(m, e) == Without(m, e)

-----------------------------------------------------------------------------
(* Connections.                                                            *)

IngressInit ==
    /\ clients = [e \in {} |-> NewClient] /\ route = [s \in Sns |-> None]
    /\ owner = [s \in Sns |-> NoOwner] /\ epoch = 1 /\ gen = 0
    /\ out = [ok |-> TRUE, fresh |-> TRUE, due |-> FALSE]

add_ingress_client ==
    /\ epoch <= MaxEpoch /\ Cardinality(DOMAIN clients) < MaxClients
    /\ clients' = [e \in DOMAIN clients \cup {epoch} |-> IF e = epoch THEN NewClient ELSE clients[e]]
    /\ epoch' = epoch + 1 /\ UNCHANGED <<route, owner, gen, out>>

\* A socket accepted before the camera session was prepared.
TooOld(m, sn, e) == m.owner[sn].kind = "camera" /\ e < m.owner[sn].min

\* The first other connection of the serial number, in the order of the table.
Displace(m, sn, e) ==
    LET old == {x \in Of(m, sn) : x # e}
    IN  IF old = {} THEN m ELSE remove_ingress_client(m, CHOOSE x \in old : \A y \in old : x <= y)

Preamble(e, sn) ==
    /\ clients[e].sn = None
    /\ LET o == owner[sn]
           c == [clients[e] EXCEPT !.sn = sn, !.port = route[sn], !.lim = V3(o),
                                   !.bind = IF o.kind = "camera" THEN o.gen ELSE 0]
           m == IF TooOld(Mem, sn, e) THEN remove_ingress_client(Mem, e)
                ELSE [Displace(Mem, sn, e) EXCEPT !.clients[e] = c]
       IN  Commit(m)
    /\ UNCHANGED <<epoch, gen, out>>

\* A hang-up, a receive error, a bad preamble, an oversized or unknown framing.
Disconnect(e) ==
    /\ Commit(remove_ingress_client(IF clients[e].sn = None THEN Mem ELSE Check(Mem, e), e))
    /\ UNCHANGED <<epoch, gen, out>>

\* What every frame does before it is looked at.
Admit(m, e) == ExpireV3(Check(m, e), m.clients[e].sn)

\* process_ingress_data on one whole frame of an RTP connection.
RtpFrame(e) ==
    /\ clients[e].sn # None
    /\ LET m == Admit(Mem, e)
           c == m.clients[e]
           sn == c.sn
           o == m.owner[sn]
       IN  IF c.revoked THEN Commit(remove_ingress_client(m, e)) /\ UNCHANGED out
           ELSE IF c.port = None THEN Commit(m) /\ UNCHANGED out
           ELSE /\ Commit(IF V3(o) /\ o.state = "starting" THEN [m EXCEPT !.owner[sn].state = "active"] ELSE m)
                /\ out' = [ok |-> c.port = m.route[sn], fresh |-> e \notin o.before, due |-> V3(o) /\ o.due]
    /\ UNCHANGED <<epoch, gen>>

\* An RTCP frame opens the socket the feedback will come back on, or cannot.
RtcpFrame(e, opened) ==
    /\ clients[e].sn # None
    /\ LET m == Admit(Mem, e)
           c == m.clients[e]
       IN  IF c.revoked THEN Commit(remove_ingress_client(m, e))
           ELSE IF c.port = None \/ c.rtcp # None \/ ~opened THEN Commit(m)
           ELSE Commit([m EXCEPT !.clients[e].rtcp = c.port])
    /\ UNCHANGED <<epoch, gen, out>>

-----------------------------------------------------------------------------
(* Feedback.                                                               *)

\* k bytes of the queue go out before the socket would block.  The frame the
\* loop stopped in or in front of is marked in tx_first_end.
Sent(c, k) ==
    LET off == c.off + k
    IN  IF off = 2 * Len(c.tx) THEN [c EXCEPT !.tx = <<>>, !.off = 0, !.first = 0, !.half = (c.half + k) % 2]
        ELSE [c EXCEPT !.off = off, !.first = 2 * (off \div 2) + 2, !.half = (c.half + k) % 2]

flush_feedback(e, k) ==
    /\ clients[e].sn # None /\ clients[e].tx # <<>> /\ k <= 2 * Len(clients[e].tx) - clients[e].off
    /\ LET m == Check(Mem, e)
       IN  IF m.clients[e].revoked THEN Commit(remove_ingress_client(m, e))
           ELSE Commit([m EXCEPT !.clients[e] = Sent(@, k)])
    /\ UNCHANGED <<epoch, gen, out>>

\* A keyframe request is dropped within the interval after the last one.
coalesce_feedback(c, key) ==
    IF key /\ c.lim /\ c.held THEN c
    ELSE [c EXCEPT !.tx = Append(@, c.rtcp), !.held = @ \/ (key /\ c.lim),
                   !.keys = IF key /\ @ < 2 THEN @ + 1 ELSE @]

\* A full queue drops the packet.
Queue(c, key) == IF Len(c.tx) < QueueFrames THEN coalesce_feedback(c, key) ELSE c

receive_feedback(e, key, k) ==
    /\ clients[e].rtcp # None
    /\ LET m == Check(Mem, e)
           c == Queue(m.clients[e], key)
       IN  IF m.clients[e].revoked THEN k = 0 /\ Commit(remove_ingress_client(m, e))
           ELSE /\ k <= 2 * Len(c.tx) - c.off
                /\ Commit([m EXCEPT !.clients[e] = IF c.tx = <<>> THEN c ELSE Sent(c, k)])
    /\ UNCHANGED <<epoch, gen, out>>

\* keyframe_feedback_interval_ms have passed.
IntervalPasses(e) ==
    /\ clients[e].held \/ clients[e].keys > 0
    /\ clients' = [clients EXCEPT ![e].held = FALSE, ![e].keys = 0]
    /\ UNCHANGED <<route, owner, epoch, gen, out>>

-----------------------------------------------------------------------------
(* Sessions, routes and the loop.                                          *)

\* Mutant: the transports that are already there are kept.
media_revoke_camera_clients_Not(m, sn) == m

media_revoke_camera_clients(m, sn) ==
    [m EXCEPT !.clients = [e \in DOMAIN m.clients |->
        IF m.clients[e].sn = sn THEN [m.clients[e] EXCEPT !.revoked = TRUE] ELSE m.clients[e]]]

\* The end of a start: the transports of a camera are revoked before its route
\* is published; a v3 session turns the keyframe limiter of its publisher on.
StartSession(sn, kind, port) ==
    LET m == expire_session(Mem, sn)
        o == [kind |-> kind, gen |-> gen + 1, port |-> port, min |-> IF kind = "camera" THEN epoch ELSE 0,
              state |-> IF kind = "v1" THEN "active" ELSE "starting", due |-> FALSE,
              before |-> IF kind = "camera" THEN DOMAIN clients ELSE {}]
        a == IF kind = "camera" THEN media_revoke_camera_clients(m, sn) ELSE m
        b == [upsert_route(a, sn, port) EXCEPT !.owner[sn] = o]
    IN  /\ gen < MaxGen /\ m.owner[sn] = NoOwner
        /\ \A x \in Sns : m.route[x] # port /\ m.owner[x].port # port
        /\ IF ~RouteRoom(a, sn) THEN Commit(a)
           ELSE Commit([b EXCEPT !.clients = [e \in DOMAIN b.clients |->
                   IF b.clients[e].sn = sn THEN [b.clients[e] EXCEPT !.lim = kind # "v1", !.keys = 0]
                   ELSE b.clients[e]]])
        /\ gen' = gen + 1 /\ UNCHANGED <<epoch, out>>

StopSession(sn) == owner[sn] # NoOwner /\ Commit(stop_media_session(Mem, sn)) /\ UNCHANGED <<epoch, gen, out>>

LeaseEnds(sn) ==
    /\ owner[sn] # NoOwner /\ ~owner[sn].due /\ owner' = [owner EXCEPT ![sn].due = TRUE]
    /\ UNCHANGED <<clients, route, epoch, gen, out>>

\* PUT and DELETE /routes/<sn>.
PutRoute(sn, port) ==
    /\ IF RouteRoom(Mem, sn) THEN Commit(upsert_route(Mem, sn, port)) ELSE Commit(Mem)
    /\ UNCHANGED <<epoch, gen, out>>
DropRoute(sn) == route[sn] # None /\ Commit(delete_route(Mem, sn)) /\ UNCHANGED <<epoch, gen, out>>

\* The connections the loop closes: idle ones, and those whose route is gone.
Swept(idle) == {e \in DOMAIN clients : clients[e].sn # None /\ ~camera_connection_current(Mem, e)} \cup idle

\* The sweep: expire_media_session for every session of the table.  One session's stop touches
\* nothing of another's, so the order of the table does not matter.
ExpireAll(m) ==
    LET ended == {s \in Sns : m.owner[s].due}
        routed == {s \in ended : m.route[s] # None}
    IN  [clients |-> [e \in DOMAIN m.clients |->
            IF m.clients[e].sn \in routed THEN Retarget(m.clients[e], None) ELSE m.clients[e]],
         route |-> [s \in Sns |-> IF s \in ended THEN None ELSE m.route[s]],
         owner |-> [s \in Sns |-> IF s \in ended THEN NoOwner ELSE m.owner[s]]]

\* The head of the main loop: close, then expire every session.
MainLoop(idle) ==
    /\ Swept(idle) # {} \/ \E s \in Sns : owner[s].due
    /\ Commit(ExpireAll([Mem EXCEPT !.clients = [e \in DOMAIN clients \ Swept(idle) |-> clients[e]]]))
    /\ UNCHANGED <<epoch, gen, out>>

IngressNext ==
    \/ add_ingress_client
    \/ \E e \in DOMAIN clients :
          \/ \E sn \in Sns : Preamble(e, sn)
          \/ Disconnect(e) \/ RtpFrame(e) \/ IntervalPasses(e)
          \/ \E b \in BOOLEAN : RtcpFrame(e, b)
          \/ \E k \in 0 .. 2 * QueueFrames : flush_feedback(e, k)
          \/ \E key \in BOOLEAN, k \in 0 .. 2 * QueueFrames : receive_feedback(e, key, k)
    \/ \E sn \in Sns : StopSession(sn) \/ LeaseEnds(sn) \/ DropRoute(sn)
    \/ \E sn \in Sns, kind \in Kinds, p \in Ports : StartSession(sn, kind, p)
    \/ \E sn \in Sns, p \in ManualPorts : PutRoute(sn, p)
    \/ \E idle \in SUBSET DOMAIN clients : MainLoop(idle)

IngressSpec == IngressInit /\ [][IngressNext]_ingressVars

-----------------------------------------------------------------------------
(* Properties.                                                             *)

\* Types, with the queue's bound.
IngressTypeOK ==
    /\ DOMAIN clients \subseteq 1 .. MaxEpoch /\ epoch \in 1 .. MaxEpoch + 1 /\ gen \in 0 .. MaxGen
    /\ route \in [Sns -> Ports \cup ManualPorts \cup {None}]
    /\ \A e \in DOMAIN clients :
          LET c == clients[e] IN /\ Len(c.tx) <= QueueFrames /\ c.off \in 0 .. 2 * QueueFrames
                                 /\ c.first \in 0 .. 2 * QueueFrames /\ c.sn \in Sns \cup {None}

\* Every frame handed to Janus went to the route in force, came from a
\* connection made after the camera session was prepared, and came within a v3
\* lease: nothing buffered before a prepare is shown in the new session.
ForwardedRight == out.ok /\ out.fresh /\ ~out.due

=============================================================================
