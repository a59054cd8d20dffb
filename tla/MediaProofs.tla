---------------------------- MODULE MediaProofs ----------------------------
(***************************************************************************)
(* The media server, proved for every value of the constants: the deadline *)
(* of a camera lease, the frames of the publishers, and the routes of the  *)
(* on-demand sessions.                                                     *)
(***************************************************************************)
EXTENDS MediaDeadline, MediaIngress, MediaSessions, FiniteSetTheorems, WellFoundedInduction, TLAPS

-----------------------------------------------------------------------------
(***************************************************************************)
(* A camera lease never outlives its grant, for every bound on leases,     *)
(* time and restarts and every set of clock errors.                        *)
(*                                                                         *)
(* The grant must also hold for the record in Redis, which may be older    *)
(* than the session (a lost save) and is what a restart goes by: of this   *)
(* boot it never promises more than was granted (Recorded).                *)
(***************************************************************************)

\* What the record in Redis is to the session of a running server.
Recorded == /\ boot.at <= t /\ rec.boot <= boot.id
            /\ rec.s.state # "none" \/ rec = NoRec
            /\ s.state = "none" => s = NoSession
            /\ ~up => s = NoSession
            /\ up /\ rec # NoRec => s # NoSession /\ rec.s.camera = s.camera
            /\ Live(rec.s) /\ rec.s.camera /\ rec.boot = boot.id =>
                  boot.at + 2 * rec.s.deadline <= end

IInv == TypeOK /\ Recorded /\ WithinGrant

USE DeadlineAssumption

\* A time of day is rounded up, a monotonic sample down.
LEMMA Rounding ==
    ASSUME NEW x \in Nat
    PROVE  /\ x \div 2 \in Nat /\ 2 * (x \div 2) <= x
           /\ (x + 1) \div 2 \in Nat /\ 2 * ((x + 1) \div 2) >= x
  OBVIOUS

\* A lease as the server receives it ends no later than the issuer meant, however
\* long the second sample took.
LEMMA Receipt ==
    ASSUME TypeOK, boot.at <= t, NEW e \in 1 .. MaxExpiry, NEW d \in 0 .. 1, Receivable(e, d)
    PROVE  /\ media_v3_receipt_deadline(e, d) \in Nat
           /\ boot.at + 2 * media_v3_receipt_deadline(e, d) <= GrantedUntil(e)
           /\ GrantedUntil(e) \in Nat
<1> DEFINE m == Mono(t)
           r == media_realtime_receipt_ms(t + d)
<1>1. t \in Nat /\ skew \in Nat /\ boot.at \in Nat BY DEF TypeOK
<1>2. m \in Nat /\ 2 * m <= t - boot.at
  <2>1. t - boot.at \in Nat BY <1>1
  <2> QED BY <2>1, Rounding DEF Mono
<1>3. r \in Nat /\ 2 * r >= t + d + skew
  <2>1. t + d + skew \in Nat BY <1>1
  <2> QED BY <2>1, Rounding DEF media_realtime_receipt_ms
<1>4. e > r BY DEF Receivable
<1>5. media_v3_receipt_deadline(e, d) = m + (e - r) BY DEF media_v3_receipt_deadline
<1> HIDE DEF m, r
<1> QED BY <1>1, <1>2, <1>3, <1>4, <1>5 DEF GrantedUntil

\* A renewal changes two fields of a lease.
LEMMA Changed ==
    ASSUME NEW x \in Leases, NEW e \in 1 .. MaxExpiry, NEW dl \in Nat
    PROVE  [x EXCEPT !.issuer = e, !.deadline = dl] \in Leases
<1>1. e \in 0 .. MaxExpiry OBVIOUS
<1> QED BY <1>1, Zenon DEF Leases

\* The initial state satisfies the inductive invariant.
LEMMA InitIInv == Init => IInv
<1> SUFFICES ASSUME Init PROVE IInv
  OBVIOUS
<1> USE DEF Init, NoSession, NoRec
<1>1. NoSession \in Leases BY DEF Leases, States
<1>2. TypeOK
  <2>1. boot \in [id : Nat, at : 0 .. MaxT] /\ rec \in [s : Leases, boot : Nat] BY <1>1
  <2>2. fault \in BOOLEAN /\ failed \in BOOLEAN /\ up \in BOOLEAN /\ redis \in BOOLEAN
    OBVIOUS
  <2> QED BY <1>1, <2>1, <2>2 DEF TypeOK
<1>3. Recorded /\ WithinGrant BY DEF Recorded, WithinGrant, Live
<1> QED BY <1>2, <1>3 DEF IInv

\* Every request, sweep, restart, jump or fault keeps it.
LEMMA StepIInv == IInv /\ [Next]_vars => IInv'
<1> SUFFICES ASSUME IInv, [Next]_vars PROVE IInv'
  OBVIOUS
<1> USE DEF IInv, TypeOK, Recorded, WithinGrant, Live, NoSession, NoRec, Leases, States
<1>1. ASSUME NEW c \in BOOLEAN, NEW e \in 1 .. MaxExpiry, NEW d \in 0 .. 1, Start(c, e, d)
      PROVE IInv'
  <2>1. CASE s = NoSession
    BY <1>1, <2>1, Receipt DEF Start, Persist, Sampled
  <2>2. CASE s # NoSession
    BY <1>1, <2>2 DEF Start, Persist, Sampled, expire_media_session
  <2> QED BY <2>1, <2>2
<1>2. ASSUME NEW e \in 1 .. MaxExpiry, NEW d \in 0 .. 1, Renew(e, d) PROVE IInv'
  <2> DEFINE x == expire_media_session(t)
             y == media_v3_renew_deadline(x, e, d)
  <2>1. x \in Leases /\ x.camera = s.camera /\ (Live(x) => x = s) /\ x # NoSession
    BY <1>2 DEF Renew, expire_media_session
  <2>2. CASE Live(x) /\ media_monotonic_ms /\ Renewable(x, e, d)
    <3>1. x = s BY <2>1, <2>2
    <3>2. /\ y \in Leases /\ y.camera = s.camera
          /\ y.issuer = s.issuer => y.deadline = s.deadline
          /\ s.camera /\ y.issuer # s.issuer =>
                e > s.issuer /\ y.deadline = s.deadline + (e - s.issuer)
          /\ ~s.camera /\ y.issuer # s.issuer => GrantedUntil(e) \in Nat
      <4>1. CASE e = s.issuer \/ (s.camera /\ e < s.issuer)
        BY <3>1, <4>1 DEF media_v3_renew_deadline
      <4>2. CASE s.camera /\ e > s.issuer
        <5>1. y = [s EXCEPT !.issuer = e, !.deadline = s.deadline + (e - s.issuer)]
          BY <3>1, <4>2 DEF media_v3_renew_deadline, Camera
        <5>2. s.deadline + (e - s.issuer) \in Nat BY <4>2
        <5> HIDE DEF y
        <5>3. y.camera = s.camera /\ y.issuer = e /\ y.deadline = s.deadline + (e - s.issuer)
          BY <5>1
        <5>4. y \in Leases BY <5>1, <5>2, Changed
        <5> QED BY <4>2, <5>3, <5>4
      <4>3. CASE ~s.camera /\ e # s.issuer
        <5>1. y = [s EXCEPT !.issuer = e, !.deadline = media_v3_receipt_deadline(e, d)]
          BY <3>1, <4>3 DEF media_v3_renew_deadline
        <5>2. Receivable(e, d) BY <2>2, <3>1, <4>3 DEF Renewable
        <5>3. media_v3_receipt_deadline(e, d) \in Nat /\ GrantedUntil(e) \in Nat
          BY <5>2, Receipt
        <5> HIDE DEF y
        <5>4. y.camera = s.camera /\ y.issuer = e BY <5>1
        <5>5. y \in Leases BY <5>1, <5>3, Changed
        <5> QED BY <4>3, <5>3, <5>4, <5>5
      <4> QED BY <4>1, <4>2, <4>3
    <3>3. /\ s' = [y EXCEPT !.state = "active"] /\ Persist(s') /\ Sampled /\ t' = t + d
          /\ end' = IF y.issuer = s.issuer THEN end
                    ELSE IF s.camera THEN end + 2 * (e - s.issuer) ELSE GrantedUntil(e)
          /\ UNCHANGED <<skew, boot, fault, up, redis, boots>> /\ t + d <= MaxT /\ up
      BY <1>2, <2>2, <3>1 DEF Renew
    <3> HIDE DEF x, y
    <3>4. /\ s' \in Leases /\ end' \in Nat /\ s'.camera = s.camera
          /\ s'.state = "active" /\ s'.deadline = y.deadline
      BY <3>2, <3>3
    <3>5. s.camera => /\ boot.at + 2 * s'.deadline <= end'
                      /\ end <= end'
      BY <2>1, <2>2, <3>1, <3>2, <3>3, <3>4
    <3>6. rec' = [s |-> s', boot |-> boot.id] \/ rec' = rec BY <3>3 DEF Persist
    <3>7. failed' \in BOOLEAN BY <3>3 DEF Sampled
    <3> QED BY <3>1, <3>3, <3>4, <3>5, <3>6, <3>7
  <2>3. CASE ~(Live(x) /\ media_monotonic_ms /\ Renewable(x, e, d))
    <3>1. /\ s' = x /\ Sampled /\ t' = t + d /\ t + d <= MaxT /\ up
          /\ UNCHANGED <<end, skew, boot, fault, up, redis, boots>>
          /\ IF x # s THEN Persist(x) ELSE rec' = rec
      BY <1>2, <2>3 DEF Renew
    <3>2. (rec' = [s |-> x, boot |-> boot.id] /\ ~Live(x)) \/ rec' = rec
      BY <2>1, <3>1 DEF Persist
    <3>3. x.state # "none" BY <1>2 DEF Renew, expire_media_session
    <3>4. failed' \in BOOLEAN BY <3>1 DEF Sampled
    <3> HIDE DEF x
    <3> QED BY <2>1, <3>1, <3>2, <3>3, <3>4
  <2> QED BY <2>2, <2>3
<1>3. CASE Sweep \/ Stop
  <2>1. /\ s' = [s EXCEPT !.state = "stopped"] /\ Persist(s') /\ Sampled /\ up
        /\ UNCHANGED <<t, skew, boot, fault, up, redis, end, boots>>
    BY <1>3 DEF Sweep, Stop, expire_media_session
  <2>2. s' \in Leases /\ s'.state = "stopped" /\ s'.camera = s.camera BY <2>1
  <2>3. rec' = [s |-> s', boot |-> boot.id] \/ rec' = rec BY <2>1 DEF Persist
  <2>4. failed' \in BOOLEAN BY <2>1 DEF Sampled
  <2> QED BY <2>1, <2>2, <2>3, <2>4
<1>5. CASE Crash
  <2>1. s' \in Leases BY <1>5 DEF Crash
  <2>2. up' \in BOOLEAN /\ failed' \in BOOLEAN BY <1>5 DEF Crash
  <2> QED BY <1>5, <2>1, <2>2 DEF Crash
<1>6. CASE Reboot BY <1>6 DEF Reboot
<1>7. CASE Restore BY <1>7 DEF Restore, Anchored, Sampled
<1>8. CASE Tick BY <1>8 DEF Tick
<1>9. CASE Jump BY <1>9 DEF Jump
<1>10. CASE ClockFault \/ RedisLost
  <2>1. fault' \in BOOLEAN /\ redis' \in BOOLEAN BY <1>10 DEF ClockFault, RedisLost
  <2>2. UNCHANGED <<t, skew, boot, failed, up, s, rec, end, boots>>
    BY <1>10 DEF ClockFault, RedisLost
  <2> QED BY <2>1, <2>2
<1>11. CASE UNCHANGED vars BY <1>11 DEF vars
<1> QED
  BY <1>1, <1>2, <1>3, <1>5, <1>6, <1>7, <1>8, <1>9, <1>10, <1>11 DEF Next

\* The inductive invariant holds throughout.
LEMMA Inductive == Spec => []IInv
<1> QED BY InitIInv, StepIInv, PTL DEF Spec

\* Every variable stays in its set; in particular no deadline is before its boot.
THEOREM TypeCorrect == Spec => []TypeOK
<1>1. IInv => TypeOK BY DEF IInv
<1> QED BY <1>1, Inductive, PTL

\* No camera lease runs longer than granted, whatever the clocks and restarts did.
THEOREM GrantSafe == Spec => []WithinGrant
<1>1. IInv => WithinGrant BY DEF IInv
<1> QED BY <1>1, Inductive, PTL

-----------------------------------------------------------------------------
(***************************************************************************)
(* Every frame handed to Janus goes to the route in force and comes from a *)
(* connection that is younger than the session and within its lease, for   *)
(* every set of serial numbers and ports and every bound.                  *)
(*                                                                         *)
(* The property is about the last frame; what carries it is a fact about   *)
(* every connection: one that is not revoked has the port its serial       *)
(* number is routed to, and is none of those a camera session found when   *)
(* it was prepared.  The second holds for a connection that has not named  *)
(* its serial number yet only because its epoch is below the session's     *)
(* minimum (Prepared), which is what Preamble compares.                    *)
(***************************************************************************)

IsClient(c) ==
  c \in [sn : Sns \cup {None}, bind : {c.bind}, revoked : BOOLEAN, port : {c.port}, rtcp : {c.rtcp},
         tx : {c.tx}, off : {c.off}, first : {c.first}, lim : {c.lim}, held : {c.held}, half : {c.half},
         keys : {c.keys}]
IsOwner(o) ==
  o \in [kind : {o.kind}, gen : {o.gen}, port : {o.port}, min : Nat, state : {o.state}, due : BOOLEAN,
         before : SUBSET Nat]

\* A camera session knows the connections it found by their epochs
Prepared(o) == IF o.kind = "camera" THEN \A x \in o.before : x < o.min ELSE o.before = {}

\* The connections, routes and sessions agree; n is the next epoch
Agree(C, R, O, n) ==
  /\ C = [e \in DOMAIN C |-> C[e]] /\ R = [v \in Sns |-> R[v]] /\ O = [v \in Sns |-> O[v]]
  /\ \A e \in DOMAIN C : e \in Nat /\ e < n /\ IsClient(C[e])
  /\ \A e \in DOMAIN C : C[e].sn # None /\ ~C[e].revoked => C[e].port = R[C[e].sn] /\ e \notin O[C[e].sn].before
  /\ \A v \in Sns : IsOwner(O[v]) /\ Prepared(O[v])

IsTable(m) == m \in [clients : {m.clients}, route : {m.route}, owner : {m.owner}]
Sane(m, n) == IsTable(m) /\ Agree(m.clients, m.route, m.owner, n)

IngressInv == epoch \in Nat /\ Agree(clients, route, owner, epoch) /\ ForwardedRight

-----------------------------------------------------------------------------
(* What the steps do to the three tables.                                  *)

LEMMA NoneIsNone == None \notin Sns
BY IngressAssumption DEF None

\* Connections go, are revoked, or change where the argument does not look
LEMMA Fewer ==
    ASSUME NEW C, NEW R, NEW O, NEW n, Agree(C, R, O, n), NEW D, D = [e \in DOMAIN D |-> D[e]],
           DOMAIN D \subseteq DOMAIN C,
           \A e \in DOMAIN D : /\ IsClient(D[e]) /\ D[e].sn = C[e].sn
                               /\ ~D[e].revoked => ~C[e].revoked /\ D[e].port = C[e].port
    PROVE  Agree(D, R, O, n)
BY DEF Agree

\* A connection is told of another route
LEMMA Retargeted ==
    ASSUME NEW c, IsClient(c), NEW p
    PROVE  /\ IsClient(Retarget(c, p)) /\ Retarget(c, p).sn = c.sn
           /\ ~Retarget(c, p).revoked => ~c.revoked /\ Retarget(c, p).port = p
<1>1. PICK d : d = reset_feedback(c) OBVIOUS
<1>2. IsClient(d) /\ d.sn = c.sn /\ d.revoked = c.revoked
  <2>1. PICK a : a = [c EXCEPT !.lim = FALSE, !.held = FALSE, !.rtcp = None] OBVIOUS
  <2>2. IsClient(a) /\ a.sn = c.sn /\ a.revoked = c.revoked BY <2>1 DEF IsClient
  <2>3. d = [a EXCEPT !.tx = SubSeq(c.tx, 1, c.first \div 2)] \/ d = [a EXCEPT !.tx = <<>>, !.off = 0, !.first = 0]
    BY <1>1, <2>1 DEF reset_feedback
  <2>4. ASSUME NEW w, d = [a EXCEPT !.tx = w] PROVE IsClient(d) /\ d.sn = c.sn /\ d.revoked = c.revoked
    BY <2>2, <2>4 DEF IsClient
  <2>5. CASE d = [a EXCEPT !.tx = <<>>, !.off = 0, !.first = 0] BY <2>2, <2>5 DEF IsClient
  <2> QED BY <2>3, <2>4, <2>5
<1>3. PICK r : r = Retarget(c, p) OBVIOUS
<1>4. CASE c.bind # 0 \/ c.revoked
  <2>1. r = [d EXCEPT !.revoked = TRUE, !.port = None] BY <1>1, <1>3, <1>4 DEF Retarget
  <2> QED BY <1>2, <1>3, <2>1, ZenonT(60) DEF IsClient
<1>5. CASE ~(c.bind # 0 \/ c.revoked)
  <2>1. r = [d EXCEPT !.port = p] BY <1>1, <1>3, <1>5 DEF Retarget
  <2> QED BY <1>2, <1>3, <1>5, <2>1 DEF IsClient
<1> QED BY <1>4, <1>5

\* The routes of some serial numbers change and their connections are told
LEMMA Rerouted ==
    ASSUME NEW C, NEW R, NEW O, NEW n, Agree(C, R, O, n), NEW S \in SUBSET Sns, NEW p, NEW D, NEW Q,
           D = [e \in DOMAIN D |-> D[e]], DOMAIN D = DOMAIN C, Q = [v \in Sns |-> Q[v]],
           \A e \in DOMAIN C : D[e] = IF C[e].sn \in S THEN Retarget(C[e], p) ELSE C[e],
           \A v \in Sns : Q[v] = IF v \in S THEN p ELSE R[v]
    PROVE  Agree(D, Q, O, n)
<1>1. \A e \in DOMAIN C : IsClient(C[e]) BY DEF Agree
<1>2. ASSUME NEW e \in DOMAIN C
      PROVE  /\ IsClient(D[e]) /\ D[e].sn = C[e].sn
             /\ ~D[e].revoked => ~C[e].revoked
             /\ ~D[e].revoked /\ C[e].sn \in S => D[e].port = p
             /\ C[e].sn \notin S => D[e].port = C[e].port
  BY <1>1, Retargeted
<1>3. \A e \in DOMAIN C : C[e].sn \in Sns \cup {None} BY <1>1 DEF IsClient
<1>4. ASSUME NEW e \in DOMAIN D, D[e].sn # None, ~D[e].revoked
      PROVE  D[e].port = Q[D[e].sn] /\ e \notin O[D[e].sn].before
  <2>1. e \in DOMAIN C /\ C[e].sn = D[e].sn /\ C[e].sn \in Sns /\ ~C[e].revoked BY <1>2, <1>3, <1>4
  <2>2. C[e].port = R[C[e].sn] /\ e \notin O[C[e].sn].before BY <2>1, <1>4 DEF Agree
  <2>3. D[e].port = Q[D[e].sn] BY <1>2, <1>4, <2>1, <2>2
  <2> QED BY <2>1, <2>2, <2>3
<1>5. DOMAIN D = DOMAIN C /\ D = [e \in DOMAIN D |-> D[e]] /\ Q = [v \in Sns |-> Q[v]]
  OBVIOUS
<1>6. O = [v \in Sns |-> O[v]] /\ (\A v \in Sns : IsOwner(O[v]) /\ Prepared(O[v]))
      /\ \A e \in DOMAIN D : e \in Nat /\ e < n
  BY <1>5 DEF Agree
<1>7. \A e \in DOMAIN D : IsClient(D[e]) BY <1>2, <1>5
<1> QED BY <1>4, <1>5, <1>6, <1>7 DEF Agree

\* The sessions of some serial numbers change and are not younger than their connections
LEMMA Reowned ==
    ASSUME NEW C, NEW R, NEW O, NEW n, Agree(C, R, O, n), NEW P, P = [v \in Sns |-> P[v]],
           \A v \in Sns : /\ IsOwner(P[v]) /\ Prepared(P[v])
                          /\ \/ P[v].before \subseteq O[v].before
                             \/ \A e \in DOMAIN C : C[e].sn = v => C[e].revoked
    PROVE  Agree(C, R, P, n)
<1>1. \A e \in DOMAIN C : C[e].sn \in Sns \cup {None} BY DEF Agree, IsClient
<1>2. ASSUME NEW e \in DOMAIN C, C[e].sn # None, ~C[e].revoked
      PROVE  C[e].port = R[C[e].sn] /\ e \notin P[C[e].sn].before
  <2>1. C[e].sn \in Sns BY <1>1, <1>2
  <2>2. C[e].port = R[C[e].sn] /\ e \notin O[C[e].sn].before BY <1>2 DEF Agree
  <2> QED BY <1>2, <2>1, <2>2
<1>3. /\ C = [e \in DOMAIN C |-> C[e]] /\ R = [v \in Sns |-> R[v]]
      /\ \A e \in DOMAIN C : e \in Nat /\ e < n /\ IsClient(C[e])
  BY DEF Agree
<1> QED BY <1>2, <1>3 DEF Agree

LEMMA NobodyOwns == IsOwner(NoOwner) /\ Prepared(NoOwner) /\ NoOwner.before = {} /\ ~V3(NoOwner)
BY DEF NoOwner, IsOwner, Prepared, V3

-----------------------------------------------------------------------------
(* The operators of the handlers.                                          *)

\* What an operator may do to the table: it stays sane, no connection comes, changes its name
\* or is taken back
Keeps(m, a, n) ==
  /\ Sane(a, n) /\ DOMAIN a.clients = DOMAIN m.clients
  /\ \A e \in DOMAIN m.clients : a.clients[e].sn = m.clients[e].sn /\ (m.clients[e].revoked => a.clients[e].revoked)

LEMMA UpsertKeeps ==
    ASSUME NEW m, NEW n, Sane(m, n), NEW sn \in Sns, NEW p
    PROVE  Keeps(m, upsert_route(m, sn, p), n) /\ upsert_route(m, sn, p).owner = m.owner
<1>1. PICK C, R, O : C = m.clients /\ R = m.route /\ O = m.owner OBVIOUS
<1>2. PICK a : a = upsert_route(m, sn, p) OBVIOUS
<1>3. Agree(C, R, O, n) BY <1>1 DEF Sane
<1>4. PICK b : b = [m EXCEPT !.route[sn] = p] OBVIOUS
<1>5. IsTable(b) /\ b.clients = C /\ b.owner = O /\ b.route = [R EXCEPT ![sn] = p]
  BY <1>1, <1>4 DEF Sane, IsTable
<1>6. PICK D : D = [e \in DOMAIN C |-> IF C[e].sn = sn THEN Retarget(C[e], p) ELSE C[e]] OBVIOUS
<1>7. a = [b EXCEPT !.clients = D]
  BY <1>2, <1>4, <1>5, <1>6 DEF upsert_route, update_client_targets_for_sn
<1>8. IsTable(a) /\ a.clients = D /\ a.owner = O /\ a.route = [R EXCEPT ![sn] = p]
  BY <1>5, <1>7 DEF IsTable
<1>9. R = [v \in Sns |-> R[v]] BY <1>3 DEF Agree
<1>10. a.route = [v \in Sns |-> IF v \in {sn} THEN p ELSE R[v]] BY <1>8, <1>9
<1>11. D = [e \in DOMAIN C |-> IF C[e].sn \in {sn} THEN Retarget(C[e], p) ELSE C[e]] BY <1>6
<1>12. Agree(D, a.route, O, n)
  <2>1. PICK Q : Q = a.route OBVIOUS
  <2>2. PICK S \in SUBSET Sns : S = {sn} OBVIOUS
  <2>3. Q = [v \in Sns |-> Q[v]] /\ \A v \in Sns : Q[v] = IF v \in S THEN p ELSE R[v] BY <1>10, <2>1, <2>2
  <2>4. /\ D = [e \in DOMAIN D |-> D[e]] /\ DOMAIN D = DOMAIN C
        /\ \A e \in DOMAIN C : D[e] = IF C[e].sn \in S THEN Retarget(C[e], p) ELSE C[e]
    BY <1>11, <2>2
  <2>5. Agree(D, Q, O, n) BY <1>3, <2>3, <2>4, Rerouted
  <2> QED BY <2>1, <2>5
<1>13. \A e \in DOMAIN C : D[e].sn = C[e].sn /\ (C[e].revoked => D[e].revoked)
  BY <1>3, <1>6, Retargeted DEF Agree
<1> QED BY <1>1, <1>2, <1>6, <1>8, <1>12, <1>13 DEF Keeps, Sane

LEMMA DeleteKeeps ==
    ASSUME NEW m, NEW n, Sane(m, n), NEW sn \in Sns
    PROVE  Keeps(m, delete_route(m, sn), n) /\ delete_route(m, sn).owner = m.owner
<1>1. CASE m.route[sn] = None
  BY <1>1 DEF delete_route, Keeps
<1>2. CASE m.route[sn] # None
  <2>1. delete_route(m, sn) = upsert_route(m, sn, None) BY <1>2 DEF delete_route, upsert_route
  <2> QED BY <2>1, UpsertKeeps
<1> QED BY <1>1, <1>2

LEMMA StopKeeps ==
    ASSUME NEW m, NEW n, Sane(m, n), NEW sn \in Sns
    PROVE  Keeps(m, stop_media_session(m, sn), n) /\ stop_media_session(m, sn).owner[sn] = NoOwner
<1>1. PICK d : d = delete_route(m, sn) OBVIOUS
<1>2. Keeps(m, d, n) BY <1>1, DeleteKeeps
<1>3. PICK a : a = [d EXCEPT !.owner[sn] = NoOwner] OBVIOUS
<1>4. a = stop_media_session(m, sn) BY <1>1, <1>3 DEF stop_media_session
<1>5. PICK C, R, O : C = d.clients /\ R = d.route /\ O = d.owner OBVIOUS
<1>6. IsTable(a) /\ a.clients = C /\ a.route = R /\ a.owner = [O EXCEPT ![sn] = NoOwner]
  BY <1>2, <1>3, <1>5 DEF Keeps, Sane, IsTable
<1>7. Agree(C, R, O, n) BY <1>2, <1>5 DEF Keeps, Sane
<1>8. PICK P : P = a.owner OBVIOUS
<1>9. O = [v \in Sns |-> O[v]] /\ \A v \in Sns : IsOwner(O[v]) /\ Prepared(O[v]) BY <1>7 DEF Agree
<1>10. P = [v \in Sns |-> P[v]] /\ \A v \in Sns : P[v] = IF v = sn THEN NoOwner ELSE O[v] BY <1>6, <1>8, <1>9
<1>11. \A v \in Sns : IsOwner(P[v]) /\ Prepared(P[v]) /\ P[v].before \subseteq O[v].before
  BY <1>9, <1>10, NobodyOwns
<1>12. Agree(C, R, P, n) BY <1>7, <1>10, <1>11, Reowned
<1>13. Sane(a, n) BY <1>6, <1>8, <1>12 DEF Sane
<1>14. a.owner[sn] = NoOwner BY <1>8, <1>10
<1> QED BY <1>2, <1>4, <1>5, <1>6, <1>13, <1>14 DEF Keeps

LEMMA ExpireKeeps ==
    ASSUME NEW m, NEW n, Sane(m, n), NEW sn \in Sns
    PROVE  Keeps(m, expire_session(m, sn), n)
<1>1. Keeps(m, m, n) BY DEF Keeps
<1> QED BY <1>1, StopKeeps DEF expire_session

\* Behind it no v3 lease of the serial number has ended
LEMMA ExpireV3Keeps ==
    ASSUME NEW m, NEW n, Sane(m, n), NEW sn \in Sns \cup {None}
    PROVE  /\ Keeps(m, ExpireV3(m, sn), n)
           /\ sn \in Sns => ~(V3(ExpireV3(m, sn).owner[sn]) /\ ExpireV3(m, sn).owner[sn].due)
<1>1. Keeps(m, m, n) BY DEF Keeps
<1>2. CASE sn \in Sns /\ V3(m.owner[sn]) /\ m.owner[sn].due
  <2>1. ExpireV3(m, sn) = stop_media_session(m, sn) BY <1>2 DEF ExpireV3, expire_session
  <2>2. Keeps(m, stop_media_session(m, sn), n) /\ stop_media_session(m, sn).owner[sn] = NoOwner
    BY <1>2, StopKeeps
  <2> QED BY <2>1, <2>2, NobodyOwns
<1>3. CASE ~(sn \in Sns /\ V3(m.owner[sn]) /\ m.owner[sn].due)
  <2>1. ExpireV3(m, sn) = m BY <1>3 DEF ExpireV3, expire_session
  <2> QED BY <1>1, <1>3, <2>1
<1> QED BY <1>2, <1>3

\* A connection is replaced by one that is not more than it was
LEMMA OneChanges ==
    ASSUME NEW m, NEW n, Sane(m, n), NEW e \in DOMAIN m.clients, NEW c, IsClient(c),
           c.sn = m.clients[e].sn, ~c.revoked => ~m.clients[e].revoked /\ c.port = m.clients[e].port,
           NEW a, a = [m EXCEPT !.clients = [m.clients EXCEPT ![e] = c]]
    PROVE  Keeps(m, a, n)
<1>1. PICK C, R, O : C = m.clients /\ R = m.route /\ O = m.owner OBVIOUS
<1>2. PICK D : D = [C EXCEPT ![e] = c] OBVIOUS
<1>3. Agree(C, R, O, n) /\ e \in DOMAIN C BY <1>1 DEF Sane
<1>4. IsTable(a) /\ a.clients = D /\ a.route = R /\ a.owner = O BY <1>1, <1>2 DEF Sane, IsTable
<1>5. C = [x \in DOMAIN C |-> C[x]] /\ \A x \in DOMAIN C : IsClient(C[x]) BY <1>3 DEF Agree
<1>6. DOMAIN D = DOMAIN C /\ D = [x \in DOMAIN D |-> D[x]] /\ \A x \in DOMAIN C : D[x] = IF x = e THEN c ELSE C[x]
  BY <1>2, <1>5
<1>7. \A x \in DOMAIN D : /\ IsClient(D[x]) /\ D[x].sn = C[x].sn
                          /\ ~D[x].revoked => ~C[x].revoked /\ D[x].port = C[x].port
  BY <1>1, <1>5, <1>6
<1>8. Agree(D, R, O, n) BY <1>3, <1>6, <1>7, Fewer
<1> QED BY <1>1, <1>4, <1>6, <1>7, <1>8 DEF Keeps, Sane

LEMMA CheckKeeps ==
    ASSUME NEW m, NEW n, Sane(m, n), NEW e \in DOMAIN m.clients
    PROVE  Keeps(m, Check(m, e), n)
<1>1. PICK a : a = ExpireV3(m, m.clients[e].sn) OBVIOUS
<1>2. m.clients[e].sn \in Sns \cup {None} BY DEF Sane, Agree, IsClient
<1>3. Keeps(m, a, n) BY <1>1, <1>2, ExpireV3Keeps
<1>4. Keeps(m, m, n) BY DEF Keeps
<1>5. PICK c : c = [a.clients[e] EXCEPT !.revoked = TRUE] OBVIOUS
<1>6. IsClient(a.clients[e]) /\ e \in DOMAIN a.clients BY <1>3 DEF Keeps, Sane, Agree
<1>7. IsClient(c) /\ c.sn = a.clients[e].sn /\ c.revoked BY <1>5, <1>6 DEF IsClient
<1>8. PICK b : b = [a EXCEPT !.clients = [a.clients EXCEPT ![e] = c]] OBVIOUS
<1>9. Keeps(a, b, n) BY <1>3, <1>6, <1>7, <1>8, OneChanges DEF Keeps
<1>10. Keeps(m, b, n) BY <1>3, <1>9 DEF Keeps
<1>11. [a EXCEPT !.clients[e].revoked = TRUE] = b
  BY <1>3, <1>5, <1>6, <1>8 DEF Keeps, Sane, IsTable
<1> QED BY <1>1, <1>3, <1>4, <1>10, <1>11 DEF Check

LEMMA AdmitKeeps ==
    ASSUME NEW m, NEW n, Sane(m, n), NEW e \in DOMAIN m.clients, NEW a, a = Admit(m, e), m.clients[e].sn # None
    PROVE  Keeps(m, a, n) /\ ~(V3(a.owner[a.clients[e].sn]) /\ a.owner[a.clients[e].sn].due)
<1>1. PICK b : b = Check(m, e) OBVIOUS
<1>2. Keeps(m, b, n) BY <1>1, CheckKeeps
<1>3. m.clients[e].sn \in Sns BY DEF Sane, Agree, IsClient
<1>4. a = ExpireV3(b, m.clients[e].sn) BY <1>1 DEF Admit
<1>5. Keeps(b, a, n) /\ ~(V3(a.owner[m.clients[e].sn]) /\ a.owner[m.clients[e].sn].due)
  BY <1>2, <1>3, <1>4, ExpireV3Keeps DEF Keeps
<1>6. Keeps(m, a, n) BY <1>2, <1>5 DEF Keeps
<1>7. a.clients[e].sn = m.clients[e].sn BY <1>6 DEF Keeps
<1> QED BY <1>5, <1>6, <1>7

LEMMA RemoveKeeps ==
    ASSUME NEW m, NEW n, Sane(m, n), NEW e
    PROVE  Sane(remove_ingress_client(m, e), n)
<1>1. PICK C, R, O : C = m.clients /\ R = m.route /\ O = m.owner OBVIOUS
<1>2. PICK D : D = [x \in DOMAIN C \ {e} |-> C[x]] OBVIOUS
<1>3. PICK a : a = remove_ingress_client(m, e) OBVIOUS
<1>4. a = [m EXCEPT !.clients = D] BY <1>1, <1>2, <1>3 DEF remove_ingress_client, Without
<1>5. IsTable(a) /\ a.clients = D /\ a.route = R /\ a.owner = O BY <1>1, <1>4 DEF Sane, IsTable
<1>6. Agree(C, R, O, n) BY <1>1 DEF Sane
<1>7. \A x \in DOMAIN D : x \in DOMAIN C /\ D[x] = C[x] /\ IsClient(C[x]) BY <1>2, <1>6 DEF Agree
<1>8. D = [x \in DOMAIN D |-> D[x]] BY <1>2
<1>9. Agree(D, R, O, n) BY <1>6, <1>7, <1>8, Fewer
<1> QED BY <1>3, <1>5, <1>9 DEF Sane

-----------------------------------------------------------------------------
(* The steps.                                                              *)

LEMMA Committed ==
    ASSUME IngressInv, NEW m, Commit(m), Sane(m, epoch), UNCHANGED <<epoch, out>>
    PROVE  IngressInv'
BY DEF IngressInv, Commit, Sane, ForwardedRight

LEMMA MemSane == IngressInv => /\ Sane(Mem, epoch) /\ Mem.clients = clients
                               /\ Mem.route = route /\ Mem.owner = owner
BY DEF IngressInv, Sane, Mem, IsTable

LEMMA AddKeeps == ASSUME IngressInv, add_ingress_client PROVE IngressInv'
<1>1. PICK C, n, D : C = clients /\ n = epoch /\ D = clients' OBVIOUS
<1>2. Agree(C, route, owner, n) /\ n \in Nat BY <1>1 DEF IngressInv
<1>3. D = [e \in DOMAIN C \cup {n} |-> IF e = n THEN NewClient ELSE C[e]] BY <1>1 DEF add_ingress_client
<1>4. epoch' = n + 1 /\ route' = route /\ owner' = owner /\ out' = out BY <1>1 DEF add_ingress_client
<1>5. IsClient(NewClient) /\ NewClient.sn = None BY DEF NewClient, IsClient
<1>6. \A e \in DOMAIN D : e \in Nat /\ e < n + 1 /\ IsClient(D[e]) BY <1>2, <1>3, <1>5 DEF Agree
<1>7. \A e \in DOMAIN D : D[e].sn # None => e \in DOMAIN C /\ D[e] = C[e] BY <1>3, <1>5
<1>8. \A e \in DOMAIN D : D[e].sn # None /\ ~D[e].revoked => D[e].port = route[D[e].sn] /\ e \notin owner[D[e].sn].before
  BY <1>2, <1>7 DEF Agree
<1>9. D = [e \in DOMAIN D |-> D[e]] BY <1>3
<1>10. Agree(D, route, owner, n + 1) BY <1>2, <1>6, <1>8, <1>9 DEF Agree
<1>11. Agree(clients', route', owner', epoch') BY <1>1, <1>4, <1>10
<1> QED BY <1>1, <1>2, <1>4, <1>11 DEF IngressInv, ForwardedRight

LEMMA PreambleKeeps ==
    ASSUME IngressInv, NEW e \in DOMAIN clients, NEW sn \in Sns, Preamble(e, sn)
    PROVE  IngressInv'
<1>1. Sane(Mem, epoch) /\ Mem.clients = clients /\ Mem.route = route /\ Mem.owner = owner BY MemSane
<1>2. UNCHANGED <<epoch, out>> BY DEF Preamble
<1>3. CASE TooOld(Mem, sn, e)
  <2>1. Commit(remove_ingress_client(Mem, e)) BY <1>3 DEF Preamble
  <2> QED BY <1>1, <1>2, <2>1, RemoveKeeps, Committed
<1>4. CASE ~TooOld(Mem, sn, e)
  <2>1. PICK d : d = Displace(Mem, sn, e) OBVIOUS
  <2>2. Sane(d, epoch) BY <1>1, <2>1, RemoveKeeps DEF Displace
  <2>3. d.owner = owner /\ d.route = route
    <3>1. CASE d = Mem BY <1>1, <3>1
    <3>2. CASE d # Mem
      <4>1. PICK y : d = [Mem EXCEPT !.clients = [x \in DOMAIN clients \ {y} |-> clients[x]]]
        BY <1>1, <2>1, <3>2 DEF Displace, remove_ingress_client, Without
      <4> QED BY <4>1 DEF Mem
    <3> QED BY <3>1, <3>2
  <2>4. PICK o : o = owner[sn] OBVIOUS
  <2>5. PICK c : c = [clients[e] EXCEPT !.sn = sn, !.port = route[sn], !.lim = V3(o),
                                        !.bind = IF o.kind = "camera" THEN o.gen ELSE 0]
    OBVIOUS
  <2>6. PICK a : a = [d EXCEPT !.clients[e] = c] OBVIOUS
  <2>7. Commit(a) BY <1>4, <2>1, <2>4, <2>5, <2>6 DEF Preamble
  <2>8. IsClient(clients[e]) /\ clients[e].sn = None /\ e \in Nat BY DEF IngressInv, Agree, Preamble
  <2>9. IsClient(c) /\ c.sn = sn /\ c.port = route[sn] BY <2>5, <2>8 DEF IsClient
  <2>10. PICK C, R, O, n : C = d.clients /\ R = d.route /\ O = d.owner /\ n = epoch OBVIOUS
  <2>11. PICK D : D = [C EXCEPT ![e] = c] OBVIOUS
  <2>12. IsTable(a) /\ a.clients = D /\ a.route = R /\ a.owner = O BY <2>2, <2>6, <2>10, <2>11 DEF Sane, IsTable
  <2>13. Agree(C, R, O, n) BY <2>2, <2>10 DEF Sane
  <2>14. e \notin O[sn].before
    <3>1. o = O[sn] BY <2>3, <2>4, <2>10
    <3>2. IsOwner(o) /\ Prepared(o) BY <2>13, <3>1 DEF Agree
    <3>3. ~(o.kind = "camera" /\ e < o.min) BY <1>1, <1>4, <2>4 DEF TooOld
    <3>4. CASE o.kind = "camera" BY <2>8, <3>1, <3>2, <3>3, <3>4 DEF Prepared, IsOwner
    <3>5. CASE o.kind # "camera" BY <3>1, <3>2, <3>5 DEF Prepared
    <3> QED BY <3>4, <3>5
  <2>15. R[sn] = route[sn] BY <2>3, <2>10
  <2>16. C = [x \in DOMAIN C |-> C[x]] /\ R = [v \in Sns |-> R[v]] /\ O = [v \in Sns |-> O[v]]
         /\ (\A x \in DOMAIN C : x \in Nat /\ x < n /\ IsClient(C[x])) /\ \A v \in Sns : IsOwner(O[v]) /\ Prepared(O[v])
    BY <2>13 DEF Agree
  <2>17. DOMAIN D = DOMAIN C /\ D = [x \in DOMAIN D |-> D[x]] /\ \A x \in DOMAIN C : D[x] = IF x = e THEN c ELSE C[x]
    BY <2>11, <2>16
  <2>18. \A x \in DOMAIN D : x \in Nat /\ x < n /\ IsClient(D[x]) BY <2>9, <2>16, <2>17
  <2>19. ASSUME NEW x \in DOMAIN D, D[x].sn # None, ~D[x].revoked
         PROVE  D[x].port = R[D[x].sn] /\ x \notin O[D[x].sn].before
    <3>1. CASE x = e BY <2>9, <2>14, <2>15, <2>17, <3>1
    <3>2. CASE x # e BY <2>13, <2>17, <2>19, <3>2 DEF Agree
    <3> QED BY <3>1, <3>2
  <2>20. Agree(D, R, O, n) BY <2>16, <2>17, <2>18, <2>19 DEF Agree
  <2>21. Sane(a, epoch) BY <2>10, <2>12, <2>20 DEF Sane
  <2> QED BY <1>2, <2>7, <2>21, Committed
<1> QED BY <1>3, <1>4

LEMMA DisconnectKeeps ==
    ASSUME IngressInv, NEW e \in DOMAIN clients, Disconnect(e)
    PROVE  IngressInv'
<1>1. Sane(Mem, epoch) /\ Mem.clients = clients BY MemSane
<1>2. PICK m : m = IF clients[e].sn = None THEN Mem ELSE Check(Mem, e) OBVIOUS
<1>3. Sane(m, epoch) BY <1>1, <1>2, CheckKeeps DEF Keeps
<1>4. Commit(remove_ingress_client(m, e)) /\ UNCHANGED <<epoch, out>> BY <1>2 DEF Disconnect
<1> QED BY <1>3, <1>4, RemoveKeeps, Committed

\* The frame that reaches Janus is the one the invariant is about
LEMMA RtpKeeps ==
    ASSUME IngressInv, NEW e \in DOMAIN clients, RtpFrame(e)
    PROVE  IngressInv'
<1>1. Sane(Mem, epoch) /\ Mem.clients = clients BY MemSane
<1>2. PICK m : m = Admit(Mem, e) OBVIOUS
<1>3. clients[e].sn # None /\ epoch' = epoch BY DEF RtpFrame
<1>4. Keeps(Mem, m, epoch) /\ ~(V3(m.owner[m.clients[e].sn]) /\ m.owner[m.clients[e].sn].due)
  BY <1>1, <1>2, <1>3, AdmitKeeps
<1>5. Sane(m, epoch) /\ e \in DOMAIN m.clients /\ m.clients[e].sn = clients[e].sn BY <1>1, <1>4 DEF Keeps
<1>6. PICK c, sn, o : c = m.clients[e] /\ sn = c.sn /\ o = m.owner[sn] OBVIOUS
<1>7. IsClient(c) /\ sn \in Sns /\ sn # None BY <1>3, <1>5, <1>6 DEF Sane, Agree, IsClient
<1>8. CASE c.revoked
  <2>1. Commit(remove_ingress_client(m, e)) /\ out' = out BY <1>2, <1>6, <1>8 DEF RtpFrame
  <2> QED BY <1>3, <1>5, <2>1, RemoveKeeps, Committed
<1>9. CASE ~c.revoked /\ c.port = None
  <2>1. Commit(m) /\ out' = out BY <1>2, <1>6, <1>9 DEF RtpFrame
  <2> QED BY <1>3, <1>5, <2>1, Committed
<1>10. CASE ~c.revoked /\ c.port # None
  <2>1. PICK a : a = IF V3(o) /\ o.state = "starting" THEN [m EXCEPT !.owner[sn].state = "active"] ELSE m OBVIOUS
  <2>2. Commit(a) /\ out' = [ok |-> c.port = m.route[sn], fresh |-> e \notin o.before, due |-> V3(o) /\ o.due]
    BY <1>2, <1>6, <1>10, <2>1 DEF RtpFrame
  <2>3. c.port = m.route[sn] /\ e \notin o.before BY <1>5, <1>6, <1>7, <1>10 DEF Sane, Agree
  <2>4. ~(V3(o) /\ o.due) BY <1>4, <1>6
  <2>5. out'.ok /\ out'.fresh /\ ~out'.due BY <2>2, <2>3, <2>4
  <2>6. Sane(a, epoch)
    <3>1. CASE a = m BY <1>5, <3>1
    <3>2. CASE a = [m EXCEPT !.owner[sn].state = "active"]
      <4>1. PICK C, R, O, n : C = m.clients /\ R = m.route /\ O = m.owner /\ n = epoch OBVIOUS
      <4>2. Agree(C, R, O, n) /\ o = O[sn] BY <1>5, <1>6, <4>1 DEF Sane
      <4>3. PICK q : q = [o EXCEPT !.state = "active"] OBVIOUS
      <4>4. IsOwner(o) /\ Prepared(o) BY <1>7, <4>2 DEF Agree
      <4>5. IsOwner(q) /\ q.before = o.before /\ q.min = o.min /\ q.kind = o.kind BY <4>3, <4>4 DEF IsOwner
      <4>6. Prepared(q) BY <4>4, <4>5 DEF Prepared
      <4>7. PICK P : P = [O EXCEPT ![sn] = q] OBVIOUS
      <4>8. a = [m EXCEPT !.owner = P]
        <5>1. IsTable(m) BY <1>5 DEF Sane
        <5> QED BY <3>2, <4>1, <4>2, <4>3, <4>7, <5>1 DEF IsTable
      <4>9. IsTable(a) /\ a.clients = C /\ a.route = R /\ a.owner = P BY <1>5, <4>1, <4>8 DEF Sane, IsTable
      <4>10. O = [v \in Sns |-> O[v]] /\ \A v \in Sns : IsOwner(O[v]) /\ Prepared(O[v]) BY <4>2 DEF Agree
      <4>11. P = [v \in Sns |-> P[v]] /\ \A v \in Sns : P[v] = IF v = sn THEN q ELSE O[v] BY <4>7, <4>10
      <4>12. \A v \in Sns : IsOwner(P[v]) /\ Prepared(P[v]) /\ P[v].before \subseteq O[v].before
        BY <4>2, <4>5, <4>6, <4>10, <4>11
      <4>13. Agree(C, R, P, n) BY <4>2, <4>11, <4>12, Reowned
      <4> QED BY <4>1, <4>9, <4>13 DEF Sane
    <3> QED BY <2>1, <3>1, <3>2
  <2>7. Agree(clients', route', owner', epoch') BY <1>3, <2>2, <2>6 DEF Commit, Sane
  <2> QED BY <1>3, <2>5, <2>7 DEF IngressInv, ForwardedRight
<1> QED BY <1>8, <1>9, <1>10

\* A step that changes one connection, and of it nothing the argument looks at
LEMMA Feeds ==
    ASSUME IngressInv, UNCHANGED <<epoch, out>>, NEW m, Sane(m, epoch), NEW e \in DOMAIN m.clients, NEW c, IsClient(c),
           c.sn = m.clients[e].sn, c.revoked = m.clients[e].revoked, c.port = m.clients[e].port,
           NEW a, a = [m EXCEPT !.clients = [m.clients EXCEPT ![e] = c]], Commit(a)
    PROVE  IngressInv'
<1>1. Keeps(m, a, epoch) BY OneChanges
<1> QED BY <1>1, Committed DEF Keeps

LEMMA RtcpKeeps ==
    ASSUME IngressInv, NEW e \in DOMAIN clients, NEW b, RtcpFrame(e, b)
    PROVE  IngressInv'
<1>1. Sane(Mem, epoch) /\ Mem.clients = clients BY MemSane
<1>2. PICK m : m = Admit(Mem, e) OBVIOUS
<1>3. clients[e].sn # None /\ UNCHANGED <<epoch, out>> BY DEF RtcpFrame
<1>4. Keeps(Mem, m, epoch) BY <1>1, <1>2, <1>3, AdmitKeeps
<1>5. Sane(m, epoch) /\ e \in DOMAIN m.clients BY <1>1, <1>4 DEF Keeps
<1>6. PICK c : c = m.clients[e] OBVIOUS
<1>7. IsClient(c) BY <1>5, <1>6 DEF Sane, Agree
<1>8. Commit(remove_ingress_client(m, e)) \/ Commit(m) \/ Commit([m EXCEPT !.clients[e].rtcp = c.port])
  BY <1>2, <1>6 DEF RtcpFrame
<1>9. CASE Commit([m EXCEPT !.clients[e].rtcp = c.port])
  <2>1. PICK d : d = [c EXCEPT !.rtcp = c.port] OBVIOUS
  <2>2. IsClient(d) /\ d.sn = c.sn /\ d.revoked = c.revoked /\ d.port = c.port BY <1>7, <2>1 DEF IsClient
  <2>3. PICK a : a = [m EXCEPT !.clients = [m.clients EXCEPT ![e] = d]] OBVIOUS
  <2>4. [m EXCEPT !.clients[e].rtcp = c.port] = a BY <1>5, <1>6, <2>1, <2>3 DEF Sane, IsTable
  <2> QED BY <1>3, <1>5, <1>6, <1>9, <2>2, <2>3, <2>4, Feeds
<1> QED BY <1>3, <1>5, <1>8, <1>9, RemoveKeeps, Committed

LEMMA SentKeeps ==
    ASSUME NEW c, IsClient(c), NEW k
    PROVE  /\ IsClient(Sent(c, k)) /\ Sent(c, k).sn = c.sn
           /\ Sent(c, k).revoked = c.revoked /\ Sent(c, k).port = c.port
<1>1. PICK d : d = Sent(c, k) OBVIOUS
<1>2. \E w, f, g, h : d = [c EXCEPT !.tx = w, !.off = f, !.first = g, !.half = h]
  <2>1. CASE d = [c EXCEPT !.tx = <<>>, !.off = 0, !.first = 0, !.half = (c.half + k) % 2] BY <2>1
  <2>2. CASE d = [c EXCEPT !.off = c.off + k, !.first = 2 * ((c.off + k) \div 2) + 2, !.half = (c.half + k) % 2]
    <3>1. PICK f, g, h : d = [c EXCEPT !.off = f, !.first = g, !.half = h] BY <2>2
    <3>2. [c EXCEPT !.off = f, !.first = g, !.half = h] = [c EXCEPT !.tx = c.tx, !.off = f, !.first = g, !.half = h]
      BY DEF IsClient
    <3> QED BY <3>1, <3>2
  <2> QED BY <1>1, <2>1, <2>2 DEF Sent
<1>3. PICK w, f, g, h : d = [c EXCEPT !.tx = w, !.off = f, !.first = g, !.half = h] BY <1>2
<1>4. IsClient(d) /\ d.sn = c.sn /\ d.revoked = c.revoked /\ d.port = c.port BY <1>3 DEF IsClient
<1> QED BY <1>1, <1>4

LEMMA FlushKeeps ==
    ASSUME IngressInv, NEW e \in DOMAIN clients, NEW k, flush_feedback(e, k)
    PROVE  IngressInv'
<1>1. Sane(Mem, epoch) /\ Mem.clients = clients BY MemSane
<1>2. PICK m : m = Check(Mem, e) OBVIOUS
<1>3. UNCHANGED <<epoch, out>> BY DEF flush_feedback
<1>4. Sane(m, epoch) /\ e \in DOMAIN m.clients BY <1>1, <1>2, CheckKeeps DEF Keeps
<1>5. PICK c : c = m.clients[e] OBVIOUS
<1>6. IsClient(c) BY <1>4, <1>5 DEF Sane, Agree
<1>7. Commit(remove_ingress_client(m, e)) \/ Commit([m EXCEPT !.clients[e] = Sent(@, k)])
  BY <1>2 DEF flush_feedback
<1>8. CASE Commit([m EXCEPT !.clients[e] = Sent(@, k)])
  <2>1. PICK d : d = Sent(c, k) OBVIOUS
  <2>2. IsClient(d) /\ d.sn = c.sn /\ d.revoked = c.revoked /\ d.port = c.port BY <1>6, <2>1, SentKeeps
  <2>3. PICK a : a = [m EXCEPT !.clients = [m.clients EXCEPT ![e] = d]] OBVIOUS
  <2>4. [m EXCEPT !.clients[e] = Sent(@, k)] = a BY <1>4, <1>5, <2>1, <2>3 DEF Sane, IsTable
  <2> QED BY <1>3, <1>4, <1>5, <1>8, <2>2, <2>3, <2>4, Feeds
<1> QED BY <1>3, <1>4, <1>7, <1>8, RemoveKeeps, Committed

LEMMA ReceiveKeeps ==
    ASSUME IngressInv, NEW e \in DOMAIN clients, NEW key, NEW k, receive_feedback(e, key, k)
    PROVE  IngressInv'
<1>1. Sane(Mem, epoch) /\ Mem.clients = clients BY MemSane
<1>2. PICK m : m = Check(Mem, e) OBVIOUS
<1>3. UNCHANGED <<epoch, out>> BY DEF receive_feedback
<1>4. Sane(m, epoch) /\ e \in DOMAIN m.clients BY <1>1, <1>2, CheckKeeps DEF Keeps
<1>5. PICK c, q : c = m.clients[e] /\ q = Queue(c, key) OBVIOUS
<1>6. IsClient(c) BY <1>4, <1>5 DEF Sane, Agree
<1>7. IsClient(q) /\ q.sn = c.sn /\ q.revoked = c.revoked /\ q.port = c.port
  <2>1. CASE q = c BY <1>6, <2>1
  <2>2. ASSUME NEW w, NEW h, NEW i, q = [c EXCEPT !.tx = w, !.held = h, !.keys = i]
        PROVE  IsClient(q) /\ q.sn = c.sn /\ q.revoked = c.revoked /\ q.port = c.port
    BY <1>6, <2>2 DEF IsClient
  <2>3. CASE q # c
    <3>1. q = [c EXCEPT !.tx = Append(@, c.rtcp), !.held = @ \/ (key /\ c.lim), !.keys = IF key /\ @ < 2 THEN @ + 1 ELSE @]
      BY <1>5, <2>3 DEF Queue, coalesce_feedback
    <3>2. \E w, h, i : q = [c EXCEPT !.tx = w, !.held = h, !.keys = i] BY <1>6, <3>1 DEF IsClient
    <3> QED BY <2>2, <3>2
  <2> QED BY <2>1, <2>3
<1>8. PICK d : d = IF q.tx = <<>> THEN q ELSE Sent(q, k) OBVIOUS
<1>9. IsClient(d) /\ d.sn = c.sn /\ d.revoked = c.revoked /\ d.port = c.port BY <1>7, <1>8, SentKeeps
<1>10. PICK a : a = [m EXCEPT !.clients = [m.clients EXCEPT ![e] = d]] OBVIOUS
<1>11. [m EXCEPT !.clients[e] = d] = a BY <1>4, <1>10 DEF Sane, IsTable
<1>12. Commit(remove_ingress_client(m, e)) \/ Commit([m EXCEPT !.clients[e] = d])
  BY <1>2, <1>5, <1>8 DEF receive_feedback
<1>13. CASE Commit([m EXCEPT !.clients[e] = d])
  BY <1>3, <1>4, <1>5, <1>9, <1>10, <1>11, <1>13, Feeds
<1> QED BY <1>3, <1>4, <1>12, <1>13, RemoveKeeps, Committed

LEMMA IntervalKeeps ==
    ASSUME IngressInv, NEW e \in DOMAIN clients, IntervalPasses(e)
    PROVE  IngressInv'
<1>1. PICK c : c = clients[e] OBVIOUS
<1>2. Sane(Mem, epoch) /\ Mem.clients = clients /\ Mem.route = route /\ Mem.owner = owner BY MemSane
<1>3. IsClient(c) BY <1>1 DEF IngressInv, Agree
<1>4. PICK d : d = [c EXCEPT !.held = FALSE, !.keys = 0] OBVIOUS
<1>5. IsClient(d) /\ d.sn = c.sn /\ d.revoked = c.revoked /\ d.port = c.port BY <1>3, <1>4 DEF IsClient
<1>6. clients' = [clients EXCEPT ![e] = d] /\ route' = route /\ owner' = owner /\ UNCHANGED <<epoch, out>>
  BY <1>1, <1>3, <1>4 DEF IntervalPasses, IsClient
<1>7. PICK a : a = [Mem EXCEPT !.clients = [Mem.clients EXCEPT ![e] = d]] OBVIOUS
<1>8. a.clients = clients' /\ a.route = route /\ a.owner = owner BY <1>2, <1>6, <1>7 DEF Mem
<1>9. Commit(a) BY <1>6, <1>8 DEF Commit
<1> QED BY <1>1, <1>2, <1>5, <1>6, <1>7, <1>9, Feeds

LEMMA LeaseKeeps ==
    ASSUME IngressInv, NEW sn \in Sns, LeaseEnds(sn)
    PROVE  IngressInv'
<1>1. PICK C, R, O, n, P, o, q : /\ C = clients /\ R = route /\ O = owner /\ n = epoch /\ P = owner' /\ o = owner[sn]
                                 /\ q = [o EXCEPT !.due = TRUE]
  OBVIOUS
<1>2. Agree(C, R, O, n) BY <1>1 DEF IngressInv
<1>3. O = [v \in Sns |-> O[v]] /\ \A v \in Sns : IsOwner(O[v]) /\ Prepared(O[v]) BY <1>2 DEF Agree
<1>4. IsOwner(q) /\ q.before = o.before /\ q.min = o.min /\ q.kind = o.kind BY <1>1, <1>3 DEF IsOwner
<1>5. Prepared(q) BY <1>1, <1>3, <1>4 DEF Prepared
<1>6. P = [O EXCEPT ![sn] = q] BY <1>1 DEF LeaseEnds
<1>7. P = [v \in Sns |-> P[v]] /\ \A v \in Sns : P[v] = IF v = sn THEN q ELSE O[v] BY <1>3, <1>6
<1>8. \A v \in Sns : IsOwner(P[v]) /\ Prepared(P[v]) /\ P[v].before \subseteq O[v].before
  BY <1>1, <1>3, <1>4, <1>5, <1>7
<1>9. Agree(C, R, P, n) BY <1>2, <1>7, <1>8, Reowned
<1>10. UNCHANGED <<clients, route, epoch, out>> BY DEF LeaseEnds
<1>11. Agree(clients', route', owner', epoch') BY <1>1, <1>9, <1>10
<1> QED BY <1>10, <1>11 DEF IngressInv, ForwardedRight

LEMMA RouteKeeps ==
    ASSUME IngressInv, NEW sn \in Sns, NEW p, StopSession(sn) \/ DropRoute(sn) \/ PutRoute(sn, p)
    PROVE  IngressInv'
<1>1. Sane(Mem, epoch) BY MemSane
<1>2. UNCHANGED <<epoch, out>> BY DEF StopSession, DropRoute, PutRoute
<1>3. \/ Commit(stop_media_session(Mem, sn)) \/ Commit(delete_route(Mem, sn))
      \/ Commit(upsert_route(Mem, sn, p)) \/ Commit(Mem)
  BY DEF StopSession, DropRoute, PutRoute
<1> QED BY <1>1, <1>2, <1>3, StopKeeps, DeleteKeeps, UpsertKeeps, Committed DEF Keeps

\* The connections are revoked before a camera's session takes the serial number
LEMMA RevokeKeeps ==
    ASSUME NEW m, NEW n, Sane(m, n), NEW sn \in Sns, NEW a, a = media_revoke_camera_clients(m, sn)
    PROVE  Keeps(m, a, n) /\ \A e \in DOMAIN a.clients : a.clients[e].sn = sn => a.clients[e].revoked
<1>1. PICK C, R, O : C = m.clients /\ R = m.route /\ O = m.owner OBVIOUS
<1>2. PICK D : D = [e \in DOMAIN C |-> IF C[e].sn = sn THEN [C[e] EXCEPT !.revoked = TRUE] ELSE C[e]] OBVIOUS
<1>3. a = [m EXCEPT !.clients = D] BY <1>1, <1>2 DEF media_revoke_camera_clients
<1>4. IsTable(a) /\ a.clients = D /\ a.route = R /\ a.owner = O BY <1>1, <1>3 DEF Sane, IsTable
<1>5. Agree(C, R, O, n) BY <1>1 DEF Sane
<1>6. ASSUME NEW e \in DOMAIN C
      PROVE  /\ IsClient(D[e]) /\ D[e].sn = C[e].sn /\ (C[e].sn = sn => D[e].revoked)
             /\ (C[e].sn # sn => D[e] = C[e])
  <2>1. PICK c, d : c = C[e] /\ d = [c EXCEPT !.revoked = TRUE] OBVIOUS
  <2>2. IsClient(c) BY <1>5, <2>1 DEF Agree
  <2>3. IsClient(d) /\ d.sn = c.sn /\ d.revoked BY <2>1, <2>2 DEF IsClient
  <2> QED BY <1>2, <2>1, <2>2, <2>3
<1>7. DOMAIN D = DOMAIN C /\ D = [e \in DOMAIN D |-> D[e]] BY <1>2
<1>8. Agree(D, R, O, n) BY <1>5, <1>6, <1>7, Fewer
<1> QED BY <1>1, <1>4, <1>6, <1>7, <1>8 DEF Keeps, Sane

LEMMA StartKeeps ==
    ASSUME IngressInv, NEW sn \in Sns, NEW kind \in Kinds, NEW port \in Ports, StartSession(sn, kind, port)
    PROVE  IngressInv'
<1>1. Sane(Mem, epoch) /\ Mem.clients = clients BY MemSane
<1>2. PICK m : m = expire_session(Mem, sn) OBVIOUS
<1>3. Keeps(Mem, m, epoch) BY <1>1, <1>2, ExpireKeeps
<1>4. PICK a : a = IF kind = "camera" THEN media_revoke_camera_clients(m, sn) ELSE m OBVIOUS
<1>5. /\ Keeps(m, a, epoch)
      /\ kind = "camera" => \A e \in DOMAIN a.clients : a.clients[e].sn = sn => a.clients[e].revoked
  <2>1. Sane(m, epoch) BY <1>3 DEF Keeps
  <2>2. Keeps(m, m, epoch) BY <2>1 DEF Keeps
  <2> QED BY <1>4, <2>1, <2>2, RevokeKeeps
<1>6. PICK o : o = [kind |-> kind, gen |-> gen + 1, port |-> port, min |-> IF kind = "camera" THEN epoch ELSE 0,
                    state |-> IF kind = "v1" THEN "active" ELSE "starting", due |-> FALSE,
                    before |-> IF kind = "camera" THEN DOMAIN clients ELSE {}]
  OBVIOUS
<1>7. IsOwner(o) /\ Prepared(o) /\ (kind # "camera" => o.before = {})
  <2>1. epoch \in Nat /\ \A e \in DOMAIN clients : e \in Nat /\ e < epoch BY DEF IngressInv, Agree
  <2>2. o.kind = kind /\ o.min = (IF kind = "camera" THEN epoch ELSE 0)
        /\ o.before = IF kind = "camera" THEN DOMAIN clients ELSE {}
    BY <1>6
  <2>3. Prepared(o) BY <2>1, <2>2 DEF Prepared
  <2>4. IsOwner(o) BY <1>6, <2>1 DEF IsOwner
  <2> QED BY <2>2, <2>3, <2>4
<1>8. PICK u, b : u = upsert_route(a, sn, port) /\ b = [u EXCEPT !.owner[sn] = o] OBVIOUS
<1>9. Keeps(a, u, epoch) BY <1>5, <1>8, UpsertKeeps DEF Keeps
<1>10. PICK C, R, O, P, n : C = u.clients /\ R = u.route /\ O = u.owner /\ P = [O EXCEPT ![sn] = o] /\ n = epoch
  OBVIOUS
<1>11. Agree(C, R, O, n) BY <1>9, <1>10 DEF Keeps, Sane
<1>12. IsTable(b) /\ b.clients = C /\ b.route = R /\ b.owner = P
  BY <1>8, <1>9, <1>10 DEF Keeps, Sane, IsTable
<1>13. O = [v \in Sns |-> O[v]] /\ \A v \in Sns : IsOwner(O[v]) /\ Prepared(O[v]) BY <1>11 DEF Agree
<1>14. P = [v \in Sns |-> P[v]] /\ \A v \in Sns : P[v] = IF v = sn THEN o ELSE O[v] BY <1>10, <1>13
<1>15. kind = "camera" => \A e \in DOMAIN C : C[e].sn = sn => C[e].revoked
  BY <1>5, <1>9, <1>10 DEF Keeps
<1>16. \A v \in Sns : IsOwner(P[v]) /\ Prepared(P[v]) /\ \/ P[v].before \subseteq O[v].before
                                                         \/ \A e \in DOMAIN C : C[e].sn = v => C[e].revoked
  BY <1>7, <1>13, <1>14, <1>15
<1>17. Agree(C, R, P, n) BY <1>11, <1>14, <1>16, Reowned
<1>18. PICK D : D = [e \in DOMAIN C |-> IF C[e].sn = sn THEN [C[e] EXCEPT !.lim = kind # "v1", !.keys = 0] ELSE C[e]]
  OBVIOUS
<1>19. ASSUME NEW e \in DOMAIN C
       PROVE  IsClient(D[e]) /\ D[e].sn = C[e].sn /\ D[e].revoked = C[e].revoked /\ D[e].port = C[e].port
  <2>1. PICK c, d : c = C[e] /\ d = [c EXCEPT !.lim = kind # "v1", !.keys = 0] OBVIOUS
  <2>2. IsClient(c) BY <1>11, <2>1 DEF Agree
  <2>3. IsClient(d) /\ d.sn = c.sn /\ d.revoked = c.revoked /\ d.port = c.port BY <2>1, <2>2 DEF IsClient
  <2> QED BY <1>18, <2>1, <2>2, <2>3
<1>20. DOMAIN D = DOMAIN C /\ D = [e \in DOMAIN D |-> D[e]] BY <1>18
<1>21. Agree(D, R, P, n) BY <1>17, <1>19, <1>20, Fewer
<1>22. PICK z : z = [b EXCEPT !.clients = D] OBVIOUS
<1>23. IsTable(z) /\ z.clients = D /\ z.route = R /\ z.owner = P BY <1>12, <1>22 DEF IsTable
<1>24. Sane(z, epoch) BY <1>10, <1>21, <1>23 DEF Sane
<1>25. Commit(a) \/ Commit(z)
  <2>1. z = [b EXCEPT !.clients = [e \in DOMAIN b.clients |->
                 IF b.clients[e].sn = sn THEN [b.clients[e] EXCEPT !.lim = kind # "v1", !.keys = 0]
                 ELSE b.clients[e]]]
    BY <1>12, <1>18, <1>22
  <2> QED BY <1>2, <1>4, <1>6, <1>8, <2>1 DEF StartSession
<1>26. Sane(a, epoch) /\ UNCHANGED <<epoch, out>> BY <1>5 DEF Keeps, StartSession
<1> QED BY <1>24, <1>25, <1>26, Committed

LEMMA LoopKeeps ==
    ASSUME IngressInv, NEW idle, MainLoop(idle)
    PROVE  IngressInv'
<1>1. PICK C, R, O, n, S : C = clients /\ R = route /\ O = owner /\ n = epoch /\ S = Swept(idle) OBVIOUS
<1>2. Agree(C, R, O, n) BY <1>1 DEF IngressInv
<1>3. PICK D : D = [e \in DOMAIN C \ S |-> C[e]] OBVIOUS
<1>4. Agree(D, R, O, n)
  <2>1. \A e \in DOMAIN D : e \in DOMAIN C /\ D[e] = C[e] /\ IsClient(C[e]) BY <1>2, <1>3 DEF Agree
  <2>2. D = [e \in DOMAIN D |-> D[e]] BY <1>3
  <2> QED BY <1>2, <2>1, <2>2, Fewer
<1>5. PICK m : m = [Mem EXCEPT !.clients = D] OBVIOUS
<1>6. m.clients = D /\ m.route = R /\ m.owner = O BY <1>1, <1>5 DEF Mem
<1>7. PICK a : a = ExpireAll(m) OBVIOUS
<1>8. Commit(a) /\ UNCHANGED <<epoch, out>> BY <1>1, <1>3, <1>5, <1>7 DEF MainLoop
<1>9. PICK ended, routed : ended = {v \in Sns : O[v].due} /\ routed = {v \in ended : R[v] # None} OBVIOUS
<1>10. PICK E, Q, P : /\ E = [e \in DOMAIN D |-> IF D[e].sn \in routed THEN Retarget(D[e], None) ELSE D[e]]
                      /\ Q = [v \in Sns |-> IF v \in ended THEN None ELSE R[v]]
                      /\ P = [v \in Sns |-> IF v \in ended THEN NoOwner ELSE O[v]]
  OBVIOUS
<1>11. a = [clients |-> E, route |-> Q, owner |-> P]
  BY <1>6, <1>7, <1>9, <1>10 DEF ExpireAll
<1>12. Agree(E, Q, O, n)
  <2>1. routed \in SUBSET Sns BY <1>9
  <2>2. E = [e \in DOMAIN E |-> E[e]] /\ DOMAIN E = DOMAIN D /\ Q = [v \in Sns |-> Q[v]] BY <1>10
  <2>3. \A e \in DOMAIN D : E[e] = IF D[e].sn \in routed THEN Retarget(D[e], None) ELSE D[e] BY <1>10
  <2>4. \A v \in Sns : Q[v] = IF v \in routed THEN None ELSE R[v] BY <1>9, <1>10
  <2> QED BY <1>4, <2>1, <2>2, <2>3, <2>4, Rerouted
<1>13. P = [v \in Sns |-> P[v]] /\ \A v \in Sns : P[v] = NoOwner \/ P[v] = O[v] BY <1>10
<1>14. \A v \in Sns : IsOwner(O[v]) /\ Prepared(O[v]) BY <1>2 DEF Agree
<1>15. \A v \in Sns : IsOwner(P[v]) /\ Prepared(P[v]) /\ P[v].before \subseteq O[v].before
  BY <1>13, <1>14, NobodyOwns
<1>16. Agree(E, Q, P, n) BY <1>12, <1>13, <1>15, Reowned
<1>17. IsTable(a) /\ a.clients = E /\ a.route = Q /\ a.owner = P BY <1>11 DEF IsTable
<1>18. Sane(a, epoch) BY <1>1, <1>16, <1>17 DEF Sane
<1> QED BY <1>8, <1>18, Committed

LEMMA IngressFirst == IngressInit => IngressInv
<1> SUFFICES ASSUME IngressInit PROVE IngressInv OBVIOUS
<1>1. DOMAIN clients = {} /\ clients = [e \in DOMAIN clients |-> clients[e]] BY DEF IngressInit
<1>2. owner = [v \in Sns |-> NoOwner] /\ route = [v \in Sns |-> None] BY DEF IngressInit
<1>3. Agree(clients, route, owner, epoch) BY <1>1, <1>2, NobodyOwns DEF Agree
<1> QED BY <1>3 DEF IngressInit, IngressInv, ForwardedRight

LEMMA IngressStep == ASSUME IngressInv, [IngressNext]_ingressVars PROVE IngressInv'
<1>1. CASE UNCHANGED ingressVars
  BY <1>1 DEF ingressVars, IngressInv, ForwardedRight
<1>2. CASE IngressNext
  BY <1>2, AddKeeps, PreambleKeeps, DisconnectKeeps, RtpKeeps, RtcpKeeps, FlushKeeps, ReceiveKeeps, IntervalKeeps,
     LeaseKeeps, RouteKeeps, StartKeeps, LoopKeeps
  DEF IngressNext
<1> QED BY <1>1, <1>2

\* Every frame the ingress server hands to Janus goes to the route in force, comes from a connection
\* made after the camera session was prepared, and within a v3 lease, over any sequence of connections,
\* starts, stops, expiries and route changes (process_ingress_data, camera_connection_current).
THEOREM ForwardedRightSafe == IngressSpec => []ForwardedRight
<1>1. IngressInv => ForwardedRight BY DEF IngressInv
<1>2. IngressInv /\ [IngressNext]_ingressVars => IngressInv' BY IngressStep
<1> QED BY <1>1, <1>2, IngressFirst, PTL DEF IngressSpec

-----------------------------------------------------------------------------
(***************************************************************************)
(* A live session keeps its route (MediaSessions), for every number of     *)
(* sessions, terminals, ports and slots, every lease, and through crashes, *)
(* shutdowns, restarts of Janus and a broken connection to Redis.          *)
(*                                                                         *)
(* That needs more of the tables than their routes.  A session_id has one  *)
(* slot and a serial number one live session, or the end of the one takes  *)
(* the route of the other (SlotsAgree).  A restart must find this so in    *)
(* what Redis kept: while the connection holds, every record with a        *)
(* running lease has its live session (Linked), and when it is gone the    *)
(* records are still of different serial numbers and fit the table         *)
(* (Restorable), which is a matter of counting them.  The loops over the   *)
(* slots and over the records are followed by induction over the numbers.  *)
(***************************************************************************)

-----------------------------------------------------------------------------
(* Induction over the numbers, by sets.                                    *)

LEMMA LeastNumber ==
    ASSUME NEW X \in SUBSET Nat, X # {}
    PROVE  \E x \in X : \A y \in X : x <= y
<1> DEFINE Less == {p \in Nat \X Nat : p[1] < p[2]}
<1>1. IsWellFoundedOn(Less, Nat)
  BY NatLessThanWellFounded DEF OpToRel
<1> HIDE DEF Less
<1>2. PICK x \in X : \A y \in X : <<y, x>> \notin Less
  BY <1>1, WFMin
<1>3. \A y \in X : y < x => <<y, x>> \in Less
  BY DEF Less
<1>4. \A y \in X : y \in Nat /\ x \in Nat /\ ~(y < x)
  BY <1>2, <1>3
<1>5. \A y \in X : x <= y
  BY <1>4
<1> QED
  BY <1>5

LEMMA ByNumber ==
    ASSUME NEW X \in SUBSET Nat, 0 \in X, \A n \in X : n + 1 \in X
    PROVE  X = Nat
<1> SUFFICES ASSUME Nat \ X # {} PROVE FALSE
  OBVIOUS
<1>1. PICK x \in Nat \ X : \A y \in Nat \ X : x <= y
  BY LeastNumber
<1>2. x # 0
  BY <1>1
<1>3. x - 1 \in Nat /\ x - 1 < x /\ (x - 1) + 1 = x
  BY <1>2
<1>4. x - 1 \in X
  BY <1>1, <1>3
<1> QED
  BY <1>1, <1>3, <1>4

\* The steps of a pass over 1 .. N lead from one set of tables into the next
Leads(N, G, step, m) ==
    N \in Nat /\ m \in G[0] /\ \A k \in 1 .. N : \A x \in G[k - 1] : step[<<k, x>>] \in G[k]

\* h is the pass
Runs(h, N, G, step, m) == /\ h = [k \in 0 .. N |-> IF k = 0 THEN m ELSE step[<<k, h[k - 1]>>]]
                          /\ \A k \in 0 .. N : h[k] \in G[k]

LEMMA PassDefined ==
    ASSUME NEW N, NEW G, NEW step, NEW m, Leads(N, G, step, m)
    PROVE  \E h : Runs(h, N, G, step, m)
<1> USE DEF Leads
<1> DEFINE Upto(h, n) == /\ h = [k \in 0 .. n |-> IF k = 0 THEN m ELSE step[<<k, h[k - 1]>>]]
                         /\ \A k \in 0 .. n : h[k] \in G[k]
           X == {n \in Nat : n <= N => \E h : Upto(h, n)}
<1>1. 0 \in X
  <2>1. Upto([k \in 0 .. 0 |-> m], 0)
    OBVIOUS
  <2> QED
    BY <2>1
<1>2. ASSUME NEW n \in X, n + 1 <= N PROVE \E h : Upto(h, n + 1)
  <2>1. PICK g : Upto(g, n)
    BY <1>2
  <2> DEFINE h == [k \in 0 .. n + 1 |-> IF k = n + 1 THEN step[<<n + 1, g[n]>>] ELSE g[k]]
  <2>2. n \in Nat /\ n + 1 \in 1 .. N /\ n \in 0 .. n /\ (n + 1) - 1 = n
    BY <1>2
  <2>3. /\ h = [k \in 0 .. n + 1 |-> h[k]]
        /\ \A k \in 0 .. n : h[k] = g[k]
        /\ h[n + 1] = step[<<n + 1, g[n]>>]
    BY <2>2
  <2> HIDE DEF h
  <2>4. g[0] = m /\ \A k \in 1 .. n : g[k] = step[<<k, g[k - 1]>>]
    BY <2>1, <2>2
  <2>5. h[0] = m /\ \A k \in 1 .. n : h[k] = step[<<k, h[k - 1]>>]
    <3>1. \A k \in 1 .. n : k \in 0 .. n /\ k - 1 \in 0 .. n
      BY <2>2
    <3> QED
      BY <2>2, <2>3, <2>4, <3>1, 0 \in 0 .. n
  <2>6. \A k \in 0 .. n : h[k] \in G[k]
    BY <2>1, <2>3
  <2>7. h[n + 1] = step[<<n + 1, h[n]>>] /\ h[n + 1] \in G[n + 1]
    <3>1. h[n] = g[n] /\ g[n] \in G[n]
      BY <2>1, <2>2, <2>3
    <3> QED
      BY <2>2, <2>3, <3>1
  <2>8. \A k \in 0 .. n + 1 : k \in 1 .. n \/ k = 0 \/ (k = n + 1 /\ k # 0 /\ k - 1 = n)
    BY <2>2
  <2>9. \A k \in 0 .. n + 1 : h[k] = IF k = 0 THEN m ELSE step[<<k, h[k - 1]>>]
    <3>1. \A k \in 1 .. n : k # 0
      BY <2>2
    <3> QED
      BY <2>5, <2>7, <2>8, <3>1
  <2>10. \A k \in 0 .. n + 1 : h[k] \in G[k]
    <3>1. \A k \in 0 .. n + 1 : k \in 0 .. n \/ k = n + 1
      BY <2>2
    <3> QED
      BY <2>6, <2>7, <3>1
  <2>11. h = [k \in 0 .. n + 1 |-> IF k = 0 THEN m ELSE step[<<k, h[k - 1]>>]]
    BY <2>3, <2>9
  <2> QED
    BY <2>10, <2>11
<1> HIDE DEF Upto
<1>3. \A n \in X : n + 1 \in X
  BY <1>2
<1>4. N \in X
  BY <1>1, <1>3, ByNumber
<1> QED
  BY <1>4 DEF Upto, Runs

\* What each of its steps leads to is what the pass leads to
LEMMA PassReaches ==
    ASSUME NEW N \in Nat, NEW G, NEW h, h[0] \in G[0],
           \A k \in 1 .. N : h[k - 1] \in G[k - 1] => h[k] \in G[k]
    PROVE  h[N] \in G[N]
<1> DEFINE X == {n \in Nat : n <= N => h[n] \in G[n]}
<1>1. 0 \in X
  OBVIOUS
<1>2. ASSUME NEW n \in X, n + 1 <= N PROVE h[n + 1] \in G[n + 1]
  BY <1>2, n + 1 \in 1 .. N, (n + 1) - 1 = n
<1>3. \A n \in X : n + 1 \in X
  BY <1>2
<1>4. N \in X
  BY <1>1, <1>3, ByNumber
<1> QED
  BY <1>4

-----------------------------------------------------------------------------
(* The tables.                                                             *)

Mounts == UNION {[D -> [port : PoolPorts, pin : SessionIds]] : D \in SUBSET (PoolPorts \cup SessionSns)}
Tables == [slot : [Index -> Record], route : [SessionSns -> PoolPorts \cup {Nil, StaticPort}], janus : Mounts,
           db : [sess : [SessionIds -> Record], sn : [SessionSns -> 0 .. MaxSessionTime + TTL]]]

\* A session has its place
Placed(r) == r.ver # 0 /\ r.sn \in SessionSns /\ r.port \in PoolPorts /\ r.mp \in PoolPorts \cup SessionSns

\* A session has one slot, a serial number one live session, and that one its route
SlotsAgree(S, R) ==
    /\ \A i \in Index : (S[i].id = Nil <=> S[i].state = "empty") /\ (S[i].id # Nil => Placed(S[i]))
    /\ \A i, k \in Index : S[i].id = S[k].id /\ S[i].id # Nil => i = k
    /\ \A i, k \in Index : LiveSession(S[i]) /\ LiveSession(S[k]) /\ S[i].sn = S[k].sn => i = k
    /\ \A i \in Index : LiveSession(S[i]) => R[S[i].sn] = S[i].port

\* The records of Redis are those of their keys
Stored(D) == \A x \in SessionIds : D[x] = Empty \/ (D[x].id = x /\ Placed(D[x]))

\* The records a restart at n would take as live sessions
Valid(D, n) == {x \in SessionIds : LiveSession(D[x]) /\ D[x].until > n}

\* Each has its live session
HasSlot(S, D, x) == \E i \in Index : LiveSession(S[i]) /\ S[i].id = x /\ S[i].sn = D[x].sn
Linked(S, D, n) == \A x \in Valid(D, n) : HasSlot(S, D, x)

\* They are of different serial numbers, and fit the table
Restorable(D, n) ==
    /\ \A x, y \in Valid(D, n) : D[x].sn = D[y].sn => x = y
    /\ Cardinality(Valid(D, n)) <= MaxSessions

SessionsInv ==
    /\ SessionMem \in Tables /\ redisLink \in {"ok", "gone"} /\ fresh \subseteq SessionSns
    /\ sessionNow \in 0 .. MaxSessionTime /\ serverBoots \in 0 .. MaxServerBoots
    /\ SlotsAgree(slot, sessionRoute) /\ Stored(db.sess)
    /\ Restorable(db.sess, sessionNow)
    /\ redisLink = "ok" => Linked(slot, db.sess, sessionNow)

\* What the operations keep of the tables they are given
Sound(m) ==
    /\ m \in Tables /\ sessionNow \in 0 .. MaxSessionTime /\ SlotsAgree(m.slot, m.route) /\ Stored(m.db.sess)
    /\ redisLink = "ok" => Linked(m.slot, m.db.sess, sessionNow)
    /\ redisLink # "ok" => m.db = db

HIDE DeadlineAssumption
USE MediaAssumption

LEMMA Basics ==
    /\ Nil \notin Index /\ Nil \notin SessionIds /\ Nil \notin SessionSns /\ Nil \notin PoolPorts
    /\ Index \subseteq Nat /\ IsFiniteSet(Index) /\ Cardinality(Index) = MaxSessions
<1>1. MaxSessions \in Nat /\ MaxSessions > 0
  BY DEF MediaAssumption
<1>2. IsFiniteSet(1 .. MaxSessions) /\ Cardinality(1 .. MaxSessions) = MaxSessions
  BY <1>1, FS_Interval, 1 \in Int, MaxSessions \in Int
<1> QED
  BY <1>1, <1>2 DEF Index, Nil, MediaAssumption

\* Lowest finds a member of every set that has one
LEMMA LowestFound ==
    ASSUME NEW X \in SUBSET Nat
    PROVE  /\ X = {} => Lowest(X) = Nil
           /\ X # {} => Lowest(X) \in X
<1>1. ASSUME X # {} PROVE Lowest(X) \in X
  <2>1. \E i \in X : \A j \in X : i <= j
    BY <1>1, LeastNumber
  <2> QED
    BY <1>1, <2>1 DEF Lowest
<1> QED
  BY <1>1 DEF Lowest

LEMMA FoundById ==
    ASSUME NEW m, NEW x \in SessionIds
    PROVE  /\ find_session_by_id(m, x) = Nil => \A i \in Index : m.slot[i].id # x
           /\ find_session_by_id(m, x) # Nil =>
                find_session_by_id(m, x) \in Index /\ m.slot[find_session_by_id(m, x)].id = x
<1> DEFINE X == {i \in Index : m.slot[i].id = x}
<1>1. X \in SUBSET Nat /\ find_session_by_id(m, x) = Lowest(X)
  BY Basics DEF find_session_by_id
<1> QED
  BY <1>1, LowestFound, Basics

LEMMA FoundBySn ==
    ASSUME NEW m, NEW v
    PROVE  /\ find_active_session_for_sn(m, v) = Nil => \A i \in Index : ~(LiveSession(m.slot[i]) /\ m.slot[i].sn = v)
           /\ find_active_session_for_sn(m, v) # Nil =>
                /\ find_active_session_for_sn(m, v) \in Index
                /\ LiveSession(m.slot[find_active_session_for_sn(m, v)])
                /\ m.slot[find_active_session_for_sn(m, v)].sn = v
<1> DEFINE X == {i \in Index : LiveSession(m.slot[i]) /\ m.slot[i].sn = v}
<1>1. X \in SUBSET Nat /\ find_active_session_for_sn(m, v) = Lowest(X)
  BY Basics DEF find_active_session_for_sn
<1> QED
  BY <1>1, LowestFound, Basics

LEMMA PortFound ==
    ASSUME NEW m
    PROVE  allocate_port_pair(m) # Nil => allocate_port_pair(m) \in PoolPorts
<1> DEFINE X == {p \in PoolPorts : /\ \A v \in SessionSns : m.route[v] # p
                                   /\ \A i \in Index : LiveSession(m.slot[i]) => m.slot[i].port # p}
<1>1. X \in SUBSET Nat /\ allocate_port_pair(m) = Lowest(X)
  BY DEF allocate_port_pair, MediaAssumption
<1> QED
  BY <1>1, LowestFound

\* A slot without a live session is found whenever there is one
LEMMA SlotFound ==
    ASSUME NEW m, m.slot \in [Index -> Record]
    PROVE  /\ allocate_session_slot(m) # Nil =>
                allocate_session_slot(m) \in Index /\ ~LiveSession(m.slot[allocate_session_slot(m)])
           /\ allocate_session_slot(m) = Nil => \A i \in Index : LiveSession(m.slot[i])
<1> DEFINE empty == {i \in Index : m.slot[i].state = "empty"}
           ended == {i \in Index : m.slot[i].state \in {"stopped", "failed"}}
           first == {i \in ended : \A k \in ended : m.slot[i].at <= m.slot[k].at}
           times == {m.slot[i].at : i \in ended}
<1>1. \A i \in Index : m.slot[i].state \in {"empty", "starting", "active", "stopped", "failed"} /\ m.slot[i].at \in Nat
  BY DEF Record, MediaAssumption
<1>2. empty \in SUBSET Nat /\ first \in SUBSET Nat /\ times \in SUBSET Nat
  BY <1>1, Basics
<1>3. ASSUME ended # {} PROVE first # {}
  <2>1. times # {}
    BY <1>3
  <2>2. PICK a \in times : \A b \in times : a <= b
    <3> HIDE DEF times
    <3> QED
      BY <1>2, <2>1, LeastNumber
  <2> QED
    BY <2>2
<1>4. allocate_session_slot(m) = IF empty # {} THEN Lowest(empty) ELSE Lowest(first)
  BY DEF allocate_session_slot
<1>5. CASE empty # {}
  <2>1. allocate_session_slot(m) \in empty
    BY <1>2, <1>4, <1>5, LowestFound
  <2> QED
    BY <2>1, Basics DEF LiveSession
<1>6. CASE empty = {} /\ ended # {}
  <2>1. allocate_session_slot(m) \in first
    BY <1>2, <1>3, <1>4, <1>6, LowestFound
  <2> QED
    BY <2>1, Basics DEF LiveSession
<1>7. CASE empty = {} /\ ended = {}
  <2>1. allocate_session_slot(m) = Nil
    BY <1>2, <1>4, <1>7, LowestFound
  <2> QED
    BY <1>1, <1>7, <2>1 DEF LiveSession
<1> QED
  BY <1>5, <1>6, <1>7

-----------------------------------------------------------------------------
(* What one rewritten slot, route or record does.                          *)

\* r fits slot i of S; the routes become R2
Fits(S, R, R2, i, r) ==
    /\ S \in [Index -> Record] /\ SlotsAgree(S, R) /\ i \in Index /\ r \in Record
    /\ r.id = Nil <=> r.state = "empty"
    /\ r.id # Nil => Placed(r) /\ \A k \in Index : k # i => S[k].id # r.id
    /\ LiveSession(r) => R2[r.sn] = r.port /\ \A k \in Index : k # i /\ LiveSession(S[k]) => S[k].sn # r.sn
    /\ \A k \in Index : k # i /\ LiveSession(S[k]) => R2[S[k].sn] = R[S[k].sn]

LEMMA SlotRewritten ==
    ASSUME NEW S, NEW R, NEW R2, NEW i, NEW r, Fits(S, R, R2, i, r)
    PROVE  SlotsAgree([S EXCEPT ![i] = r], R2)
<1> USE DEF Fits
<1> DEFINE Q == [S EXCEPT ![i] = r]
<1>1. \A k \in Index : Q[k] = IF k = i THEN r ELSE S[k]
  OBVIOUS
<1> HIDE DEF Q
<1>2. \A k \in Index : (Q[k].id = Nil <=> Q[k].state = "empty") /\ (Q[k].id # Nil => Placed(Q[k]))
  BY <1>1 DEF SlotsAgree
<1>3. \A k, l \in Index : Q[k].id = Q[l].id /\ Q[k].id # Nil => k = l
  BY <1>1 DEF SlotsAgree
<1>4. \A k, l \in Index : LiveSession(Q[k]) /\ LiveSession(Q[l]) /\ Q[k].sn = Q[l].sn => k = l
  BY <1>1 DEF SlotsAgree
<1>5. \A k \in Index : LiveSession(Q[k]) => R2[Q[k].sn] = Q[k].port
  BY <1>1 DEF SlotsAgree
<1> QED
  BY <1>2, <1>3, <1>4, <1>5 DEF SlotsAgree, Q

LEMMA SlotRelinked ==
    ASSUME NEW S \in [Index -> Record], NEW D, NEW E, NEW n, NEW i \in Index, NEW r \in Record,
           \A x \in Valid(E, n) : \/ LiveSession(r) /\ r.id = x /\ r.sn = E[x].sn
                                  \/ HasSlot(S, D, x) /\ D[x].sn = E[x].sn /\ (LiveSession(S[i]) => S[i].id # x)
    PROVE  Linked([S EXCEPT ![i] = r], E, n)
<1> DEFINE Q == [S EXCEPT ![i] = r]
<1>1. \A k \in Index : Q[k] = IF k = i THEN r ELSE S[k]
  OBVIOUS
<1> HIDE DEF Q
<1> SUFFICES ASSUME NEW x \in Valid(E, n) PROVE HasSlot(Q, E, x)
  BY DEF Linked, Q
<1>2. CASE LiveSession(r) /\ r.id = x /\ r.sn = E[x].sn
  BY <1>1, <1>2 DEF HasSlot
<1>3. CASE HasSlot(S, D, x) /\ D[x].sn = E[x].sn /\ (LiveSession(S[i]) => S[i].id # x)
  <2>1. PICK k \in Index : LiveSession(S[k]) /\ S[k].id = x /\ S[k].sn = D[x].sn
    BY <1>3 DEF HasSlot
  <2> QED
    BY <1>1, <1>3, <2>1 DEF HasSlot
<1> QED
  BY <1>2, <1>3

\* Linked records of a table can be restored
LEMMA LinkedRestorable ==
    ASSUME NEW S \in [Index -> Record], NEW R, NEW D, NEW n, SlotsAgree(S, R), Linked(S, D, n)
    PROVE  Restorable(D, n)
<1> DEFINE V == Valid(D, n)
           at == [x \in V |-> CHOOSE i \in Index : LiveSession(S[i]) /\ S[i].id = x /\ S[i].sn = D[x].sn]
<1>1. \A x \in V : at[x] \in Index /\ LiveSession(S[at[x]]) /\ S[at[x]].id = x /\ S[at[x]].sn = D[x].sn
  BY DEF Linked, HasSlot
<1> HIDE DEF at
<1>2. \A x, y \in V : D[x].sn = D[y].sn => x = y
  BY <1>1 DEF SlotsAgree
<1>3. at \in Injection(V, Index)
  <2>1. at \in [V -> Index]
    BY <1>1 DEF at
  <2>2. \A x, y \in V : at[x] = at[y] => x = y
    BY <1>1
  <2> QED
    BY <2>1, <2>2 DEF Injection, IsInjective
<1>4. Cardinality(V) <= MaxSessions
  BY <1>3, FS_Injection, Basics
<1> QED
  BY <1>2, <1>4 DEF Restorable

-----------------------------------------------------------------------------
(* The operations on the tables.                                           *)

\* Janus changes nothing else
SameTables(m, x) == x \in Tables /\ x.slot = m.slot /\ x.route = m.route /\ x.db = m.db

LEMMA DestroyOnly ==
    ASSUME NEW m \in Tables, NEW mp, NEW j
    PROVE  SameTables(m, janus_destroy_mountpoint(m, mp, j))
<1> DEFINE f == [x \in DOMAIN m.janus \ {mp} |-> m.janus[x]]
<1>1. f \in Mounts
  <2>1. m.janus \in Mounts
    BY DEF Tables
  <2>2. PICK D \in SUBSET (PoolPorts \cup SessionSns) : m.janus \in [D -> [port : PoolPorts, pin : SessionIds]]
    BY <2>1 DEF Mounts
  <2>3. f \in [D \ {mp} -> [port : PoolPorts, pin : SessionIds]]
    BY <2>2
  <2> HIDE DEF f
  <2>4. D \ {mp} \in SUBSET (PoolPorts \cup SessionSns)
    OBVIOUS
  <2> QED
    BY <2>3, <2>4 DEF Mounts
<1> HIDE DEF f
<1>2. [m EXCEPT !.janus = f] \in Tables
  BY <1>1 DEF Tables
<1>3. janus_destroy_mountpoint(m, mp, j) = IF j = "down" THEN m ELSE [m EXCEPT !.janus = f]
  BY DEF janus_destroy_mountpoint, f
<1> QED
  BY <1>2, <1>3 DEF SameTables, Tables

LEMMA EnsureOnly ==
    ASSUME NEW m \in Tables, NEW mp \in PoolPorts \cup SessionSns, NEW p \in PoolPorts, NEW pin \in SessionIds, NEW j
    PROVE  SameTables(m, janus_ensure_format(m, mp, p, pin, j))
<1> DEFINE f == [x \in DOMAIN m.janus \cup {mp} |-> IF x = mp THEN [port |-> p, pin |-> pin] ELSE m.janus[x]]
<1>1. f \in Mounts
  <2>1. m.janus \in Mounts
    BY DEF Tables
  <2>2. PICK D \in SUBSET (PoolPorts \cup SessionSns) : m.janus \in [D -> [port : PoolPorts, pin : SessionIds]]
    BY <2>1 DEF Mounts
  <2>3. f \in [D \cup {mp} -> [port : PoolPorts, pin : SessionIds]]
    BY <2>2
  <2> HIDE DEF f
  <2>4. D \cup {mp} \in SUBSET (PoolPorts \cup SessionSns)
    OBVIOUS
  <2> QED
    BY <2>3, <2>4 DEF Mounts
<1> HIDE DEF f
<1>2. [m EXCEPT !.janus = f] \in Tables
  BY <1>1 DEF Tables
<1>3. janus_create_format(m, mp, p, pin) = [m EXCEPT !.janus = f]
  BY DEF janus_create_format, f
<1>4. janus_ensure_format(m, mp, p, pin, j) \in {m, [m EXCEPT !.janus = f]}
  BY <1>3 DEF janus_ensure_format
<1> QED
  BY <1>2, <1>4 DEF SameTables, Tables

LEMMA SameSound ==
    ASSUME NEW m, NEW x, Sound(m), SameTables(m, x)
    PROVE  Sound(x)
BY DEF Sound, SameTables

\* The record of one session is written; the records of the others stay linked
LEMMA SaveKeeps ==
    ASSUME NEW m \in Tables, sessionNow \in 0 .. MaxSessionTime, SlotsAgree(m.slot, m.route), Stored(m.db.sess),
           NEW r \in Record, r.id \in SessionIds, Placed(r),
           redisLink # "ok" => m.db = db,
           redisLink = "ok" => \A x \in Valid(m.db.sess, sessionNow) : x # r.id => HasSlot(m.slot, m.db.sess, x),
           LiveSession(r) => \E i \in Index : LiveSession(m.slot[i]) /\ m.slot[i].id = r.id /\ m.slot[i].sn = r.sn
    PROVE  /\ Sound(media_redis_save_session(m, r))
           /\ media_redis_save_session(m, r).slot = m.slot
<1> DEFINE y == media_redis_save_session(m, r)
           E == [m.db.sess EXCEPT ![r.id] = r]
<1>1. CASE redisLink # "ok"
  BY <1>1 DEF media_redis_save_session, Sound
<1>2. CASE redisLink = "ok"
  <2>1. y \in Tables /\ y.slot = m.slot /\ y.route = m.route /\ y.db.sess = E
    <3>1. CASE LiveSession(r)
      <4>1. y = [m EXCEPT !.db.sess[r.id] = r, !.db.sn[r.sn] = r.until]
        BY <1>2, <3>1 DEF media_redis_save_session
      <4> DEFINE F == [m.db.sn EXCEPT ![r.sn] = r.until]
      <4>2. r.until \in 0 .. MaxSessionTime + TTL
        BY DEF Record
      <4>3. F \in [SessionSns -> 0 .. MaxSessionTime + TTL] /\ E \in [SessionIds -> Record]
        BY <4>2 DEF Tables
      <4>4. y = [m EXCEPT !.db = [sess |-> E, sn |-> F]]
        BY <4>1 DEF Tables
      <4> HIDE DEF y, E, F
      <4> QED
        BY <4>3, <4>4 DEF Tables
    <3>2. CASE ~LiveSession(r)
      <4>1. y = [m EXCEPT !.db.sess[r.id] = r]
        BY <1>2, <3>2 DEF media_redis_save_session
      <4> QED
        BY <4>1 DEF Tables
    <3> QED
      BY <3>1, <3>2
  <2> HIDE DEF y
  <2>2. m.db.sess \in [SessionIds -> Record]
    BY DEF Tables
  <2>3. \A x \in SessionIds : E[x] = IF x = r.id THEN r ELSE m.db.sess[x]
    BY <2>2
  <2> HIDE DEF E
  <2>4. Stored(E)
    BY <2>3, Basics DEF Stored
  <2>5. Linked(m.slot, E, sessionNow)
    <3> SUFFICES ASSUME NEW x \in Valid(E, sessionNow) PROVE HasSlot(m.slot, E, x)
      BY DEF Linked
    <3>1. CASE x = r.id
      BY <2>3, <3>1 DEF Valid, HasSlot
    <3>2. CASE x # r.id
      <4>1. x \in Valid(m.db.sess, sessionNow) /\ E[x] = m.db.sess[x]
        BY <2>3, <3>2 DEF Valid
      <4> QED
        BY <1>2, <3>2, <4>1 DEF HasSlot
    <3> QED
      BY <3>1, <3>2
  <2> QED
    BY <1>2, <2>1, <2>4, <2>5 DEF Sound, y
<1> QED
  BY <1>1, <1>2

Ended(r) == [r EXCEPT !.state = "stopped", !.at = sessionNow]
Ends(m, y) == \A k \in Index : y.slot[k] \in {m.slot[k], Ended(m.slot[k])}

LEMMA EndedTyped ==
    ASSUME NEW r \in Record, sessionNow \in 0 .. MaxSessionTime
    PROVE  /\ Ended(r) \in Record /\ ~LiveSession(Ended(r)) /\ Ended(r).state = "stopped"
           /\ Placed(r) => Placed(Ended(r))
           /\ Ended(r).id = r.id /\ Ended(r).sn = r.sn /\ Ended(r).ver = r.ver
BY DEF Ended, Record, LiveSession, Placed

\* The records of a live session are dropped
LEMMA DropKeeps ==
    ASSUME NEW m, NEW c \in Tables, Sound(m), NEW i \in Index, LiveSession(m.slot[i]),
           c.slot = [m.slot EXCEPT ![i] = Ended(m.slot[i])], c.db = m.db, SlotsAgree(c.slot, c.route)
    PROVE  /\ Sound(media_redis_drop_session(c, m.slot[i]))
           /\ media_redis_drop_session(c, m.slot[i]).slot = c.slot
<1> DEFINE r == m.slot[i]
           E == [m.db.sess EXCEPT ![r.id] = Empty]
           F == [m.db.sn EXCEPT ![r.sn] = Nil]
           y == media_redis_drop_session(c, r)
<1>0. m \in Tables /\ sessionNow \in 0 .. MaxSessionTime
  BY DEF Sound
<1>1. m.slot \in [Index -> Record] /\ m.db.sess \in [SessionIds -> Record] /\ r \in Record
  BY <1>0 DEF Tables
<1>2. r.id \in SessionIds /\ r.sn \in SessionSns
  BY <1>1 DEF Sound, SlotsAgree, Placed, Record, LiveSession
<1>3. CASE redisLink # "ok"
  BY <1>3 DEF Sound, media_redis_drop_session
<1>4. CASE redisLink = "ok"
  <2>1. Empty \in Record /\ Nil \in 0 .. MaxSessionTime + TTL
    BY DEF Empty, Record, Nil, MediaAssumption
  <2>2. E \in [SessionIds -> Record] /\ F \in [SessionSns -> 0 .. MaxSessionTime + TTL]
    BY <1>0, <1>1, <2>1 DEF Tables
  <2>3. y = [c EXCEPT !.db.sess[r.id] = Empty, !.db.sn[r.sn] = Nil]
    BY <1>4 DEF media_redis_drop_session
  <2>4. y = [c EXCEPT !.db = [sess |-> E, sn |-> F]]
    BY <2>3, c.db = m.db DEF Tables
  <2>5. \A x \in SessionIds : E[x] = IF x = r.id THEN Empty ELSE m.db.sess[x]
    BY <1>1
  <2> HIDE DEF y, E, F
  <2>6. y \in Tables /\ y.slot = c.slot /\ y.route = c.route /\ y.db.sess = E
    BY <2>2, <2>4 DEF Tables
  <2>7. Stored(E)
    BY <2>5 DEF Stored, Sound
  <2>8. Linked([m.slot EXCEPT ![i] = Ended(r)], E, sessionNow)
    <3>1. \A x \in Valid(E, sessionNow) : HasSlot(m.slot, m.db.sess, x) /\ m.db.sess[x].sn = E[x].sn /\ r.id # x
      BY <1>4, <2>5 DEF Valid, Linked, Sound, LiveSession, Empty
    <3>2. Ended(r) \in Record
      BY <1>0, <1>1, EndedTyped
    <3> QED
      BY <1>1, <3>1, <3>2, SlotRelinked
  <2> QED
    BY <1>0, <1>4, <2>6, <2>7, <2>8 DEF Sound, y
<1> QED
  BY <1>3, <1>4

LEMMA StopEnds ==
    ASSUME NEW m, Sound(m), NEW x \in SessionIds, NEW j,
           \A k \in Index : m.slot[k].id = x => m.slot[k].state # "failed"
    PROVE  Sound(stop_session_by_id(m, x, j)) /\ Ends(m, stop_session_by_id(m, x, j))
<1> DEFINE i == find_session_by_id(m, x)
           r == m.slot[i]
           a0 == [m EXCEPT !.route[r.sn] = Nil]
           a == janus_destroy_mountpoint(a0, r.mp, j)
           c == [a EXCEPT !.slot[i] = Ended(r)]
           b == media_redis_drop_session(c, r)
           y == stop_session_by_id(m, x, j)
<1>1. y = IF i = Nil THEN m ELSE IF r.state = "stopped" THEN m
          ELSE IF r.ver = 2 THEN media_redis_save_session(b, Ended(r)) ELSE b
  BY SMTT(40) DEF stop_session_by_id, Ended
<1>2. CASE i = Nil \/ r.state = "stopped"
  BY <1>1, <1>2 DEF Ends
<1>3. CASE i # Nil /\ r.state # "stopped"
  <2>1. i \in Index /\ r.id = x
    BY <1>3, FoundById
  <2>2. m \in Tables /\ m.slot \in [Index -> Record] /\ r \in Record /\ sessionNow \in 0 .. MaxSessionTime
    BY <2>1 DEF Sound, Tables
  <2>3. LiveSession(r) /\ Placed(r) /\ r.sn \in SessionSns
    <3>1. Placed(r) /\ r.state # "empty" /\ r.state # "failed"
      BY <2>1, Basics DEF Sound, SlotsAgree
    <3> QED
      BY <1>3, <2>2, <3>1 DEF Placed, Record, LiveSession
  <2>4. a0 \in Tables /\ a0.slot = m.slot /\ a0.route = [m.route EXCEPT ![r.sn] = Nil] /\ a0.db = m.db
    BY <2>2, <2>3 DEF Tables
  <2> HIDE DEF i, r, a0
  <2>5. SameTables(a0, a)
    BY <2>4, DestroyOnly
  <2>6. Ended(r) \in Record
    BY <2>2, EndedTyped
  <2> HIDE DEF a
  <2>7. /\ c \in Tables /\ c.slot = [m.slot EXCEPT ![i] = Ended(r)]
        /\ c.route = [m.route EXCEPT ![r.sn] = Nil] /\ c.db = m.db
    BY <2>1, <2>4, <2>5, <2>6 DEF SameTables, Tables
  <2> HIDE DEF c
  <2>8. SlotsAgree(c.slot, c.route)
    <3>1. \A k \in Index : k # i => m.slot[k].id # Ended(r).id
      BY <2>1, <2>2, EndedTyped, Basics DEF Sound, SlotsAgree, r
    <3>2. \A k \in Index : k # i /\ LiveSession(m.slot[k]) => c.route[m.slot[k].sn] = m.route[m.slot[k].sn]
      <4>1. \A k \in Index : k # i /\ LiveSession(m.slot[k]) => m.slot[k].sn # r.sn /\ m.slot[k].sn \in SessionSns
        BY <2>1, <2>2, <2>3 DEF Sound, SlotsAgree, r, Record, LiveSession, Placed
      <4>2. m.route \in [SessionSns -> PoolPorts \cup {Nil, StaticPort}]
        BY <2>2 DEF Tables
      <4> QED
        BY <2>7, <4>1, <4>2
    <3>3. /\ Ended(r).id # Nil /\ Ended(r).state # "empty" /\ Placed(Ended(r)) /\ ~LiveSession(Ended(r))
      BY <2>1, <2>2, <2>3, EndedTyped, Basics
    <3>4. SlotsAgree(m.slot, m.route)
      BY DEF Sound
    <3>5. Fits(m.slot, m.route, c.route, i, Ended(r))
      BY <2>1, <2>2, <2>6, <3>1, <3>2, <3>3, <3>4 DEF Fits
    <3> QED
      BY <2>7, <3>5, SlotRewritten
  <2>9. Sound(b) /\ b.slot = c.slot
    BY <2>1, <2>3, <2>7, <2>8, DropKeeps DEF r
  <2>10. Ends(m, c)
    BY <2>2, <2>7 DEF Ends, r
  <2> HIDE DEF b
  <2>11. CASE r.ver = 2
    <3>1. /\ b \in Tables /\ SlotsAgree(b.slot, b.route) /\ Stored(b.db.sess)
          /\ redisLink # "ok" => b.db = db
          /\ redisLink = "ok" => \A z \in Valid(b.db.sess, sessionNow) : HasSlot(b.slot, b.db.sess, z)
      BY <2>9 DEF Sound, Linked
    <3>2. Ended(r).id \in SessionIds /\ Placed(Ended(r)) /\ ~LiveSession(Ended(r))
      BY <2>1, <2>2, <2>3, <2>11, EndedTyped
    <3>3. Sound(media_redis_save_session(b, Ended(r))) /\ media_redis_save_session(b, Ended(r)).slot = b.slot
      BY <2>2, <2>6, <3>1, <3>2, SaveKeeps
    <3> QED
      BY <1>1, <1>3, <2>9, <2>10, <2>11, <3>3 DEF Ends
  <2>12. CASE r.ver # 2
    BY <1>1, <1>3, <2>9, <2>10, <2>12 DEF Ends
  <2> QED
    BY <2>11, <2>12
<1> QED
  BY <1>2, <1>3

LEMMA ExpireEnds ==
    ASSUME NEW m, Sound(m), NEW i \in Index \cup {Nil}, NEW j
    PROVE  Sound(expire_session_at(m, i, j)) /\ Ends(m, expire_session_at(m, i, j))
<1>1. CASE i # Nil /\ LiveSession(m.slot[i]) /\ m.slot[i].until <= sessionNow
  <2>1. m.slot[i].id \in SessionIds /\ \A k \in Index : m.slot[k].id = m.slot[i].id => m.slot[k].state # "failed"
    BY <1>1 DEF Sound, SlotsAgree, Tables, Record, LiveSession
  <2> QED
    BY <1>1, <2>1, StopEnds DEF expire_session_at
<1>2. CASE ~(i # Nil /\ LiveSession(m.slot[i]) /\ m.slot[i].until <= sessionNow)
  BY <1>2 DEF expire_session_at, Ends
<1> QED
  BY <1>1, <1>2

\* A slot without a live session gets a record that is over, or is cleared
LEMMA PutDead ==
    ASSUME NEW m, Sound(m), NEW i \in Index, ~LiveSession(m.slot[i]), NEW r \in Record, ~LiveSession(r),
           r.id = Nil <=> r.state = "empty", r.id # Nil => Placed(r) /\ \A k \in Index : k # i => m.slot[k].id # r.id
    PROVE  Sound([m EXCEPT !.slot[i] = r])
<1> DEFINE y == [m EXCEPT !.slot[i] = r]
<1>1. m \in Tables /\ m.slot \in [Index -> Record] /\ SlotsAgree(m.slot, m.route)
  BY DEF Sound, Tables
<1>2. y \in Tables /\ y.slot = [m.slot EXCEPT ![i] = r] /\ y.route = m.route /\ y.db = m.db
  BY <1>1 DEF Tables
<1>3. Fits(m.slot, m.route, m.route, i, r)
  BY <1>1 DEF Fits
<1>4. SlotsAgree(y.slot, y.route)
  BY <1>2, <1>3, SlotRewritten
<1> HIDE DEF y
<1>5. redisLink = "ok" => Linked(y.slot, y.db.sess, sessionNow)
  <2> SUFFICES ASSUME redisLink = "ok" PROVE Linked(y.slot, y.db.sess, sessionNow)
    OBVIOUS
  <2>1. \A x \in Valid(m.db.sess, sessionNow) : HasSlot(m.slot, m.db.sess, x)
    BY DEF Sound, Linked
  <2>2. Linked([m.slot EXCEPT ![i] = r], m.db.sess, sessionNow)
    BY <1>1, <2>1, SlotRelinked
  <2> QED
    BY <1>2, <2>2
<1> QED
  BY <1>2, <1>4, <1>5 DEF Sound, y

\* A slot that is free, or has the session already, gets a live session, which is saved
LEMMA PutLive ==
    ASSUME NEW m, Sound(m), NEW i \in Index, NEW r \in Record, LiveSession(r), r.id \in SessionIds,
           Placed(r), LiveSession(m.slot[i]) => m.slot[i].id = r.id,
           \A k \in Index : k # i => m.slot[k].id # r.id /\ (LiveSession(m.slot[k]) => m.slot[k].sn # r.sn)
    PROVE  Sound(media_redis_save_session([m EXCEPT !.slot[i] = r, !.route[r.sn] = r.port], r))
<1> DEFINE y == [m EXCEPT !.slot[i] = r, !.route[r.sn] = r.port]
           R == [m.route EXCEPT ![r.sn] = r.port]
<1>1. m \in Tables /\ m.slot \in [Index -> Record] /\ SlotsAgree(m.slot, m.route) /\ sessionNow \in 0 .. MaxSessionTime
  BY DEF Sound, Tables
<1>2. R \in [SessionSns -> PoolPorts \cup {Nil, StaticPort}]
  BY <1>1 DEF Tables, Record
<1>3. \A v \in SessionSns : R[v] = IF v = r.sn THEN r.port ELSE m.route[v]
  BY <1>1 DEF Tables
<1>4. y = [m EXCEPT !.slot = [m.slot EXCEPT ![i] = r], !.route = R]
  BY <1>1 DEF Tables
<1> HIDE DEF y, R
<1>5. y \in Tables /\ y.slot = [m.slot EXCEPT ![i] = r] /\ y.route = R /\ y.db = m.db
  BY <1>1, <1>2, <1>4 DEF Tables
<1>6. Fits(m.slot, m.route, R, i, r)
  <2>1. \A k \in Index : k # i /\ LiveSession(m.slot[k]) => m.slot[k].sn \in SessionSns /\ m.slot[k].sn # r.sn
    BY <1>1 DEF SlotsAgree, Placed, Record, LiveSession
  <2>2. r.id # Nil /\ r.state # "empty" /\ r.sn \in SessionSns
    BY Basics DEF LiveSession, Placed
  <2> QED
    BY <1>1, <1>3, <2>1, <2>2 DEF Fits
<1>7. SlotsAgree(y.slot, y.route)
  BY <1>5, <1>6, SlotRewritten
<1>8. ASSUME redisLink = "ok", NEW x \in Valid(y.db.sess, sessionNow), x # r.id PROVE HasSlot(y.slot, y.db.sess, x)
  <2>1. HasSlot(m.slot, m.db.sess, x)
    BY <1>5, <1>8 DEF Sound, Linked
  <2>2. PICK k \in Index : LiveSession(m.slot[k]) /\ m.slot[k].id = x /\ m.slot[k].sn = m.db.sess[x].sn
    BY <2>1 DEF HasSlot
  <2>3. k # i
    BY <1>8, <2>2
  <2> QED
    BY <1>1, <1>5, <2>2, <2>3 DEF HasSlot
<1>9. LiveSession(y.slot[i]) /\ y.slot[i].id = r.id /\ y.slot[i].sn = r.sn
  BY <1>1, <1>5
<1>10. Stored(y.db.sess) /\ (redisLink # "ok" => y.db = db)
  BY <1>5 DEF Sound
<1>11. Sound(media_redis_save_session(y, r))
  BY <1>1, <1>5, <1>7, <1>8, <1>9, <1>10, SaveKeeps
<1> QED
  BY <1>11 DEF y

\* What is ended keeps its name; what was not live does not become so
LEMMA EndsNames ==
    ASSUME NEW m, NEW y, Sound(m), Ends(m, y)
    PROVE  \A k \in Index : /\ y.slot[k].id = m.slot[k].id /\ y.slot[k].sn = m.slot[k].sn
                            /\ y.slot[k].ver = m.slot[k].ver
                            /\ y.slot[k] = m.slot[k] \/ y.slot[k].state = "stopped"
<1>1. m.slot \in [Index -> Record] /\ sessionNow \in 0 .. MaxSessionTime
  BY DEF Sound, Tables
<1> QED
  BY <1>1, EndedTyped DEF Ends

LEMMA CandidateTyped ==
    ASSUME sessionNow \in 0 .. MaxSessionTime, NEW x \in SessionIds, NEW v \in SessionSns, NEW n \in {1, 2},
           NEW p \in PoolPorts, NEW mp \in PoolPorts \cup SessionSns, NEW w \in {"starting", "active", "failed"}
    PROVE  [Candidate(x, v, n, p, mp) EXCEPT !.state = w] \in Record
<1>1. sessionNow + TTL \in 0 .. MaxSessionTime + TTL /\ 0 \in 0 .. MaxSessionTime /\ n \in 0 .. 2
  BY DEF MediaAssumption
<1> QED
  BY <1>1 DEF Candidate, Record

LEMMA FreshKeeps ==
    ASSUME NEW m0, Sound(m0), NEW x \in SessionIds, NEW v \in SessionSns, NEW device \in {Nil, v}, NEW j,
           \A k \in Index : m0.slot[k].id # x
    PROVE  Sound(StartFresh(m0, x, v, device, j))
<1> DEFINE a == find_active_session_for_sn(m0, v)
           m == expire_session_at(m0, a, j)
           busy == find_active_session_for_sn(m, v)
           p == allocate_port_pair(m)
           i == allocate_session_slot(m)
           mp == IF device # Nil THEN device ELSE p
           c == Candidate(x, v, 1, p, mp)
           made == janus_ensure_format(m, mp, p, x, j)
           on == [c EXCEPT !.state = "active"]
           off == [c EXCEPT !.state = "failed"]
           routed == [made EXCEPT !.slot[i] = on, !.route[v] = p]
           y == StartFresh(m0, x, v, device, j)
<1>1. y = IF busy # Nil /\ m.slot[busy].id # x THEN m
          ELSE IF p = Nil \/ i = Nil THEN m
          ELSE IF ~EnsureOk(m, c.mp, p, x, j) THEN [made EXCEPT !.slot[i] = off]
          ELSE media_redis_save_session(routed, on)
  BY DEF StartFresh, Candidate
<1>2. c = [id |-> x, sn |-> v, ver |-> 1, state |-> "starting", port |-> p, mp |-> mp,
           until |-> sessionNow + TTL, at |-> 0]
  BY DEF Candidate
<1> SUFFICES Sound(y)
  OBVIOUS
<1> HIDE DEF y
<1>3. a \in Index \cup {Nil}
  BY FoundBySn
<1>4. Sound(m) /\ Ends(m0, m)
  BY <1>3, ExpireEnds
<1> HIDE DEF m, a
<1>5. \A k \in Index : m.slot[k].id # x
  BY <1>4, EndsNames
<1>6. CASE busy # Nil
  BY <1>1, <1>4, <1>5, <1>6, FoundBySn
<1>7. CASE p = Nil \/ i = Nil
  BY <1>1, <1>4, <1>7
<1>8. CASE busy = Nil /\ p # Nil /\ i # Nil
  <2>1. /\ m \in Tables /\ m.slot \in [Index -> Record] /\ sessionNow \in 0 .. MaxSessionTime
    BY <1>4 DEF Sound, Tables
  <2>2. p \in PoolPorts /\ i \in Index /\ ~LiveSession(m.slot[i])
    BY <1>8, <2>1, PortFound, SlotFound
  <2>3. \A k \in Index : LiveSession(m.slot[k]) => m.slot[k].sn # v
    BY <1>8, FoundBySn
  <2>4. mp \in PoolPorts \cup SessionSns
    BY <2>2
  <2> HIDE DEF p, i, busy, mp
  <2>5. on \in Record /\ off \in Record
    BY <2>1, <2>2, <2>4, CandidateTyped
  <2>6. /\ on.id = x /\ on.sn = v /\ on.ver = 1 /\ on.port = p /\ LiveSession(on) /\ Placed(on)
        /\ off.id = x /\ off.sn = v /\ off.state = "failed" /\ ~LiveSession(off) /\ Placed(off)
    BY <1>2, <2>2, <2>4 DEF LiveSession, Placed
  <2>7. SameTables(m, made)
    BY <2>1, <2>2, <2>4, EnsureOnly
  <2> HIDE DEF c, on, off, made
  <2>8. Sound(made) /\ made.slot = m.slot
    BY <1>4, <2>7, SameSound DEF SameTables
  <2>9. x # Nil /\ v # Nil
    BY Basics
  <2>10. Sound([made EXCEPT !.slot[i] = off])
    BY <1>5, <2>2, <2>5, <2>6, <2>8, <2>9, PutDead
  <2>11. Sound(media_redis_save_session([made EXCEPT !.slot[i] = on, !.route[on.sn] = on.port], on))
    <3>1. /\ on.id \in SessionIds /\ Placed(on) /\ LiveSession(on) /\ ~LiveSession(made.slot[i])
          /\ \A k \in Index : k # i => made.slot[k].id # on.id /\ (LiveSession(made.slot[k]) => made.slot[k].sn # on.sn)
      BY <1>5, <2>2, <2>3, <2>6, <2>8
    <3> QED
      BY <2>2, <2>5, <2>8, <3>1, PutLive
  <2>12. Sound(media_redis_save_session(routed, on))
    BY <2>6, <2>11
  <2> QED
    BY <1>1, <1>8, <2>10, <2>12
<1> QED
  BY <1>6, <1>7, <1>8

LEMMA FreshV2Keeps ==
    ASSUME NEW m0, Sound(m0), NEW x \in SessionIds, NEW v \in SessionSns, NEW j,
           \A k \in Index : m0.slot[k].id # x
    PROVE  Sound(StartFreshV2(m0, x, v, j))
<1> DEFINE a == find_active_session_for_sn(m0, v)
           m == expire_session_at(m0, a, j)
           busy == find_active_session_for_sn(m, v)
           p == allocate_port_pair(m)
           i == allocate_session_slot(m)
           c == Candidate(x, v, 2, p, p)
           cleared == [m EXCEPT !.slot[i] = Empty]
           made == janus_ensure_format(cleared, p, p, x, j)
           routed == [made EXCEPT !.slot[i] = c, !.route[v] = p]
           y == StartFreshV2(m0, x, v, j)
<1>1. c = [id |-> x, sn |-> v, ver |-> 2, state |-> "starting", port |-> p, mp |-> p,
           until |-> sessionNow + TTL, at |-> 0]
  BY DEF Candidate
<1>2. \/ y = m
      \/ busy = Nil /\ p # Nil /\ i # Nil /\ y \in {cleared, made, media_redis_save_session(routed, c)}
  BY DEF StartFreshV2, Candidate
<1> SUFFICES Sound(y)
  OBVIOUS
<1> HIDE DEF y
<1>3. a \in Index \cup {Nil}
  BY FoundBySn
<1>4. Sound(m) /\ Ends(m0, m)
  BY <1>3, ExpireEnds
<1> HIDE DEF m, a
<1>5. \A k \in Index : m.slot[k].id # x
  BY <1>4, EndsNames
<1>6. CASE busy = Nil /\ p # Nil /\ i # Nil
  <2>1. /\ m \in Tables /\ m.slot \in [Index -> Record] /\ sessionNow \in 0 .. MaxSessionTime
    BY <1>4 DEF Sound, Tables
  <2>2. p \in PoolPorts /\ i \in Index /\ ~LiveSession(m.slot[i])
    BY <1>6, <2>1, PortFound, SlotFound
  <2>3. \A k \in Index : LiveSession(m.slot[k]) => m.slot[k].sn # v
    BY <1>6, FoundBySn
  <2> HIDE DEF p, i, busy
  <2>4. Empty \in Record /\ ~LiveSession(Empty) /\ Empty.id = Nil /\ Empty.state = "empty"
    BY DEF Empty, Record, LiveSession, MediaAssumption
  <2>5. Sound(cleared) /\ cleared.slot = [m.slot EXCEPT ![i] = Empty]
    BY <1>4, <2>1, <2>2, <2>4, PutDead DEF Tables
  <2> HIDE DEF cleared
  <2>6. cleared \in Tables
    BY <2>5 DEF Sound
  <2>7. SameTables(cleared, made)
    BY <2>2, <2>6, EnsureOnly
  <2> HIDE DEF made
  <2>8. Sound(made) /\ made.slot = cleared.slot
    BY <2>5, <2>7, SameSound DEF SameTables
  <2>9. c \in Record
    <3>1. [c EXCEPT !.state = "starting"] \in Record
      BY <2>1, <2>2, CandidateTyped
    <3> QED
      BY <1>1, <3>1
  <2>10. c.id = x /\ c.sn = v /\ c.ver = 2 /\ c.port = p /\ LiveSession(c) /\ Placed(c)
    BY <1>1, <2>2 DEF LiveSession, Placed
  <2> HIDE DEF c
  <2>11. /\ ~LiveSession(made.slot[i])
         /\ \A k \in Index : k # i => made.slot[k].id # x /\ (LiveSession(made.slot[k]) => made.slot[k].sn # v)
    BY <1>5, <2>1, <2>2, <2>3, <2>4, <2>5, <2>8
  <2>12. Sound(media_redis_save_session([made EXCEPT !.slot[i] = c, !.route[c.sn] = c.port], c))
    <3>1. /\ c.id \in SessionIds /\ Placed(c) /\ LiveSession(c)
          /\ \A k \in Index : k # i => made.slot[k].id # c.id /\ (LiveSession(made.slot[k]) => made.slot[k].sn # c.sn)
      BY <2>10, <2>11
    <3> QED
      BY <2>2, <2>8, <2>9, <2>11, <3>1, PutLive
  <2> QED
    BY <1>2, <1>4, <2>5, <2>8, <2>10, <2>12
<1> QED
  BY <1>2, <1>4, <1>6

LEMMA StartKeeps1 ==
    ASSUME NEW m0, Sound(m0), NEW x \in SessionIds, NEW v \in SessionSns, NEW device \in {Nil, v}, NEW j,
           \A k \in Index : m0.slot[k].id = x => m0.slot[k].state # "failed"
    PROVE  Sound(StartV1(m0, x, v, device, j))
<1> DEFINE i == find_session_by_id(m0, x)
           m == expire_session_at(m0, i, j)
           r == m.slot[i]
           kept == janus_ensure_format(m, r.mp, r.port, x, j)
           lease == [r EXCEPT !.until = sessionNow + TTL]
           renewed == media_redis_save_session([kept EXCEPT !.slot[i] = lease, !.route[v] = r.port], lease)
           y == StartV1(m0, x, v, device, j)
<1>1. \/ i = Nil /\ y = StartFresh(m, x, v, device, j)
      \/ i # Nil /\ y = m
      \/ i # Nil /\ r.ver # 2 /\ LiveSession(r) /\ (y = kept \/ (r.sn = v /\ y = renewed))
      \/ i # Nil /\ ~LiveSession(r) /\ r.state # "stopped"
  BY DEF StartV1
<1> SUFFICES Sound(y)
  OBVIOUS
<1> HIDE DEF y
<1>2. i \in Index \cup {Nil}
  BY FoundById
<1>3. Sound(m) /\ Ends(m0, m)
  BY <1>2, ExpireEnds
<1>4. CASE i = Nil
  <2>1. \A k \in Index : m.slot[k].id # x
    BY <1>3, <1>4, EndsNames, FoundById
  <2>2. Sound(StartFresh(m, x, v, device, j))
    BY <1>3, <2>1, FreshKeeps
  <2> QED
    BY <1>1, <1>4, <2>2
<1>5. CASE i # Nil
  <2>1. i \in Index /\ m0.slot[i].id = x
    BY <1>5, FoundById
  <2> HIDE DEF i, m
  <2>2. r.id = x /\ (r = m0.slot[i] \/ r.state = "stopped")
    BY <1>3, <2>1, EndsNames
  <2>3. /\ m \in Tables /\ m.slot \in [Index -> Record] /\ r \in Record /\ sessionNow \in 0 .. MaxSessionTime
        /\ SlotsAgree(m.slot, m.route)
    BY <1>3, <2>1 DEF Sound, Tables
  <2>4. Placed(r) /\ r.state # "empty" /\ r.state # "failed"
    BY <2>1, <2>2, <2>3, Basics DEF SlotsAgree
  <2>5. LiveSession(r) \/ r.state = "stopped"
    BY <2>3, <2>4 DEF Record, LiveSession
  <2>6. SameTables(m, kept)
    BY <2>3, <2>4, EnsureOnly DEF Placed
  <2>7. Sound(kept) /\ kept.slot = m.slot
    BY <1>3, <2>6, SameSound DEF SameTables
  <2>8. CASE r.ver # 2 /\ LiveSession(r) /\ r.sn = v /\ y = renewed
    <3>1. /\ lease \in Record /\ lease.id = x /\ lease.sn = v /\ lease.port = r.port /\ lease.ver = r.ver
          /\ LiveSession(lease) /\ Placed(lease)
      <4>1. sessionNow + TTL \in 0 .. MaxSessionTime + TTL
        BY <2>3 DEF MediaAssumption
      <4> QED
        BY <2>2, <2>3, <2>4, <2>8, <4>1 DEF Record, LiveSession, Placed
    <3> HIDE DEF lease, kept
    <3>3. \A k \in Index : k # i => kept.slot[k].id # lease.id /\ (LiveSession(kept.slot[k]) => kept.slot[k].sn # lease.sn)
      BY <2>1, <2>2, <2>3, <2>7, <2>8, <3>1, Basics DEF SlotsAgree
    <3>4. Sound(media_redis_save_session([kept EXCEPT !.slot[i] = lease, !.route[lease.sn] = lease.port], lease))
      BY <2>1, <2>2, <2>7, <3>1, <3>3, PutLive
    <3> QED
      BY <2>8, <3>1, <3>4
  <2> QED
    BY <1>1, <1>3, <1>5, <2>5, <2>7, <2>8
<1> QED
  BY <1>4, <1>5

-----------------------------------------------------------------------------
(* The passes over the table.                                              *)

LEMMA ExpirePassKeeps ==
    ASSUME NEW m, Sound(m), NEW j
    PROVE  Sound(ExpirePass(m, j))
<1> DEFINE N == MaxSessions
           Good == {x \in Tables : Sound(x)}
           G == [k \in 0 .. N |-> Good]
           step == [p \in (1 .. N) \X Tables |-> expire_session_at(p[2], p[1], j)]
           Is(g) == g = [k \in 0 .. N |-> IF k = 0 THEN m ELSE expire_session_at(g[k - 1], k, j)]
           f == CHOOSE g : Is(g)
<1>1. N \in Nat /\ m \in Good /\ Good \subseteq Tables /\ \A k \in 0 .. N : G[k] = Good
  BY DEF Sound, MediaAssumption
<1>2. \A k \in 1 .. N : k \in 0 .. N /\ k - 1 \in 0 .. N
  BY <1>1
<1>3. ASSUME NEW k \in 1 .. N, NEW x \in Good PROVE expire_session_at(x, k, j) \in Good
  <2>1. Sound(expire_session_at(x, k, j))
    BY ExpireEnds DEF Index, Good
  <2> QED
    BY <2>1 DEF Sound
<1>4. \A k \in 1 .. N : \A x \in Good : step[<<k, x>>] = expire_session_at(x, k, j)
  BY <1>1
<1> HIDE DEF Good, G, step
<1>5. \E h : Is(h)
  <2>0. Leads(N, G, step, m)
    BY <1>1, <1>2, <1>3, <1>4, 0 \in 0 .. N DEF Leads
  <2>1. PICK h : Runs(h, N, G, step, m)
    BY <2>0, PassDefined
  <2>2. \A k \in 0 .. N : (IF k = 0 THEN m ELSE step[<<k, h[k - 1]>>]) = (IF k = 0 THEN m ELSE expire_session_at(h[k - 1], k, j))
    <3>1. \A k \in 0 .. N : k = 0 \/ (k # 0 /\ k \in 1 .. N)
      BY <1>1
    <3> QED
      BY <1>1, <1>2, <1>4, <2>1, <3>1 DEF Runs
  <2>3. Is(h)
    BY <2>1, <2>2 DEF Runs
  <2> QED
    BY <2>3
<1>6. Is(f)
  BY <1>5
<1>7. ExpirePass(m, j) = f[N]
  BY DEF ExpirePass
<1> HIDE DEF f
<1>8. f[0] = m /\ \A k \in 1 .. N : f[k] = expire_session_at(f[k - 1], k, j)
  <2>1. \A k \in 1 .. N : k # 0
    BY <1>1
  <2> QED
    BY <1>1, <1>2, <1>6, <2>1, 0 \in 0 .. N
<1>9. f[N] \in G[N]
  <2>1. f[0] \in G[0] /\ \A k \in 1 .. N : f[k - 1] \in G[k - 1] => f[k] \in G[k]
    BY <1>1, <1>2, <1>3, <1>8, 0 \in 0 .. N
  <2> HIDE DEF N
  <2> QED
    BY <1>1, <2>1, PassReaches
<1> QED
  BY <1>1, <1>7, <1>9 DEF Good

LEMMA StopLiveKeeps ==
    ASSUME NEW m, Sound(m), NEW i \in Index, NEW j
    PROVE  Sound(StopLive(m, i, j))
<1>1. CASE LiveSession(m.slot[i])
  <2>1. m.slot[i].id \in SessionIds /\ \A k \in Index : m.slot[k].id = m.slot[i].id => m.slot[k].state # "failed"
    BY <1>1 DEF Sound, SlotsAgree, Tables, Record, LiveSession
  <2> QED
    BY <1>1, <2>1, StopEnds DEF StopLive
<1>2. CASE ~LiveSession(m.slot[i])
  BY <1>2 DEF StopLive
<1> QED
  BY <1>1, <1>2

LEMMA StopPassKeeps ==
    ASSUME NEW m, Sound(m), NEW j
    PROVE  Sound(StopPass(m, j))
<1> DEFINE N == MaxSessions
           Good == {x \in Tables : Sound(x)}
           G == [k \in 0 .. N |-> Good]
           step == [p \in (1 .. N) \X Tables |-> StopLive(p[2], p[1], j)]
           Is(g) == g = [k \in 0 .. N |-> IF k = 0 THEN m ELSE StopLive(g[k - 1], k, j)]
           f == CHOOSE g : Is(g)
<1>1. N \in Nat /\ m \in Good /\ Good \subseteq Tables /\ \A k \in 0 .. N : G[k] = Good
  BY DEF Sound, MediaAssumption
<1>2. \A k \in 1 .. N : k \in 0 .. N /\ k - 1 \in 0 .. N
  BY <1>1
<1>3. ASSUME NEW k \in 1 .. N, NEW x \in Good PROVE StopLive(x, k, j) \in Good
  <2>1. Sound(StopLive(x, k, j))
    BY StopLiveKeeps DEF Index, Good
  <2> QED
    BY <2>1 DEF Sound
<1>4. \A k \in 1 .. N : \A x \in Good : step[<<k, x>>] = StopLive(x, k, j)
  BY <1>1
<1> HIDE DEF Good, G, step
<1>5. \E h : Is(h)
  <2>0. Leads(N, G, step, m)
    BY <1>1, <1>2, <1>3, <1>4, 0 \in 0 .. N DEF Leads
  <2>1. PICK h : Runs(h, N, G, step, m)
    BY <2>0, PassDefined
  <2>2. \A k \in 0 .. N : (IF k = 0 THEN m ELSE step[<<k, h[k - 1]>>]) = (IF k = 0 THEN m ELSE StopLive(h[k - 1], k, j))
    <3>1. \A k \in 0 .. N : k = 0 \/ (k # 0 /\ k \in 1 .. N)
      BY <1>1
    <3> QED
      BY <1>1, <1>2, <1>4, <2>1, <3>1 DEF Runs
  <2>3. Is(h)
    BY <2>1, <2>2 DEF Runs
  <2> QED
    BY <2>3
<1>6. Is(f)
  BY <1>5
<1>7. StopPass(m, j) = f[N]
  BY DEF StopPass
<1> HIDE DEF f
<1>8. f[0] = m /\ \A k \in 1 .. N : f[k] = StopLive(f[k - 1], k, j)
  <2>1. \A k \in 1 .. N : k # 0
    BY <1>1
  <2> QED
    BY <1>1, <1>2, <1>6, <2>1, 0 \in 0 .. N
<1>9. f[N] \in G[N]
  <2>1. f[0] \in G[0] /\ \A k \in 1 .. N : f[k - 1] \in G[k - 1] => f[k] \in G[k]
    BY <1>1, <1>2, <1>3, <1>8, 0 \in 0 .. N
  <2> HIDE DEF N
  <2> QED
    BY <1>1, <2>1, PassReaches
<1> QED
  BY <1>1, <1>7, <1>9 DEF Good

-----------------------------------------------------------------------------
(* The restart.                                                            *)

\* The records D of P have been gone through
Restoring(x, D, P) ==
    /\ x \in Tables /\ SlotsAgree(x.slot, x.route)
    /\ \A i \in Index : x.slot[i].id # Nil => x.slot[i].id \in P
    /\ \A i \in Index : LiveSession(x.slot[i]) =>
          x.slot[i].id \in Valid(D, sessionNow) /\ x.slot[i].sn = D[x.slot[i].id].sn
    /\ \A y \in P \cap Valid(D, sessionNow) : HasSlot(x.slot, D, y)
    /\ \A y \in SessionIds : x.db.sess[y] = D[y] \/ (x.db.sess[y] = Empty /\ y \notin Valid(D, sessionNow))

LEMMA RoomFor ==
    ASSUME NEW x, NEW D, NEW P, Restoring(x, D, P), Restorable(D, sessionNow),
           NEW y \in Valid(D, sessionNow), y \notin P
    PROVE  allocate_session_slot(x) # Nil
<1> SUFFICES ASSUME allocate_session_slot(x) = Nil PROVE FALSE
  OBVIOUS
<1> DEFINE V == Valid(D, sessionNow)
           g == [i \in Index |-> x.slot[i].id]
<1>1. x.slot \in [Index -> Record]
  BY DEF Restoring, Tables
<1>2. \A i \in Index : LiveSession(x.slot[i])
  BY <1>1, SlotFound
<1>3. \A i \in Index : x.slot[i].id \in V \ {y}
  <2>1. \A i \in Index : x.slot[i].state # "empty"
    BY <1>2 DEF LiveSession
  <2> QED
    BY <1>2, <2>1 DEF Restoring, SlotsAgree
<1>4. g \in Injection(Index, V \ {y})
  <2>1. g \in [Index -> V \ {y}]
    BY <1>3
  <2>2. \A i, k \in Index : x.slot[i].id = x.slot[k].id => i = k
    BY <1>2 DEF Restoring, SlotsAgree, LiveSession
  <2> QED
    BY <2>1, <2>2 DEF Injection, IsInjective
<1>5. IsFiniteSet(V) /\ Cardinality(V) \in Nat /\ Cardinality(V) <= MaxSessions
  <2>1. V \subseteq SessionIds /\ IsFiniteSet(SessionIds)
    BY DEF Valid, MediaAssumption
  <2> QED
    BY <2>1, FS_Subset, FS_CardinalityType DEF Restorable
<1> HIDE DEF V, g
<1>6. IsFiniteSet(V \ {y}) /\ Cardinality(V \ {y}) = Cardinality(V) - 1
  BY <1>5, FS_RemoveElement DEF V
<1>7. Cardinality(Index) <= Cardinality(V \ {y})
  BY <1>4, <1>6, FS_Injection
<1> QED
  BY <1>5, <1>6, <1>7, Basics DEF MediaAssumption

\* A live one comes back
LEMMA ComesBack ==
    ASSUME NEW x, NEW D, NEW P, Restoring(x, D, P), Restorable(D, sessionNow), NEW i \in Index,
           ~LiveSession(x.slot[i]), NEW y \in Valid(D, sessionNow), y \notin P,
           NEW r \in Record, LiveSession(r), Placed(r), r.id = y, r.sn = D[y].sn
    PROVE  Restoring([x EXCEPT !.slot[i] = r, !.route[r.sn] = r.port], D, P \cup {y})
<1> DEFINE z == [x EXCEPT !.slot[i] = r, !.route[r.sn] = r.port]
           R == [x.route EXCEPT ![r.sn] = r.port]
<1>1. x \in Tables /\ x.slot \in [Index -> Record] /\ SlotsAgree(x.slot, x.route) /\ y \in SessionIds
  BY DEF Restoring, Tables, Valid
<1>2. R \in [SessionSns -> PoolPorts \cup {Nil, StaticPort}]
  BY <1>1 DEF Tables, Placed
<1>3. \A v \in SessionSns : R[v] = IF v = r.sn THEN r.port ELSE x.route[v]
  BY <1>1 DEF Tables
<1>4. z = [x EXCEPT !.slot = [x.slot EXCEPT ![i] = r], !.route = R]
  BY <1>1 DEF Tables
<1> HIDE DEF z, R
<1>5. z \in Tables /\ z.slot = [x.slot EXCEPT ![i] = r] /\ z.route = R /\ z.db = x.db
  BY <1>1, <1>2, <1>4 DEF Tables
<1>6. \A k \in Index : x.slot[k].id # y /\ (LiveSession(x.slot[k]) => x.slot[k].sn # r.sn)
  <2>1. \A k \in Index : x.slot[k].id # y
    BY <1>1, Basics DEF Restoring
  <2>2. ASSUME NEW k \in Index, LiveSession(x.slot[k]), x.slot[k].sn = r.sn PROVE FALSE
    <3>1. x.slot[k].id \in Valid(D, sessionNow) /\ D[x.slot[k].id].sn = D[y].sn
      BY <2>2 DEF Restoring
    <3>2. x.slot[k].id = y
      BY <3>1 DEF Restorable
    <3> QED
      BY <2>1, <3>2
  <2> QED
    BY <2>1, <2>2
<1>7. Fits(x.slot, x.route, R, i, r)
  <2>1. \A k \in Index : LiveSession(x.slot[k]) => x.slot[k].sn \in SessionSns
    BY <1>1 DEF SlotsAgree, Placed, LiveSession
  <2>2. r.id # Nil /\ r.state # "empty" /\ r.sn \in SessionSns
    BY <1>1, Basics DEF LiveSession, Placed
  <2> QED
    BY <1>1, <1>3, <1>6, <2>1, <2>2 DEF Fits
<1>8. SlotsAgree(z.slot, z.route)
  BY <1>5, <1>7, SlotRewritten
<1>9. \A k \in Index : z.slot[k] = IF k = i THEN r ELSE x.slot[k]
  BY <1>1, <1>5
<1>10. \A w \in (P \cup {y}) \cap Valid(D, sessionNow) : HasSlot(z.slot, D, w)
  <2>1. HasSlot(z.slot, D, y)
    BY <1>9 DEF HasSlot
  <2>2. ASSUME NEW w \in P \cap Valid(D, sessionNow) PROVE HasSlot(z.slot, D, w)
    <3>1. PICK k \in Index : LiveSession(x.slot[k]) /\ x.slot[k].id = w /\ x.slot[k].sn = D[w].sn
      BY DEF Restoring, HasSlot
    <3> QED
      BY <1>9, <3>1 DEF HasSlot
  <2> QED
    BY <2>1, <2>2
<1>11. Restoring(z, D, P \cup {y})
  BY <1>5, <1>8, <1>9, <1>10 DEF Restoring
<1> QED
  BY <1>11 DEF z

\* One that is over does not
LEMMA StaysOver ==
    ASSUME NEW x, NEW D, NEW P, Restoring(x, D, P), NEW i \in Index, ~LiveSession(x.slot[i]),
           NEW y \in SessionIds, y \notin P, y \notin Valid(D, sessionNow),
           NEW r \in Record, r.state = "stopped", Placed(r), r.id = y
    PROVE  Restoring([x EXCEPT !.slot[i] = r], D, P \cup {y})
<1> DEFINE z == [x EXCEPT !.slot[i] = r]
<1>1. x \in Tables /\ x.slot \in [Index -> Record] /\ SlotsAgree(x.slot, x.route)
  BY DEF Restoring, Tables
<1>2. z \in Tables /\ z.slot = [x.slot EXCEPT ![i] = r] /\ z.route = x.route /\ z.db = x.db
  BY <1>1 DEF Tables
<1> HIDE DEF z
<1>3. \A k \in Index : x.slot[k].id # y
  BY Basics DEF Restoring
<1>4. Fits(x.slot, x.route, x.route, i, r)
  BY <1>1, <1>3, Basics DEF Fits, LiveSession
<1>5. SlotsAgree(z.slot, z.route)
  BY <1>2, <1>4, SlotRewritten
<1>6. \A k \in Index : z.slot[k] = IF k = i THEN r ELSE x.slot[k]
  BY <1>1, <1>2
<1>7. ASSUME NEW w \in (P \cup {y}) \cap Valid(D, sessionNow) PROVE HasSlot(z.slot, D, w)
  <2>1. PICK k \in Index : LiveSession(x.slot[k]) /\ x.slot[k].id = w /\ x.slot[k].sn = D[w].sn
    BY DEF Restoring, HasSlot
  <2> QED
    BY <1>6, <2>1 DEF HasSlot
<1>8. ~LiveSession(r)
  BY DEF LiveSession
<1>9. Restoring(z, D, P \cup {y})
  BY <1>2, <1>5, <1>6, <1>7, <1>8 DEF Restoring
<1> QED
  BY <1>9 DEF z

\* Nor does one for which there is no room, or whose serial number is taken
LEMMA LeftOut ==
    ASSUME NEW x, NEW D, NEW P, Restoring(x, D, P), NEW y, y \notin Valid(D, sessionNow)
    PROVE  Restoring(x, D, P \cup {y})
BY DEF Restoring

LEMMA KeysDropped ==
    ASSUME NEW x, NEW D, NEW P, Restoring(x, D, P), NEW y \in SessionIds, y \notin Valid(D, sessionNow), NEW v \in SessionSns
    PROVE  Restoring([x EXCEPT !.db.sess[y] = Empty, !.db.sn[v] = Nil], D, P)
<1> DEFINE z == [x EXCEPT !.db.sess[y] = Empty, !.db.sn[v] = Nil]
           E == [x.db.sess EXCEPT ![y] = Empty]
           F == [x.db.sn EXCEPT ![v] = Nil]
<1>1. x \in Tables /\ x.db.sess \in [SessionIds -> Record]
  BY DEF Restoring, Tables
<1>2. Empty \in Record /\ Nil \in 0 .. MaxSessionTime + TTL
  BY DEF Empty, Record, Nil, MediaAssumption
<1>3. E \in [SessionIds -> Record] /\ F \in [SessionSns -> 0 .. MaxSessionTime + TTL]
  BY <1>1, <1>2 DEF Tables
<1>4. \A w \in SessionIds : E[w] = IF w = y THEN Empty ELSE x.db.sess[w]
  BY <1>1
<1> SUFFICES Restoring(z, D, P)
  OBVIOUS
<1>0. z = [x EXCEPT !.db.sess[y] = Empty, !.db.sn[v] = Nil]
  OBVIOUS
<1> HIDE DEF z
<1>5. z = [x EXCEPT !.db = [sess |-> E, sn |-> F]]
  <2>1. x.db = [sess |-> x.db.sess, sn |-> x.db.sn]
    BY <1>1 DEF Tables
  <2>2. z = [x EXCEPT !.db = [[x.db EXCEPT !.sess[y] = Empty] EXCEPT !.sn[v] = Nil]]
    BY <1>0, <1>1 DEF Tables
  <2>3. [[x.db EXCEPT !.sess[y] = Empty] EXCEPT !.sn[v] = Nil] = [sess |-> E, sn |-> F]
    <3> DEFINE d == x.db
    <3>1. d \in [sess : [SessionIds -> Record], sn : [SessionSns -> 0 .. MaxSessionTime + TTL]]
      BY <1>1 DEF Tables
    <3> HIDE DEF d
    <3>2. [[d EXCEPT !.sess[y] = Empty] EXCEPT !.sn[v] = Nil]
             = [sess |-> [d.sess EXCEPT ![y] = Empty], sn |-> [d.sn EXCEPT ![v] = Nil]]
      <4>1. [d EXCEPT !.sess[y] = Empty] = [sess |-> [d.sess EXCEPT ![y] = Empty], sn |-> d.sn]
        BY <3>1
      <4>2. \A e : [[sess |-> e, sn |-> d.sn] EXCEPT !.sn[v] = Nil] = [sess |-> e, sn |-> [d.sn EXCEPT ![v] = Nil]]
        BY <3>1
      <4> QED
        BY <4>1, <4>2
    <3> QED
      BY <3>2 DEF d
  <2> QED
    BY <2>2, <2>3
<1> HIDE DEF E, F
<1>6. z \in Tables /\ z.slot = x.slot /\ z.route = x.route /\ z.db.sess = E
  BY <1>1, <1>3, <1>5 DEF Tables
<1>7. Restoring(z, D, P)
  BY <1>4, <1>6 DEF Restoring
<1> QED
  BY <1>7 DEF z

LEMMA RestoreOne ==
    ASSUME NEW x, NEW D \in [SessionIds -> Record], NEW P, Restoring(x, D, P), Restorable(D, sessionNow), Stored(D),
           sessionNow \in 0 .. MaxSessionTime, NEW y \in SessionIds, y \notin P, D[y].ver = 1
    PROVE  Restoring(media_redis_restore_one(x, D[y]), D, P \cup {y})
<1> DEFINE r == D[y]
           i == allocate_session_slot(x)
           on == [r EXCEPT !.state = "active"]
           off == [r EXCEPT !.state = "stopped", !.at = 0]
           z == media_redis_restore_one(x, r)
<1>1. z = IF i = Nil THEN x
          ELSE IF LiveSession(r) /\ r.until > sessionNow
          THEN [x EXCEPT !.slot[i] = on, !.route[r.sn] = r.port]
          ELSE [x EXCEPT !.slot[i] = off, !.db.sess[r.id] = Empty, !.db.sn[r.sn] = Nil]
  BY DEF media_redis_restore_one
<1>2. r \in Record /\ r.id = y /\ Placed(r)
  BY DEF Stored, Empty
<1>3. /\ on \in Record /\ on.id = y /\ on.sn = r.sn /\ on.port = r.port /\ LiveSession(on) /\ Placed(on)
      /\ off \in Record /\ off.id = y /\ off.sn = r.sn /\ off.state = "stopped" /\ Placed(off)
  <2>1. 0 \in 0 .. MaxSessionTime
    BY DEF MediaAssumption
  <2>2. on \in Record /\ off \in Record
    BY <1>2, <2>1 DEF Record
  <2>3. /\ on.id = r.id /\ on.sn = r.sn /\ on.port = r.port /\ on.ver = r.ver /\ on.mp = r.mp /\ LiveSession(on)
        /\ off.id = r.id /\ off.sn = r.sn /\ off.port = r.port /\ off.ver = r.ver /\ off.mp = r.mp /\ off.state = "stopped"
    BY <1>2 DEF Record, LiveSession
  <2> QED
    BY <1>2, <2>2, <2>3 DEF Placed
<1>4. LiveSession(r) /\ r.until > sessionNow <=> y \in Valid(D, sessionNow)
  BY DEF Valid
<1>5. i # Nil => i \in Index /\ ~LiveSession(x.slot[i])
  BY SlotFound DEF Restoring, Tables
<1> SUFFICES Restoring(z, D, P \cup {y})
  OBVIOUS
<1> HIDE DEF z, i, on, off
<1>6. CASE i = Nil
  <2>1. y \notin Valid(D, sessionNow)
    BY <1>6, RoomFor DEF i
  <2> QED
    BY <1>1, <1>6, <2>1, LeftOut
<1>7. CASE i # Nil /\ y \in Valid(D, sessionNow)
  <2>1. Restoring([x EXCEPT !.slot[i] = on, !.route[on.sn] = on.port], D, P \cup {y})
    BY <1>3, <1>5, <1>7, ComesBack
  <2> QED
    BY <1>1, <1>3, <1>4, <1>7, <2>1
<1>8. CASE i # Nil /\ y \notin Valid(D, sessionNow)
  <2> DEFINE w == [x EXCEPT !.slot[i] = off]
  <2>1. Restoring(w, D, P \cup {y})
    BY <1>3, <1>5, <1>8, StaysOver
  <2>2. r.sn \in SessionSns
    BY <1>2 DEF Placed
  <2>3. Restoring([w EXCEPT !.db.sess[y] = Empty, !.db.sn[r.sn] = Nil], D, P \cup {y})
    BY <1>8, <2>1, <2>2, KeysDropped
  <2>4. z = [w EXCEPT !.db.sess[y] = Empty, !.db.sn[r.sn] = Nil]
    BY <1>1, <1>2, <1>4, <1>8
  <2> QED
    BY <2>3, <2>4
<1> QED
  BY <1>6, <1>7, <1>8

LEMMA RestoreTwo ==
    ASSUME NEW x, NEW D \in [SessionIds -> Record], NEW P, Restoring(x, D, P), Restorable(D, sessionNow), Stored(D),
           sessionNow \in 0 .. MaxSessionTime, NEW y \in SessionIds, y \notin P, D[y].ver = 2
    PROVE  Restoring(media_v2_restore(x, D[y]), D, P \cup {y})
<1> DEFINE r == D[y]
           i == allocate_session_slot(x)
           a == find_active_session_for_sn(x, r.sn)
           on == [r EXCEPT !.state = "starting"]
           off == [r EXCEPT !.state = "stopped", !.at = 0]
           z == media_v2_restore(x, r)
<1>1. z = IF i = Nil \/ a # Nil THEN x
          ELSE IF LiveSession(r) /\ r.until > sessionNow
          THEN [x EXCEPT !.slot[i] = on, !.route[r.sn] = r.port]
          ELSE [x EXCEPT !.slot[i] = off]
  BY DEF media_v2_restore
<1>2. r \in Record /\ r.id = y /\ Placed(r)
  BY DEF Stored, Empty
<1>3. /\ on \in Record /\ on.id = y /\ on.sn = r.sn /\ on.port = r.port /\ LiveSession(on) /\ Placed(on)
      /\ off \in Record /\ off.id = y /\ off.state = "stopped" /\ Placed(off)
  <2>1. 0 \in 0 .. MaxSessionTime
    BY DEF MediaAssumption
  <2>2. on \in Record /\ off \in Record
    BY <1>2, <2>1 DEF Record
  <2>3. /\ on.id = r.id /\ on.sn = r.sn /\ on.port = r.port /\ on.ver = r.ver /\ on.mp = r.mp /\ LiveSession(on)
        /\ off.id = r.id /\ off.sn = r.sn /\ off.port = r.port /\ off.ver = r.ver /\ off.mp = r.mp /\ off.state = "stopped"
    BY <1>2 DEF Record, LiveSession
  <2> QED
    BY <1>2, <2>2, <2>3 DEF Placed
<1>4. LiveSession(r) /\ r.until > sessionNow <=> y \in Valid(D, sessionNow)
  BY DEF Valid
<1>5. i # Nil => i \in Index /\ ~LiveSession(x.slot[i])
  BY SlotFound DEF Restoring, Tables
<1>6. ASSUME a # Nil PROVE y \notin Valid(D, sessionNow)
  <2>1. a \in Index /\ LiveSession(x.slot[a]) /\ x.slot[a].sn = D[y].sn
    BY <1>6, FoundBySn
  <2> HIDE DEF a
  <2>2. x.slot[a].id \in Valid(D, sessionNow) /\ D[x.slot[a].id].sn = D[y].sn
    BY <2>1 DEF Restoring
  <2>3. x.slot[a].id \in P
    <3>1. x.slot[a].id # Nil
      BY <2>1 DEF Restoring, SlotsAgree, LiveSession
    <3> QED
      BY <2>1, <3>1 DEF Restoring
  <2> QED
    BY <2>2, <2>3 DEF Restorable
<1> SUFFICES Restoring(z, D, P \cup {y})
  OBVIOUS
<1> HIDE DEF z, i, on, off, a
<1>7. CASE i = Nil \/ a # Nil
  <2>1. y \notin Valid(D, sessionNow)
    BY <1>6, <1>7, RoomFor DEF i
  <2> QED
    BY <1>1, <1>7, <2>1, LeftOut
<1>8. CASE i # Nil /\ a = Nil /\ y \in Valid(D, sessionNow)
  <2>1. Restoring([x EXCEPT !.slot[i] = on, !.route[on.sn] = on.port], D, P \cup {y})
    BY <1>3, <1>5, <1>8, ComesBack
  <2> QED
    BY <1>1, <1>3, <1>4, <1>8, <2>1
<1>9. CASE i # Nil /\ a = Nil /\ y \notin Valid(D, sessionNow)
  <2>1. Restoring([x EXCEPT !.slot[i] = off], D, P \cup {y})
    BY <1>3, <1>5, <1>9, StaysOver
  <2> QED
    BY <1>1, <1>4, <1>9, <2>1
<1> QED
  BY <1>7, <1>8, <1>9

\* The records of version v among the first k
Done(D, o, v, k) == {o[l] : l \in {q \in 1 .. k : D[o[q]].ver = v}}

LEMMA RestoreStep ==
    ASSUME NEW x, NEW D \in [SessionIds -> Record], NEW P, Restorable(D, sessionNow), Stored(D),
           sessionNow \in 0 .. MaxSessionTime, NEW o \in Orders, NEW v \in {1, 2},
           NEW k \in 1 .. Cardinality(SessionIds), D[o[k]].ver = v => o[k] \notin P,
           Restoring(x, D, P \cup Done(D, o, v, k - 1))
    PROVE  Restoring(RestoreRecord(x, D[o[k]], v), D, P \cup Done(D, o, v, k))
<1> DEFINE Q == P \cup Done(D, o, v, k - 1)
<1>1. /\ o[k] \in SessionIds
      /\ \A l \in 1 .. Cardinality(SessionIds) : o[l] = o[k] => l = k
  BY DEF Orders
<1>2. IsFiniteSet(SessionIds) /\ Cardinality(SessionIds) \in Nat
  BY FS_CardinalityType DEF MediaAssumption
<1>3. \A q : q \in 1 .. k <=> (q = k \/ q \in 1 .. k - 1)
  BY <1>2
<1>4. CASE D[o[k]].ver # v
  <2>1. Done(D, o, v, k) = Done(D, o, v, k - 1)
    BY <1>3, <1>4 DEF Done
  <2> QED
    BY <1>4, <2>1 DEF RestoreRecord
<1>5. CASE D[o[k]].ver = v
  <2>1. P \cup Done(D, o, v, k) = Q \cup {o[k]}
    BY <1>3, <1>5 DEF Done
  <2>2. o[k] \notin Q
    <3>1. \A q \in 1 .. k - 1 : q # k /\ q \in 1 .. Cardinality(SessionIds)
      BY <1>2
    <3> QED
      BY <1>1, <1>5, <3>1 DEF Done
  <2> HIDE DEF Q
  <2>3. Restoring(x, D, Q)
    BY DEF Q
  <2>4. CASE v = 1
    BY <1>1, <1>5, <2>1, <2>2, <2>3, <2>4, RestoreOne DEF RestoreRecord
  <2>5. CASE v = 2
    <3>1. RestoreRecord(x, D[o[k]], v) = media_v2_restore(x, D[o[k]])
      BY <1>5, <2>5 DEF RestoreRecord
    <3>2. Restoring(media_v2_restore(x, D[o[k]]), D, Q \cup {o[k]})
      BY <1>1, <1>5, <2>2, <2>3, <2>5, RestoreTwo
    <3> QED
      BY <2>1, <3>1, <3>2
  <2> QED
    BY <2>4, <2>5
<1> QED
  BY <1>4, <1>5

LEMMA RestorePassKeeps ==
    ASSUME NEW m, NEW D \in [SessionIds -> Record], NEW P, Restorable(D, sessionNow), Stored(D),
           sessionNow \in 0 .. MaxSessionTime, NEW o \in Orders, NEW v \in {1, 2},
           \A k \in 1 .. Cardinality(SessionIds) : D[o[k]].ver = v => o[k] \notin P, Restoring(m, D, P)
    PROVE  Restoring(RestorePass(m, D, o, v), D, P \cup Done(D, o, v, Cardinality(SessionIds)))
<1> DEFINE N == Cardinality(SessionIds)
           G == [k \in 0 .. N |-> {x \in Tables : Restoring(x, D, P \cup Done(D, o, v, k))}]
           step == [p \in (1 .. N) \X Tables |-> RestoreRecord(p[2], D[o[p[1]]], v)]
           Is(g) == g = [k \in 0 .. N |-> IF k = 0 THEN m ELSE RestoreRecord(g[k - 1], D[o[k]], v)]
           f == CHOOSE g : Is(g)
<1>1. N \in Nat
  BY FS_CardinalityType DEF MediaAssumption
<1>2. \A k \in 0 .. N : G[k] \subseteq Tables /\ \A x : x \in G[k] <=> Restoring(x, D, P \cup Done(D, o, v, k))
  BY DEF Restoring
<1>3. \A k \in 1 .. N : k \in 0 .. N /\ k - 1 \in 0 .. N
  BY <1>1
<1>4. m \in G[0]
  <2>1. 0 \in 0 .. N /\ 1 .. 0 = {}
    BY <1>1
  <2>2. P \cup Done(D, o, v, 0) = P
    BY <2>1 DEF Done
  <2> HIDE DEF G
  <2> QED
    BY <1>2, <2>1, <2>2
<1>5. \A k \in 1 .. N : \A x \in Tables : step[<<k, x>>] = RestoreRecord(x, D[o[k]], v)
  OBVIOUS
<1> HIDE DEF G, step
<1>6. ASSUME NEW k \in 1 .. N, NEW x \in G[k - 1] PROVE RestoreRecord(x, D[o[k]], v) \in G[k]
  <2>1. Restoring(x, D, P \cup Done(D, o, v, k - 1))
    BY <1>2, <1>3
  <2>2. Restoring(RestoreRecord(x, D[o[k]], v), D, P \cup Done(D, o, v, k))
    BY <2>1, RestoreStep
  <2> QED
    BY <1>2, <1>3, <2>2
<1>7. \E h : Is(h)
  <2>0. Leads(N, G, step, m)
    BY <1>1, <1>2, <1>3, <1>4, <1>5, <1>6 DEF Leads
  <2>1. PICK h : Runs(h, N, G, step, m)
    BY <2>0, PassDefined
  <2>2. \A k \in 0 .. N : (IF k = 0 THEN m ELSE step[<<k, h[k - 1]>>]) = (IF k = 0 THEN m ELSE RestoreRecord(h[k - 1], D[o[k]], v))
    <3>1. \A k \in 0 .. N : k = 0 \/ (k # 0 /\ k \in 1 .. N)
      BY <1>1
    <3> QED
      BY <1>2, <1>3, <1>5, <2>1, <3>1 DEF Runs
  <2>3. Is(h)
    BY <2>1, <2>2 DEF Runs
  <2> QED
    BY <2>3
<1>8. Is(f)
  BY <1>7
<1>9. RestorePass(m, D, o, v) = f[N]
  BY DEF RestorePass
<1> HIDE DEF f
<1>10. f[0] = m /\ \A k \in 1 .. N : f[k] = RestoreRecord(f[k - 1], D[o[k]], v)
  <2>1. 0 \in 0 .. N /\ \A k \in 1 .. N : k # 0
    BY <1>1
  <2> QED
    BY <1>3, <1>8, <2>1
<1>11. f[N] \in G[N]
  <2>1. \A k \in 1 .. N : f[k - 1] \in G[k - 1] => f[k] \in G[k]
    BY <1>6, <1>10
  <2> HIDE DEF N
  <2> QED
    BY <1>1, <1>4, <1>10, <2>1, PassReaches
<1>12. N \in 0 .. N
  BY <1>1
<1> QED
  BY <1>2, <1>9, <1>11, <1>12

LEMMA OrderCovers ==
    ASSUME NEW o \in Orders, NEW y \in SessionIds
    PROVE  \E l \in 1 .. Cardinality(SessionIds) : o[l] = y
<1> DEFINE N == Cardinality(SessionIds)
<1>1. IsFiniteSet(SessionIds) /\ N \in Nat
  BY FS_CardinalityType DEF MediaAssumption
<1>2. o \in [1 .. N -> SessionIds] /\ \A a, b \in 1 .. N : o[a] = o[b] => a = b
  BY DEF Orders
<1>3. Cardinality(1 .. N) = N
  BY <1>1, FS_Interval
<1>4. o \in Injection(1 .. N, SessionIds)
  BY <1>2 DEF Injection, IsInjective
<1>5. o \in Surjection(1 .. N, SessionIds)
  BY <1>1, <1>3, <1>4, FS_Injection
<1> QED
  BY <1>5 DEF Surjection

Blank(m) == [m EXCEPT !.slot = NoSlots, !.route = StaticRoutes]

LEMMA BlankAgrees ==
    ASSUME NEW m \in Tables
    PROVE  /\ Blank(m) \in Tables /\ Blank(m).db = m.db /\ Blank(m).slot = NoSlots
           /\ SlotsAgree(Blank(m).slot, Blank(m).route)
<1>1. Empty \in Record
  BY DEF Empty, Record, Nil, MediaAssumption
<1>2. NoSlots \in [Index -> Record] /\ StaticRoutes \in [SessionSns -> PoolPorts \cup {Nil, StaticPort}]
  BY <1>1 DEF NoSlots, StaticRoutes
<1>3. Blank(m) \in Tables /\ Blank(m).db = m.db /\ Blank(m).slot = NoSlots
  BY <1>2 DEF Blank, Tables
<1>4. \A i \in Index : NoSlots[i].id = Nil /\ NoSlots[i].state = "empty" /\ ~LiveSession(NoSlots[i])
  BY DEF NoSlots, Empty, LiveSession
<1> QED
  BY <1>3, <1>4 DEF SlotsAgree

\* The live leases come back, each in its slot and with its route
LEMMA BootstrapKeeps ==
    ASSUME NEW m \in Tables, Stored(m.db.sess), Restorable(m.db.sess, sessionNow),
           sessionNow \in 0 .. MaxSessionTime, NEW o \in Orders
    PROVE  LET x == media_redis_bootstrap(Blank(m), o)
           IN  /\ x \in Tables /\ SlotsAgree(x.slot, x.route) /\ Stored(x.db.sess)
               /\ Linked(x.slot, x.db.sess, sessionNow)
<1> DEFINE D == m.db.sess
           N == Cardinality(SessionIds)
           one == RestorePass(Blank(m), D, o, 1)
           x == RestorePass(one, D, o, 2)
           P == {} \cup Done(D, o, 1, N)
           Q == P \cup Done(D, o, 2, N)
<1>1. media_redis_bootstrap(Blank(m), o) = x
  BY BlankAgrees DEF media_redis_bootstrap
<1>2. D \in [SessionIds -> Record]
  BY DEF Tables
<1>3. Restoring(Blank(m), D, {})
  <2>1. \A i \in Index : NoSlots[i].id = Nil /\ ~LiveSession(NoSlots[i])
    BY DEF NoSlots, Empty, LiveSession
  <2> QED
    BY <2>1, BlankAgrees DEF Restoring
<1> HIDE DEF D
<1>4. Restoring(one, D, P)
  BY <1>2, <1>3, RestorePassKeeps DEF D
<1>5. \A k \in 1 .. N : D[o[k]].ver = 2 => o[k] \notin P
  BY DEF Done
<1>6. Restoring(x, D, Q)
  <2> HIDE DEF one, P
  <2> QED
    BY <1>2, <1>4, <1>5, RestorePassKeeps DEF D
<1>7. Valid(D, sessionNow) \subseteq Q
  <2> SUFFICES ASSUME NEW y \in Valid(D, sessionNow) PROVE y \in Q
    OBVIOUS
  <2>1. y \in SessionIds /\ LiveSession(D[y])
    BY DEF Valid
  <2>2. PICK l \in 1 .. N : o[l] = y
    BY <2>1, OrderCovers
  <2>3. D[y].ver \in {1, 2}
    <3>1. D[y] # Empty
      BY <2>1 DEF Empty, LiveSession
    <3>2. D[y].ver # 0 /\ D[y].ver \in 0 .. 2
      BY <1>2, <2>1, <3>1 DEF Stored, Placed, Record, D
    <3> QED
      BY <3>2
  <2> QED
    BY <2>2, <2>3 DEF Done
<1> HIDE DEF x, Q
<1>8. Stored(x.db.sess)
  BY <1>6 DEF Restoring, Stored, D
<1>9. Linked(x.slot, x.db.sess, sessionNow)
  <2> SUFFICES ASSUME NEW y \in Valid(x.db.sess, sessionNow) PROVE HasSlot(x.slot, x.db.sess, y)
    BY DEF Linked
  <2>1. y \in SessionIds /\ x.db.sess[y] # Empty
    BY DEF Valid, Empty, LiveSession
  <2>2. x.db.sess[y] = D[y]
    BY <1>6, <2>1 DEF Restoring
  <2>3. y \in Valid(D, sessionNow)
    BY <2>2 DEF Valid
  <2> QED
    BY <1>6, <1>7, <2>2, <2>3 DEF Restoring, HasSlot
<1> QED
  BY <1>1, <1>6, <1>8, <1>9 DEF Restoring

-----------------------------------------------------------------------------
(* The actions.                                                            *)

LEMMA MemSound ==
    ASSUME SessionsInv
    PROVE  /\ Sound(SessionMem) /\ SessionMem.slot = slot /\ SessionMem.route = sessionRoute /\ SessionMem.db = db
           /\ SessionMem.janus = janus
BY DEF SessionsInv, Sound, SessionMem

LEMMA SessionsCommitted ==
    ASSUME NEW m, m \in Tables, CommitSessions(m)
    PROVE  SessionMem' = m /\ slot' = m.slot /\ sessionRoute' = m.route /\ db' = m.db
<1>1. m = [slot |-> m.slot, route |-> m.route, janus |-> m.janus, db |-> m.db]
  BY DEF Tables
<1> QED
  BY <1>1 DEF CommitSessions, SessionMem

\* What a handler leaves sound is so in the next state
LEMMA Finish ==
    ASSUME SessionsInv, NEW m, Sound(m), CommitSessions(m), UNCHANGED <<redisLink, sessionNow, serverBoots>>,
           fresh' \subseteq SessionSns
    PROVE  SessionsInv'
<1>1. m \in Tables /\ m.slot \in [Index -> Record] /\ SlotsAgree(m.slot, m.route) /\ Stored(m.db.sess)
  BY DEF Sound, Tables
<1>2. SessionMem' = m /\ slot' = m.slot /\ sessionRoute' = m.route /\ db' = m.db
  BY <1>1, SessionsCommitted
<1>3. Restorable(m.db.sess, sessionNow)
  <2>1. CASE redisLink = "ok"
    <3>1. Linked(m.slot, m.db.sess, sessionNow)
      BY <2>1 DEF Sound
    <3> QED
      BY <1>1, <3>1, LinkedRestorable
  <2>2. CASE redisLink # "ok"
    BY <2>2 DEF Sound, SessionsInv
  <2> QED
    BY <2>1, <2>2
<1>4. redisLink = "ok" => Linked(m.slot, m.db.sess, sessionNow)
  BY DEF Sound
<1>5. SlotsAgree(slot, sessionRoute)' /\ Stored(db.sess)' /\ Restorable(db.sess, sessionNow)'
  BY <1>1, <1>2, <1>3 DEF SlotsAgree, Stored, Restorable, Valid
<1>6. redisLink' = "ok" => Linked(slot, db.sess, sessionNow)'
  BY <1>2, <1>4 DEF Linked, Valid, HasSlot
<1> QED
  BY <1>1, <1>2, <1>5, <1>6 DEF SessionsInv

LEMMA StartV1Step ==
    ASSUME SessionsInv, UseFailed = FALSE, NEW x \in SessionIds, NEW v \in SessionSns, handle_media_session_start(x, v)
    PROVE  SessionsInv'
<1> DEFINE i == find_session_by_id(SessionMem, x)
<1>1. \A k \in Index : slot[k].id = x => slot[k].state # "failed"
  <2>1. CASE i = Nil
    BY <2>1, FoundById, MemSound
  <2>2. CASE i # Nil
    <3>1. slot[i].state # "failed"
      BY <2>2 DEF handle_media_session_start
    <3>2. i \in Index /\ slot[i].id = x
      BY <2>2, FoundById, MemSound
    <3> QED
      BY <3>1, <3>2, Basics DEF SessionsInv, SlotsAgree
  <2> QED
    BY <2>1, <2>2
<1>2. PICK j \in Outcome, device \in {Nil, v} : CommitSessions(StartV1(SessionMem, x, v, device, j))
  BY DEF handle_media_session_start
<1>3. Sound(StartV1(SessionMem, x, v, device, j))
  BY <1>1, MemSound, StartKeeps1
<1> QED
  BY <1>2, <1>3, Finish DEF handle_media_session_start, SessionsInv

LEMMA StartV2Step ==
    ASSUME SessionsInv, NEW x \in SessionIds, NEW v \in SessionSns, mv_start(x, v)
    PROVE  SessionsInv'
<1> DEFINE i == find_session_by_id(SessionMem, x)
<1>1. PICK j \in Outcome :
        LET m == expire_session_at(SessionMem, i, j)
            r == m.slot[i]
        IN  CommitSessions(IF i = Nil THEN StartFreshV2(SessionMem, x, v, j)
                           ELSE IF slot[i].ver # 2 \/ slot[i].sn # v THEN SessionMem
                           ELSE IF LiveSession(r) THEN janus_ensure_format(m, r.mp, r.port, x, j)
                           ELSE m)
  BY DEF mv_start
<1> DEFINE m == expire_session_at(SessionMem, i, j)
           r == m.slot[i]
<1>2. Sound(SessionMem) /\ i \in Index \cup {Nil}
  BY MemSound, FoundById
<1>3. Sound(m) /\ Ends(SessionMem, m)
  BY <1>2, ExpireEnds
<1>4. CASE i = Nil
  <2>1. Sound(StartFreshV2(SessionMem, x, v, j))
    BY <1>2, <1>4, FoundById, FreshV2Keeps
  <2> QED
    BY <1>1, <1>4, <2>1, Finish DEF mv_start, SessionsInv
<1>5. CASE i # Nil
  <2>1. \/ CommitSessions(SessionMem) \/ CommitSessions(m)
        \/ LiveSession(r) /\ CommitSessions(janus_ensure_format(m, r.mp, r.port, x, j))
    BY <1>1, <1>5
  <2>2. UNCHANGED <<redisLink, sessionNow, serverBoots>> /\ fresh' \subseteq SessionSns
    BY DEF mv_start, SessionsInv
  <2> HIDE DEF m
  <2>3. CASE LiveSession(r) /\ CommitSessions(janus_ensure_format(m, r.mp, r.port, x, j))
    <3>1. i \in Index
      BY <1>2, <1>5
    <3>2. m \in Tables /\ Placed(r)
      BY <1>3, <2>3, <3>1 DEF Sound, SlotsAgree, LiveSession
    <3>3. SameTables(m, janus_ensure_format(m, r.mp, r.port, x, j))
      BY <3>2, EnsureOnly DEF Placed
    <3>4. Sound(janus_ensure_format(m, r.mp, r.port, x, j))
      BY <1>3, <3>3, SameSound
    <3> QED
      BY <2>2, <2>3, <3>4, Finish
  <2> QED
    BY <1>2, <1>3, <2>1, <2>2, <2>3, Finish
<1> QED
  BY <1>4, <1>5

\* A live session's record is rewritten in its slot and saved
LEMMA RewriteStep ==
    ASSUME SessionsInv, NEW i \in Index, LiveSession(slot[i]), NEW r \in Record, LiveSession(r),
           r.id = slot[i].id, r.sn = slot[i].sn, r.port = slot[i].port, r.ver = slot[i].ver, r.mp = slot[i].mp
    PROVE  Sound(media_redis_save_session([SessionMem EXCEPT !.slot[i] = r], r))
<1> DEFINE y == [SessionMem EXCEPT !.slot[i] = r]
<1>1. Sound(SessionMem) /\ SessionMem \in Tables /\ slot \in [Index -> Record] /\ SlotsAgree(slot, sessionRoute)
  BY MemSound DEF Sound, Tables
<1>2. slot[i].id # Nil /\ slot[i].id \in SessionIds /\ Placed(slot[i])
  BY <1>1 DEF SlotsAgree, LiveSession, Record
<1>3. Placed(r) /\ r.id \in SessionIds /\ sessionRoute[r.sn] = r.port
  BY <1>1, <1>2 DEF Placed, SlotsAgree
<1>4. \A k \in Index : k # i => SessionMem.slot[k].id # r.id /\ (LiveSession(SessionMem.slot[k]) => SessionMem.slot[k].sn # r.sn)
  BY <1>1, <1>2, MemSound DEF SlotsAgree
<1>5. Sound(media_redis_save_session([SessionMem EXCEPT !.slot[i] = r, !.route[r.sn] = r.port], r))
  BY <1>1, <1>3, <1>4, MemSound, PutLive
<1>6. [SessionMem EXCEPT !.slot[i] = r, !.route[r.sn] = r.port] = y
  <2>1. r.sn \in SessionSns /\ sessionRoute \in [SessionSns -> PoolPorts \cup {Nil, StaticPort}]
    BY <1>1, <1>3, MemSound DEF Placed, Tables
  <2>2. [sessionRoute EXCEPT ![r.sn] = r.port] = sessionRoute
    BY <1>3, <2>1
  <2>3. \A e : [[slot |-> e, route |-> sessionRoute, janus |-> janus, db |-> db] EXCEPT !.route[r.sn] = r.port]
                 = [slot |-> e, route |-> [sessionRoute EXCEPT ![r.sn] = r.port], janus |-> janus, db |-> db]
    OBVIOUS
  <2>4. y = [slot |-> [slot EXCEPT ![i] = r], route |-> sessionRoute, janus |-> janus, db |-> db]
    BY DEF SessionMem
  <2>5. [y EXCEPT !.route[r.sn] = r.port] = y
    BY <2>2, <2>3, <2>4
  <2> QED
    BY <2>5
<1> QED
  BY <1>5, <1>6

LEMMA RenewStep ==
    ASSUME SessionsInv, NEW x \in SessionIds, RenewLease(x)
    PROVE  SessionsInv'
<1> DEFINE i == find_session_by_id(SessionMem, x)
           lease == [slot[i] EXCEPT !.until = sessionNow + TTL]
<1>1. i \in Index /\ LiveSession(slot[i]) /\ CommitSessions(media_redis_save_session([SessionMem EXCEPT !.slot[i] = lease], lease))
  BY FoundById DEF RenewLease
<1>2. slot \in [Index -> Record] /\ sessionNow + TTL \in 0 .. MaxSessionTime + TTL
  BY DEF SessionsInv, Tables, SessionMem, MediaAssumption
<1> HIDE DEF i
<1>3. /\ lease \in Record /\ LiveSession(lease) /\ lease.id = slot[i].id /\ lease.sn = slot[i].sn
      /\ lease.port = slot[i].port /\ lease.ver = slot[i].ver /\ lease.mp = slot[i].mp
  BY <1>1, <1>2 DEF Record, LiveSession
<1> HIDE DEF lease
<1>4. Sound(media_redis_save_session([SessionMem EXCEPT !.slot[i] = lease], lease))
  BY <1>1, <1>3, RewriteStep
<1> QED
  BY <1>1, <1>4, Finish DEF RenewLease, SessionsInv

LEMMA FirstMediaStep ==
    ASSUME SessionsInv, NEW v \in SessionSns, FirstMedia(v)
    PROVE  SessionsInv'
<1> DEFINE i == find_active_session_for_sn(SessionMem, v)
           on == [slot[i] EXCEPT !.state = "active"]
<1>1. \/ CommitSessions(SessionMem)
      \/ i # Nil /\ CommitSessions(media_redis_save_session([SessionMem EXCEPT !.slot[i] = on], on))
  BY DEF FirstMedia
<1>2. UNCHANGED <<redisLink, sessionNow, serverBoots>> /\ fresh' \subseteq SessionSns
  BY DEF FirstMedia, SessionsInv
<1>3. CASE CommitSessions(SessionMem)
  BY <1>2, <1>3, MemSound, Finish
<1>4. CASE i # Nil /\ CommitSessions(media_redis_save_session([SessionMem EXCEPT !.slot[i] = on], on))
  <2>1. i \in Index /\ LiveSession(slot[i])
    BY <1>4, FoundBySn, MemSound
  <2>2. slot \in [Index -> Record]
    BY DEF SessionsInv, Tables, SessionMem
  <2> HIDE DEF i
  <2>3. /\ on \in Record /\ LiveSession(on) /\ on.id = slot[i].id /\ on.sn = slot[i].sn
        /\ on.port = slot[i].port /\ on.ver = slot[i].ver /\ on.mp = slot[i].mp
    BY <2>1, <2>2 DEF Record, LiveSession
  <2> HIDE DEF on
  <2>4. Sound(media_redis_save_session([SessionMem EXCEPT !.slot[i] = on], on))
    BY <2>1, <2>3, RewriteStep
  <2> QED
    BY <1>2, <1>4, <2>4, Finish
<1> QED
  BY <1>1, <1>3, <1>4

LEMMA StopStep ==
    ASSUME SessionsInv, UseFailed = FALSE, NEW x \in SessionIds, StopRequest(x)
    PROVE  SessionsInv'
<1> DEFINE i == find_session_by_id(SessionMem, x)
<1>1. i # Nil /\ slot[i].state # "failed"
  BY DEF StopRequest
<1>2. i \in Index /\ slot[i].id = x
  BY <1>1, FoundById, MemSound
<1>3. \A k \in Index : SessionMem.slot[k].id = x => SessionMem.slot[k].state # "failed"
  BY <1>1, <1>2, MemSound, Basics DEF SessionsInv, SlotsAgree
<1>4. PICK j \in Reply : CommitSessions(stop_session_by_id(SessionMem, x, j))
  BY DEF StopRequest
<1>5. Sound(stop_session_by_id(SessionMem, x, j))
  BY <1>3, MemSound, StopEnds
<1> QED
  BY <1>4, <1>5, Finish DEF StopRequest, SessionsInv

LEMMA StopForSnStep ==
    ASSUME SessionsInv, NEW v \in SessionSns, stop_media_session_for_sn(v)
    PROVE  SessionsInv'
<1> DEFINE i == find_active_session_for_sn(SessionMem, v)
<1>1. i \in Index /\ LiveSession(slot[i])
  BY FoundBySn, MemSound DEF stop_media_session_for_sn
<1>2. PICK j \in Reply : CommitSessions(stop_session_by_id(SessionMem, slot[i].id, j))
  BY DEF stop_media_session_for_sn
<1> HIDE DEF i
<1>3. slot \in [Index -> Record] /\ SlotsAgree(slot, sessionRoute)
  BY DEF SessionsInv, Tables, SessionMem
<1>4. slot[i].id \in SessionIds /\ \A k \in Index : slot[k].id = slot[i].id => slot[k].state # "failed"
  BY <1>1, <1>3 DEF SlotsAgree, Record, LiveSession
<1>5. Sound(stop_session_by_id(SessionMem, slot[i].id, j))
  BY <1>4, MemSound, StopEnds
<1> QED
  BY <1>2, <1>5, Finish DEF stop_media_session_for_sn, SessionsInv

LEMMA HealthStep ==
    ASSUME SessionsInv, NEW x \in SessionIds, get_media_session_health(x)
    PROVE  SessionsInv'
<1> DEFINE i == find_session_by_id(SessionMem, x)
<1>1. i \in Index
  BY FoundById DEF get_media_session_health
<1>2. PICK j \in Reply : CommitSessions(expire_session_at(SessionMem, i, j))
  BY DEF get_media_session_health
<1> HIDE DEF i
<1>3. Sound(expire_session_at(SessionMem, i, j))
  BY <1>1, MemSound, ExpireEnds
<1> QED
  BY <1>2, <1>3, Finish DEF get_media_session_health, SessionsInv

LEMMA WatchdogStep ==
    ASSUME SessionsInv, Watchdog
    PROVE  SessionsInv'
<1>1. PICK j \in Reply : CommitSessions(ExpirePass(SessionMem, j))
  BY DEF Watchdog
<1>2. Sound(ExpirePass(SessionMem, j))
  BY MemSound, ExpirePassKeeps
<1> QED
  BY <1>1, <1>2, Finish DEF Watchdog, SessionsInv

LEMMA ReconcileStep ==
    ASSUME SessionsInv, reconcile_resources
    PROVE  SessionsInv'
<1> DEFINE y == [slot |-> slot, route |-> sessionRoute', janus |-> janus', db |-> db]
<1>1. slot \in [Index -> Record] /\ sessionRoute \in [SessionSns -> PoolPorts \cup {Nil, StaticPort}] /\ janus \in Mounts
  BY DEF SessionsInv, Tables, SessionMem
<1>2. janus' \in Mounts
  <2>1. PICK D \in SUBSET (PoolPorts \cup SessionSns) : janus \in [D -> [port : PoolPorts, pin : SessionIds]]
    BY <1>1 DEF Mounts
  <2> DEFINE A == {w \in DOMAIN janus : ~Orphan(w)}
  <2>2. A \in SUBSET (PoolPorts \cup SessionSns) /\ A \subseteq D
    BY <2>1
  <2>3. janus' = janus \/ janus' = [w \in A |-> janus[w]]
    BY DEF reconcile_resources
  <2> HIDE DEF A
  <2>4. [w \in A |-> janus[w]] \in [A -> [port : PoolPorts, pin : SessionIds]]
    BY <2>1, <2>2
  <2> QED
    BY <1>1, <2>2, <2>3, <2>4 DEF Mounts
<1>3. sessionRoute' \in [SessionSns -> PoolPorts \cup {Nil, StaticPort}]
  BY <1>1 DEF reconcile_resources
<1>4. y \in Tables
  BY <1>2, <1>3 DEF SessionsInv, Tables, SessionMem
<1>5. \A i \in Index : LiveSession(slot[i]) => sessionRoute'[slot[i].sn] = sessionRoute[slot[i].sn]
  <2> SUFFICES ASSUME NEW i \in Index, LiveSession(slot[i]) PROVE sessionRoute'[slot[i].sn] = sessionRoute[slot[i].sn]
    OBVIOUS
  <2>1. slot[i].sn \in SessionSns
    BY DEF SessionsInv, SlotsAgree, Placed, LiveSession
  <2>2. ~OrphanRoute(slot[i].sn)
    BY DEF OrphanRoute
  <2> QED
    BY <2>1, <2>2 DEF reconcile_resources
<1>6. SlotsAgree(slot, sessionRoute')
  <2>1. SlotsAgree(slot, sessionRoute)
    BY DEF SessionsInv
  <2> QED
    BY <1>5, <2>1 DEF SlotsAgree
<1>7. Sound(y)
  BY <1>4, <1>6, MemSound DEF Sound
<1>8. CommitSessions(y)
  BY DEF CommitSessions, reconcile_resources
<1> HIDE DEF y
<1> QED
  BY <1>7, <1>8, Finish DEF reconcile_resources, SessionsInv

LEMMA BootStep ==
    ASSUME SessionsInv, NEW m, Sound(m), Boot(m)
    PROVE  SessionsInv'
<1>1. m \in Tables /\ m.slot \in [Index -> Record] /\ SlotsAgree(m.slot, m.route) /\ Stored(m.db.sess)
      /\ sessionNow \in 0 .. MaxSessionTime
  BY DEF Sound, Tables
<1>2. Restorable(m.db.sess, sessionNow)
  <2>1. CASE redisLink = "ok"
    <3>1. Linked(m.slot, m.db.sess, sessionNow)
      BY <2>1 DEF Sound
    <3> QED
      BY <1>1, <3>1, LinkedRestorable
  <2>2. CASE redisLink # "ok"
    BY <2>2 DEF Sound, SessionsInv
  <2> QED
    BY <2>1, <2>2
<1>3. /\ redisLink' \in {"ok", "gone"} /\ fresh' = {} /\ sessionNow' = sessionNow
      /\ serverBoots' \in 0 .. MaxServerBoots
  BY DEF Boot, SessionsInv, MediaAssumption
<1>4. \E x \in Tables : /\ CommitSessions(x) /\ SlotsAgree(x.slot, x.route) /\ Stored(x.db.sess)
                        /\ Restorable(x.db.sess, sessionNow)
                        /\ redisLink' = "ok" => Linked(x.slot, x.db.sess, sessionNow)
  <2>1. CASE redisLink' = "ok"
    <3>1. PICK o \in Orders : CommitSessions(media_redis_bootstrap(Blank(m), o))
      BY <2>1 DEF Boot, Blank
    <3> DEFINE x == media_redis_bootstrap(Blank(m), o)
    <3>2. /\ x \in Tables /\ SlotsAgree(x.slot, x.route) /\ Stored(x.db.sess)
          /\ Linked(x.slot, x.db.sess, sessionNow)
      BY <1>1, <1>2, BootstrapKeeps
    <3> HIDE DEF x
    <3>3. Restorable(x.db.sess, sessionNow)
      BY <3>2, LinkedRestorable DEF Tables
    <3> QED
      BY <3>1, <3>2, <3>3 DEF x
  <2>2. CASE redisLink' # "ok"
    <3>1. CommitSessions(Blank(m))
      BY <2>2 DEF Boot, Blank
    <3> QED
      BY <1>1, <1>2, <2>2, <3>1, BlankAgrees
  <2> QED
    BY <2>1, <2>2
<1>5. PICK x \in Tables : /\ CommitSessions(x) /\ SlotsAgree(x.slot, x.route) /\ Stored(x.db.sess)
                          /\ Restorable(x.db.sess, sessionNow)
                          /\ redisLink' = "ok" => Linked(x.slot, x.db.sess, sessionNow)
  BY <1>4
<1>6. SessionMem' = x /\ slot' = x.slot /\ sessionRoute' = x.route /\ db' = x.db
  BY <1>5, SessionsCommitted
<1>7. SlotsAgree(slot, sessionRoute)' /\ Stored(db.sess)' /\ Restorable(db.sess, sessionNow)'
  BY <1>3, <1>5, <1>6 DEF SlotsAgree, Stored, Restorable, Valid
<1>8. redisLink' = "ok" => Linked(slot, db.sess, sessionNow)'
  BY <1>3, <1>5, <1>6 DEF Linked, Valid, HasSlot
<1> QED
  BY <1>1, <1>3, <1>6, <1>7, <1>8 DEF SessionsInv

LEMMA TickStep ==
    ASSUME SessionsInv, SessionsTick
    PROVE  SessionsInv'
<1> DEFINE E == [x \in SessionIds |-> IF db.sess[x].until < sessionNow THEN Empty ELSE db.sess[x]]
           F == [v \in SessionSns |-> IF db.sn[v] < sessionNow THEN Nil ELSE db.sn[v]]
<1>1. /\ SessionMem \in Tables /\ slot \in [Index -> Record] /\ db.sess \in [SessionIds -> Record]
      /\ db.sn \in [SessionSns -> 0 .. MaxSessionTime + TTL] /\ sessionNow \in 0 .. MaxSessionTime
  BY DEF SessionsInv, Tables, SessionMem
<1>2. /\ sessionNow' = sessionNow + 1 /\ sessionNow' \in 0 .. MaxSessionTime /\ fresh' \subseteq SessionSns
      /\ UNCHANGED <<slot, sessionRoute, janus, redisLink, serverBoots>>
  BY <1>1 DEF SessionsTick, SessionsInv, MediaAssumption
<1>3. Empty \in Record /\ Nil \in 0 .. MaxSessionTime + TTL
  BY DEF Empty, Record, Nil, MediaAssumption
<1>4. E \in [SessionIds -> Record] /\ F \in [SessionSns -> 0 .. MaxSessionTime + TTL]
  BY <1>1, <1>3
<1>5. db' = db \/ db' = [sess |-> E, sn |-> F]
  BY DEF SessionsTick
<1>6. SessionMem' \in Tables
  <2> HIDE DEF E, F
  <2> QED
    BY <1>1, <1>2, <1>4, <1>5 DEF Tables, SessionMem
<1>7. \A x \in SessionIds : db'.sess[x] = db.sess[x] \/ db'.sess[x] = Empty
  BY <1>5
<1> HIDE DEF E, F
<1>8. Stored(db.sess)'
  BY <1>7 DEF SessionsInv, Stored, Placed
<1>9. /\ Valid(db'.sess, sessionNow') \subseteq Valid(db.sess, sessionNow)
      /\ \A x \in Valid(db'.sess, sessionNow') : db'.sess[x].sn = db.sess[x].sn
  <2> SUFFICES ASSUME NEW x \in Valid(db'.sess, sessionNow')
               PROVE  x \in Valid(db.sess, sessionNow) /\ db'.sess[x].sn = db.sess[x].sn
    OBVIOUS
  <2>1. x \in SessionIds /\ LiveSession(db'.sess[x]) /\ db'.sess[x].until > sessionNow'
    BY DEF Valid
  <2>2. db'.sess[x] = db.sess[x]
    BY <1>7, <2>1 DEF LiveSession, Empty
  <2>3. db.sess[x].until \in Nat
    <3>1. db.sess[x] \in Record
      BY <1>1, <2>1
    <3> QED
      BY <3>1 DEF Record, MediaAssumption
  <2>4. db.sess[x].until > sessionNow
    BY <1>1, <1>2, <2>1, <2>2, <2>3
  <2> QED
    BY <2>1, <2>2, <2>4 DEF Valid
<1>10. Restorable(db.sess, sessionNow)'
  <2> DEFINE V == Valid(db.sess, sessionNow)
             W == Valid(db'.sess, sessionNow')
  <2>1. IsFiniteSet(V) /\ Cardinality(V) \in Nat /\ Cardinality(V) <= MaxSessions
    <3>1. V \subseteq SessionIds /\ IsFiniteSet(SessionIds)
      BY DEF Valid, MediaAssumption
    <3> QED
      BY <3>1, FS_Subset, FS_CardinalityType DEF SessionsInv, Restorable
  <2>2. Cardinality(W) \in Nat /\ Cardinality(W) <= Cardinality(V)
    <3> HIDE DEF V, W
    <3>1. W \subseteq V
      BY <1>9 DEF V, W
    <3> QED
      BY <2>1, <3>1, FS_Subset, FS_CardinalityType
  <2>3. \A x, y \in W : db'.sess[x].sn = db'.sess[y].sn => x = y
    BY <1>9 DEF SessionsInv, Restorable
  <2>4. Cardinality(W) <= MaxSessions
    BY <2>1, <2>2 DEF MediaAssumption
  <2> QED
    BY <2>3, <2>4 DEF Restorable, Valid
<1>11. redisLink' = "ok" => Linked(slot, db.sess, sessionNow)'
  <2> SUFFICES ASSUME redisLink' = "ok", NEW x \in Valid(db'.sess, sessionNow') PROVE HasSlot(slot, db'.sess, x)
    BY <1>2 DEF Linked, Valid, HasSlot
  <2>1. HasSlot(slot, db.sess, x)
    BY <1>2, <1>9 DEF SessionsInv, Linked
  <2> QED
    BY <1>9, <2>1 DEF HasSlot
<1>12. SlotsAgree(slot, sessionRoute)'
  BY <1>2 DEF SessionsInv, SlotsAgree
<1> QED
  BY <1>2, <1>6, <1>8, <1>10, <1>11, <1>12 DEF SessionsInv

LEMMA OtherSteps ==
    ASSUME SessionsInv, JanusRestart \/ RedisGone \/ UNCHANGED sessionVars
    PROVE  SessionsInv'
<1>1. CASE JanusRestart
  <2> DEFINE y == [slot |-> slot, route |-> sessionRoute, janus |-> janus', db |-> db]
  <2>1. janus' \in Mounts
    <3>1. janus' = [x \in {} |-> 0]
      BY <1>1 DEF JanusRestart
    <3>2. janus' \in [{} -> [port : PoolPorts, pin : SessionIds]] /\ {} \in SUBSET (PoolPorts \cup SessionSns)
      BY <3>1
    <3> QED
      BY <3>2 DEF Mounts
  <2>2. SameTables(SessionMem, y)
    BY <2>1 DEF SessionsInv, SameTables, Tables, SessionMem
  <2>3. Sound(y)
    BY <2>2, MemSound, SameSound
  <2>4. CommitSessions(y)
    BY <1>1 DEF CommitSessions, JanusRestart
  <2> HIDE DEF y
  <2> QED
    BY <1>1, <2>3, <2>4, Finish DEF JanusRestart, SessionsInv
<1>2. CASE RedisGone
  BY <1>2 DEF RedisGone, SessionsInv, SessionMem, SlotsAgree, Stored, Restorable, Valid
<1>3. CASE UNCHANGED sessionVars
  <2>1. /\ SessionMem' = SessionMem /\ slot' = slot /\ sessionRoute' = sessionRoute /\ db' = db
        /\ UNCHANGED <<redisLink, fresh, sessionNow, serverBoots>>
    BY <1>3 DEF sessionVars, SessionMem
  <2>2. SlotsAgree(slot, sessionRoute)' /\ Stored(db.sess)'
    BY <2>1 DEF SessionsInv, SlotsAgree, Stored
  <2>3. Restorable(db.sess, sessionNow)' /\ (redisLink' = "ok" => Linked(slot, db.sess, sessionNow)')
    BY <2>1 DEF SessionsInv, Restorable, Valid, Linked, HasSlot
  <2> QED
    BY <2>1, <2>2, <2>3 DEF SessionsInv
<1> QED
  BY <1>1, <1>2, <1>3

LEMMA SessionsInitial == SessionsInit => SessionsInv
<1> SUFFICES ASSUME SessionsInit PROVE SessionsInv
  OBVIOUS
<1>1. Empty \in Record /\ Nil \in 0 .. MaxSessionTime + TTL
  BY DEF Empty, Record, Nil, MediaAssumption
<1>2. janus \in Mounts
  <2>1. janus \in [{} -> [port : PoolPorts, pin : SessionIds]] /\ {} \in SUBSET (PoolPorts \cup SessionSns)
    BY DEF SessionsInit
  <2> QED
    BY <2>1 DEF Mounts
<1>3. SessionMem \in Tables
  BY <1>1, <1>2 DEF SessionMem, Tables, SessionsInit, NoSlots, StaticRoutes
<1>4. \A i \in Index : slot[i].id = Nil /\ slot[i].state = "empty" /\ ~LiveSession(slot[i])
  BY DEF SessionsInit, NoSlots, Empty, LiveSession
<1>5. SlotsAgree(slot, sessionRoute)
  BY <1>4 DEF SlotsAgree
<1>6. \A x \in SessionIds : db.sess[x] = Empty
  BY DEF SessionsInit
<1>7. Valid(db.sess, sessionNow) = {}
  <2>1. ~LiveSession(Empty)
    BY DEF Empty, LiveSession
  <2> QED
    BY <1>6, <2>1 DEF Valid
<1>8. Restorable(db.sess, sessionNow)
  BY <1>7, FS_EmptySet DEF Restorable, MediaAssumption
<1>9. Stored(db.sess) /\ Linked(slot, db.sess, sessionNow)
  BY <1>6, <1>7 DEF Stored, Linked
<1>10. /\ redisLink \in {"ok", "gone"} /\ fresh \subseteq SessionSns
       /\ sessionNow \in 0 .. MaxSessionTime /\ serverBoots \in 0 .. MaxServerBoots
  BY DEF SessionsInit, MediaAssumption
<1> QED
  BY <1>3, <1>5, <1>8, <1>9, <1>10 DEF SessionsInv

\* The tables stay sound through every handler, restart, loss of Redis and tick of the clock.
LEMMA SessionsInductive ==
    ASSUME UseFailed = FALSE
    PROVE  SessionsSpec => []SessionsInv
<1>1. SessionsInit => SessionsInv
  BY SessionsInitial
<1>2. SessionsInv /\ [SessionsNext]_sessionVars => SessionsInv'
  <2> SUFFICES ASSUME SessionsInv, [SessionsNext]_sessionVars PROVE SessionsInv'
    OBVIOUS
  <2>1. ASSUME NEW x \in SessionIds, NEW v \in SessionSns, handle_media_session_start(x, v) \/ mv_start(x, v)
        PROVE  SessionsInv'
    BY <2>1, StartV1Step, StartV2Step
  <2>2. ASSUME NEW x \in SessionIds, RenewLease(x) \/ StopRequest(x) \/ get_media_session_health(x) PROVE SessionsInv'
    BY <2>2, RenewStep, StopStep, HealthStep
  <2>3. ASSUME NEW v \in SessionSns, stop_media_session_for_sn(v) \/ FirstMedia(v) PROVE SessionsInv'
    BY <2>3, StopForSnStep, FirstMediaStep
  <2>4. CASE Watchdog \/ reconcile_resources
    BY <2>4, WatchdogStep, ReconcileStep
  <2>5. CASE ServerCrash
    BY <2>5, MemSound, BootStep DEF ServerCrash
  <2>6. CASE Shutdown
    BY <2>6, MemSound, StopPassKeeps, BootStep DEF Shutdown
  <2>7. CASE SessionsTick
    BY <2>7, TickStep
  <2>8. CASE JanusRestart \/ RedisGone \/ UNCHANGED sessionVars
    BY <2>8, OtherSteps
  <2> QED
    BY <2>1, <2>2, <2>3, <2>4, <2>5, <2>6, <2>7, <2>8 DEF SessionsNext
<1> QED
  BY <1>1, <1>2, PTL DEF SessionsSpec

LEMMA InvTyped == SessionsInv => SessionsTypeOK
<1> SUFFICES ASSUME SessionsInv PROVE SessionsTypeOK
  OBVIOUS
<1>1. SessionMem \in Tables
  BY DEF SessionsInv
<1>2. slot \in [Index -> Record] /\ sessionRoute \in [SessionSns -> PoolPorts \cup {Nil, StaticPort}] /\ janus \in Mounts
      /\ db.sess \in [SessionIds -> Record] /\ db.sn \in [SessionSns -> 0 .. MaxSessionTime + TTL]
  BY <1>1 DEF Tables, SessionMem
<1>3. DOMAIN janus \subseteq PoolPorts \cup SessionSns /\ \A x \in DOMAIN janus : janus[x] \in [port : PoolPorts, pin : SessionIds]
  <2>1. PICK D \in SUBSET (PoolPorts \cup SessionSns) : janus \in [D -> [port : PoolPorts, pin : SessionIds]]
    BY <1>2 DEF Mounts
  <2> QED
    BY <2>1
<1> QED
  BY <1>2, <1>3 DEF SessionsTypeOK, SessionsInv

\* The session table, the routes, the mountpoints and the records keep their types:
\* no handler, pass or restart writes an index, a port or a record out of range.
THEOREM SessionsTyped ==
    ASSUME UseFailed = FALSE
    PROVE  SessionsSpec => []SessionsTypeOK
BY SessionsInductive, InvTyped, PTL

\* A live session's serial number leads to the session's ports, through starts, stops,
\* expiry, reconciliation and restarts from Redis, as long as callers do not use again
\* a session_id whose start failed (stop_media_session finds that record first).
THEOREM LiveRoutedSafe ==
    ASSUME UseFailed = FALSE
    PROVE  SessionsSpec => []LiveRouted
<1>1. SessionsInv => LiveRouted
  BY DEF SessionsInv, SlotsAgree, LiveRouted
<1> QED
  BY <1>1, SessionsInductive, PTL

=============================================================================
