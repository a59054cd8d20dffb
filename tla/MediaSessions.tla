---------------------------- MODULE MediaSessions ----------------------------
(***************************************************************************)
(* On-demand media sessions of the ingress server: the session table, the  *)
(* route table, the Janus mountpoints and the Redis ownership records      *)
(* (l4media/ingress/src/media_lifecycle.h, media_v2.h, media_janus.h,      *)
(* media_redis.h, and the watchdog, shutdown and boot of                   *)
(* l4media_ingress.c).                                                     *)
(*                                                                         *)
(* The server is one thread, so a handler is one step.  Its working state  *)
(* is passed through the operators below as a record m of the four tables, *)
(* the way the C functions share their globals.  A mountpoint's pin is the *)
(* session it was made for; an operation_id and the texts of the answers   *)
(* decide nothing below and are left out.                                  *)
(***************************************************************************)
EXTENDS Naturals, FiniteSets

CONSTANTS SessionIds, SessionSns, \* session ids; serial numbers, which are also the device ids
          PoolPorts,          \* RTP/RTCP pairs of the pool, numbers
          MaxSessions,        \* MAX_MEDIA_SESSIONS
          StaticSns,          \* serial numbers with a line in routes.conf
          StaticPort,         \* the port of such a line, outside the pool
          TTL, MaxSessionTime, \* a lease's length, bound on the clock
          MaxServerBoots,     \* bound on restarts of the server
          UseFailed           \* do callers start or stop a session_id whose start failed?

Nil == 0
\* What the constants satisfy
ASSUME MediaAssumption ==
    /\ MaxSessions \in Nat \ {0} /\ PoolPorts \subseteq Nat \ {0} /\ TTL \in Nat \ {0}
    /\ MaxSessionTime \in Nat /\ MaxServerBoots \in Nat
    /\ IsFiniteSet(SessionIds) /\ SessionIds \subseteq Nat \ {0}
    /\ StaticSns \subseteq SessionSns /\ StaticPort \notin PoolPorts
    /\ SessionSns \subseteq Nat \ ({0} \cup PoolPorts)
    /\ UseFailed \in BOOLEAN

VARIABLES slot,   \* g_media_sessions
          sessionRoute,  \* g_routes: [SessionSns -> port or Nil]
          janus,  \* Janus: [mountpoint -> [port, pin]], a partial function
          db,     \* Redis: [sess: [SessionIds -> record or Empty], sn: [SessionSns -> expiry or Nil]]
          redisLink,  \* the connection made at boot: "ok" or "gone"
          fresh,  \* serial numbers with RTP within the reconcile grace
          sessionNow, serverBoots

sessionVars == <<slot, sessionRoute, janus, db, redisLink, fresh, sessionNow, serverBoots>>
SessionMem == [slot |-> slot, route |-> sessionRoute, janus |-> janus, db |-> db]

Empty == [id |-> Nil, sn |-> Nil, ver |-> 0, state |-> "empty", port |-> Nil, mp |-> Nil, until |-> 0, at |-> 0]
LiveSession(s) == s.state \in {"starting", "active"}
Index == 1 .. MaxSessions

\* What a handler did to the tables becomes the next state.
CommitSessions(m) == slot' = m.slot /\ sessionRoute' = m.route /\ janus' = m.janus /\ db' = m.db

-----------------------------------------------------------------------------
(* Lookups.                                                                *)

\* The lowest of a set of numbers, Nil if there is none.
Lowest(S) == IF S = {} THEN Nil ELSE CHOOSE i \in S : \A j \in S : i <= j

find_session_by_id(m, id) == Lowest({i \in Index : m.slot[i].id = id})

find_active_session_for_sn(m, sn) == Lowest({i \in Index : LiveSession(m.slot[i]) /\ m.slot[i].sn = sn})

allocate_port_pair(m) ==
    Lowest({p \in PoolPorts : /\ \A sn \in SessionSns : m.route[sn] # p
                              /\ \A i \in Index : LiveSession(m.slot[i]) => m.slot[i].port # p})

\* An empty slot, else the one that ended first; a failed one has no end time.
allocate_session_slot(m) ==
    LET empty == {i \in Index : m.slot[i].state = "empty"}
        ended == {i \in Index : m.slot[i].state \in {"stopped", "failed"}}
    IN  IF empty # {} THEN Lowest(empty)
        ELSE Lowest({i \in ended : \A j \in ended : m.slot[i].at <= m.slot[j].at})

-----------------------------------------------------------------------------
(* The stores.                                                             *)

\* j says how Janus answers this handler: "up", "down", or "lost" (the request
\* that changes something is carried out and its answer is lost).
Outcome == {"up", "down", "lost"}
Reply == {"up", "down"} \* where only a destroy can be asked for

janus_destroy_mountpoint(m, mp, j) ==
    IF j = "down" THEN m
    ELSE [m EXCEPT !.janus = [x \in DOMAIN m.janus \ {mp} |-> m.janus[x]]]

\* Janus cannot bind a port that another mountpoint has.
Bindable(m, port) == \A x \in DOMAIN m.janus : m.janus[x].port # port

janus_create_format(m, mp, port, pin) ==
    [m EXCEPT !.janus = [x \in DOMAIN m.janus \cup {mp} |->
                            IF x = mp THEN [port |-> port, pin |-> pin] ELSE m.janus[x]]]

\* janus_ensure_format: what is there is taken only if it is the same, and is
\* never reconfigured; otherwise it is made.
EnsureSame(m, mp, port, pin) == mp \in DOMAIN m.janus /\ m.janus[mp] = [port |-> port, pin |-> pin]
janus_ensure_format(m, mp, port, pin, j) ==
    IF j # "down" /\ mp \notin DOMAIN m.janus /\ Bindable(m, port)
    THEN janus_create_format(m, mp, port, pin) ELSE m
EnsureOk(m, mp, port, pin, j) ==
    \/ j # "down" /\ EnsureSame(m, mp, port, pin)
    \/ j = "up" /\ mp \notin DOMAIN m.janus /\ Bindable(m, port)

media_redis_drop_session(m, s) ==
    IF redisLink # "ok" THEN m ELSE [m EXCEPT !.db.sess[s.id] = Empty, !.db.sn[s.sn] = Nil]

\* media_redis_save_session with save_route, and mv_persist, which for a session
\* that is over keeps the record and touches no other key.
media_redis_save_session(m, s) ==
    IF redisLink # "ok" THEN m
    ELSE IF LiveSession(s) THEN [m EXCEPT !.db.sess[s.id] = s, !.db.sn[s.sn] = s.until]
    ELSE [m EXCEPT !.db.sess[s.id] = s]

-----------------------------------------------------------------------------
(* Stop and expiry.                                                        *)

\* stop_media_session: the record found by id, its SN's route, its mountpoint
\* (a failure to destroy is ignored) and its Redis keys.
stop_session_by_id(m, id, j) ==
    LET i == find_session_by_id(m, id)
        s == m.slot[i]
        e == [s EXCEPT !.state = "stopped", !.at = sessionNow]
        a == janus_destroy_mountpoint([m EXCEPT !.route[s.sn] = Nil], s.mp, j)
        b == media_redis_drop_session([a EXCEPT !.slot[i] = e], s)
    IN  IF i = Nil THEN m ELSE IF s.state = "stopped" THEN m
        ELSE IF s.ver = 2 THEN media_redis_save_session(b, e) ELSE b

expire_session_at(m, i, j) ==
    IF i = Nil THEN m
    ELSE IF LiveSession(m.slot[i]) /\ m.slot[i].until <= sessionNow
    THEN stop_session_by_id(m, m.slot[i].id, j) ELSE m

-----------------------------------------------------------------------------
(* Start, renew, health.                                                   *)

Candidate(id, sn, ver, port, mp) == [id |-> id, sn |-> sn, ver |-> ver, state |-> "starting",
                                     port |-> port, mp |-> mp, until |-> sessionNow + TTL, at |-> 0]

\* Steps 2 to 7 of handle_media_session_start: the device must be free, then
\* ports, slot, mountpoint, route, activation, ownership.
StartFresh(m0, id, sn, device, j) ==
    LET m == expire_session_at(m0, find_active_session_for_sn(m0, sn), j)
        busy == find_active_session_for_sn(m, sn)
        port == allocate_port_pair(m)
        i == allocate_session_slot(m)
        c == Candidate(id, sn, 1, port, IF device # Nil THEN device ELSE port)
        made == janus_ensure_format(m, c.mp, port, id, j)
        on == [c EXCEPT !.state = "active"]
        routed == [made EXCEPT !.slot[i] = on, !.route[sn] = port]
    IN  IF busy # Nil /\ m.slot[busy].id # id THEN m
        ELSE IF port = Nil \/ i = Nil THEN m
        ELSE IF ~EnsureOk(m, c.mp, port, id, j)
        THEN [made EXCEPT !.slot[i] = [c EXCEPT !.state = "failed"]]
        ELSE media_redis_save_session(routed, on)

\* handle_media_session_start: idempotent on a live session of the id, refused on
\* one that is over, otherwise (absent or failed) a fresh start.
StartV1(m0, id, sn, device, j) ==
    LET i0 == find_session_by_id(m0, id)
        m == expire_session_at(m0, i0, j)
        s == m.slot[i0]
        kept == janus_ensure_format(m, s.mp, s.port, id, j)
        lease == [s EXCEPT !.until = sessionNow + TTL]
    IN  IF i0 = Nil THEN StartFresh(m, id, sn, device, j)
        ELSE IF s.ver = 2 THEN m
        ELSE IF LiveSession(s) THEN
            IF s.sn # sn \/ ~EnsureOk(m, s.mp, s.port, id, j) THEN kept
            ELSE media_redis_save_session([kept EXCEPT !.slot[i0] = lease, !.route[sn] = s.port], lease)
        ELSE IF s.state = "stopped" THEN m
        ELSE StartFresh(m, id, sn, device, j)

\* media_v1_conflicts: a v1 request for a v2 session, or for an SN a v2 session
\* streams from, is refused before its handler.
media_v1_conflicts(m, id, sn) ==
    LET i == find_session_by_id(m, id)
        a == find_active_session_for_sn(m, sn)
    IN  \/ i # Nil /\ m.slot[i].ver = 2
        \/ i = Nil /\ a # Nil /\ m.slot[a].ver = 2

handle_media_session_start(id, sn) ==
    /\ ~media_v1_conflicts(SessionMem, id, sn)
    /\ LET i == find_session_by_id(SessionMem, id)
       IN  IF i = Nil THEN TRUE ELSE UseFailed \/ slot[i].state # "failed"
    /\ \E j \in Outcome, device \in {Nil, sn} : CommitSessions(StartV1(SessionMem, id, sn, device, j))
    /\ UNCHANGED <<redisLink, fresh, sessionNow, serverBoots>>

\* mv_start makes its mountpoint itself: one that is there is never adopted.
FreshMountpoint(m, mp, port, id, j) == j = "up" /\ mp \notin DOMAIN m.janus /\ Bindable(m, port)

\* mv_start for a new session.  The slot is cleared before Janus is asked.
StartFreshV2(m0, id, sn, j) ==
    LET m == expire_session_at(m0, find_active_session_for_sn(m0, sn), j)
        port == allocate_port_pair(m)
        i == allocate_session_slot(m)
        c == Candidate(id, sn, 2, port, port)
        cleared == [m EXCEPT !.slot[i] = Empty]
        made == janus_ensure_format(cleared, c.mp, port, id, j)
        routed == [made EXCEPT !.slot[i] = c, !.route[sn] = port]
    IN  IF find_active_session_for_sn(m, sn) # Nil THEN m
        ELSE IF port = Nil \/ i = Nil THEN m
        ELSE IF c.mp \in DOMAIN m.janus /\ ~FreshMountpoint(m, c.mp, port, id, j) THEN cleared
        ELSE IF ~FreshMountpoint(m, c.mp, port, id, j) THEN made
        ELSE media_redis_save_session(routed, c)

\* mv_start: a session of the id must be the very same; a live one has its
\* mountpoint ensured, one that is over is reported as it is.
mv_start(id, sn) ==
    /\ \E j \in Outcome :
          LET i == find_session_by_id(SessionMem, id)
              m == expire_session_at(SessionMem, i, j)
              s == m.slot[i]
          IN  CommitSessions(IF i = Nil THEN StartFreshV2(SessionMem, id, sn, j)
                     ELSE IF slot[i].ver # 2 \/ slot[i].sn # sn THEN SessionMem
                     ELSE IF LiveSession(s) THEN janus_ensure_format(m, s.mp, s.port, id, j)
                     ELSE m)
    /\ UNCHANGED <<redisLink, fresh, sessionNow, serverBoots>>

\* renew_media_session and mv_update(renew): only a live session whose lease
\* still runs; v1 by the record its id finds.
RenewLease(id) ==
    LET i == find_session_by_id(SessionMem, id)
        lease == [slot[i] EXCEPT !.until = sessionNow + TTL]
    IN  /\ i # Nil
        /\ LiveSession(slot[i]) /\ slot[i].until > sessionNow
        /\ CommitSessions(media_redis_save_session([SessionMem EXCEPT !.slot[i] = lease], lease))
        /\ UNCHANGED <<redisLink, fresh, sessionNow, serverBoots>>

\* The stop endpoints: by id, or by SN, which finds the live session of the SN
\* and stops it by its id; mv_update(stop).
StopRequest(id) ==
    /\ LET i == find_session_by_id(SessionMem, id)
       IN  IF i = Nil THEN FALSE ELSE UseFailed \/ slot[i].state # "failed"
    /\ \E j \in Reply : CommitSessions(stop_session_by_id(SessionMem, id, j))
    /\ UNCHANGED <<redisLink, fresh, sessionNow, serverBoots>>

stop_media_session_for_sn(sn) ==
    LET i == find_active_session_for_sn(SessionMem, sn)
    IN  /\ i # Nil
        /\ \E j \in Reply : CommitSessions(stop_session_by_id(SessionMem, slot[i].id, j))
        /\ UNCHANGED <<redisLink, fresh, sessionNow, serverBoots>>

\* get_media_session_health expires the session it reports on.
get_media_session_health(id) ==
    LET i == find_session_by_id(SessionMem, id)
    IN  /\ i # Nil
        /\ \E j \in Reply : CommitSessions(expire_session_at(SessionMem, i, j))
        /\ UNCHANGED <<redisLink, fresh, sessionNow, serverBoots>>

-----------------------------------------------------------------------------
(* Watchdog, reconciliation, media.                                        *)

ExpirePass(m, j) ==
    LET after[k \in 0 .. MaxSessions] == IF k = 0 THEN m ELSE expire_session_at(after[k - 1], k, j)
    IN  after[MaxSessions]

\* The loop's pass over every session.
Watchdog == /\ \E j \in Reply : CommitSessions(ExpirePass(SessionMem, j))
            /\ UNCHANGED <<redisLink, fresh, sessionNow, serverBoots>>

\* media_redis_owns_sn, and the RTP grace.
Protected(sn) == sn \in fresh \/ (redisLink = "ok" /\ db.sn[sn] # Nil)

find_sn_for_mountpoint(mp) ==
    LET i == Lowest({k \in Index : slot[k].id # Nil /\ slot[k].mp = mp})
    IN  IF i = Nil THEN Nil ELSE slot[i].sn

\* A mountpoint of no live session, whose last known SN is not protected.
Orphan(mp) == /\ ~\E i \in Index : LiveSession(slot[i]) /\ slot[i].mp = mp
              /\ find_sn_for_mountpoint(mp) # Nil => ~Protected(find_sn_for_mountpoint(mp))

\* Mutant: the sessions are not asked.
OrphanRoute_Owned(sn) == sessionRoute[sn] # Nil /\ sn \notin StaticSns /\ ~Protected(sn)

OrphanRoute(sn) == /\ sessionRoute[sn] # Nil /\ sn \notin StaticSns
                   /\ ~\E i \in Index : LiveSession(slot[i]) /\ slot[i].sn = sn
                   /\ ~Protected(sn)

\* reconcile_resources: mountpoints if Janus answers, dynamic routes always.
reconcile_resources ==
    /\ \E j \in Reply :
          janus' = IF j = "down" THEN janus ELSE [x \in {y \in DOMAIN janus : ~Orphan(y)} |-> janus[x]]
    /\ sessionRoute' = [sn \in SessionSns |-> IF OrphanRoute(sn) THEN Nil ELSE sessionRoute[sn]]
    /\ UNCHANGED <<slot, db, redisLink, fresh, sessionNow, serverBoots>>

\* A publisher's RTP frame: media is fresh, and a v2 session that waited for it
\* becomes active and is saved.
FirstMedia(sn) ==
    LET i == find_active_session_for_sn(SessionMem, sn)
        on == [slot[i] EXCEPT !.state = "active"]
    IN  /\ fresh' = fresh \cup {sn}
        /\ IF i = Nil \/ sessionRoute[sn] = Nil THEN CommitSessions(SessionMem)
           ELSE IF slot[i].ver = 2 /\ slot[i].state = "starting"
           THEN CommitSessions(media_redis_save_session([SessionMem EXCEPT !.slot[i] = on], on))
           ELSE CommitSessions(SessionMem)
        /\ UNCHANGED <<redisLink, sessionNow, serverBoots>>

-----------------------------------------------------------------------------
(* Boot, shutdown, the environment.                                        *)

\* media_redis_restore_one: only a live lease survives; the rest is dropped.
media_redis_restore_one(m, r) ==
    LET i == allocate_session_slot(m)
    IN  IF i = Nil THEN m
        ELSE IF LiveSession(r) /\ r.until > sessionNow
        THEN [m EXCEPT !.slot[i] = [r EXCEPT !.state = "active"], !.route[r.sn] = r.port]
        ELSE [m EXCEPT !.slot[i] = [r EXCEPT !.state = "stopped", !.at = 0],
                       !.db.sess[r.id] = Empty, !.db.sn[r.sn] = Nil]

\* media_v2_restore: the SN must be free; a live one waits for media again, one
\* that is over stays as a record of its end.
media_v2_restore(m, r) ==
    LET i == allocate_session_slot(m)
    IN  IF i = Nil \/ find_active_session_for_sn(m, r.sn) # Nil THEN m
        ELSE IF LiveSession(r) /\ r.until > sessionNow
        THEN [m EXCEPT !.slot[i] = [r EXCEPT !.state = "starting"], !.route[r.sn] = r.port]
        ELSE [m EXCEPT !.slot[i] = [r EXCEPT !.state = "stopped", !.at = 0]]

Orders == {f \in [1 .. Cardinality(SessionIds) -> SessionIds] : \A a, b \in DOMAIN f : f[a] = f[b] => a = b}

RestoreRecord(m, r, ver) ==
    IF r.ver # ver THEN m ELSE IF ver = 1 THEN media_redis_restore_one(m, r) ELSE media_v2_restore(m, r)

\* The records of one version, in the order KEYS gives them.
RestorePass(m, D, order, ver) ==
    LET after[k \in 0 .. Cardinality(SessionIds)] ==
            IF k = 0 THEN m ELSE RestoreRecord(after[k - 1], D[order[k]], ver)
    IN  after[Cardinality(SessionIds)]

\* media_redis_bootstrap: the v1 records, then the v2 records.
media_redis_bootstrap(m, order) ==
    RestorePass(RestorePass(m, m.db.sess, order, 1), m.db.sess, order, 2)

StaticRoutes == [sn \in SessionSns |-> IF sn \in StaticSns THEN StaticPort ELSE Nil]
NoSlots == [i \in Index |-> Empty]

Boot(m) == /\ serverBoots < MaxServerBoots /\ serverBoots' = serverBoots + 1
           /\ redisLink' \in {"ok", "gone"} /\ fresh' = {} /\ UNCHANGED <<sessionNow>>
           /\ LET blank == [m EXCEPT !.slot = NoSlots, !.route = StaticRoutes]
              IN  IF redisLink' = "ok" THEN \E o \in Orders : CommitSessions(media_redis_bootstrap(blank, o))
                  ELSE CommitSessions(blank)

\* The process dies and is started again.
ServerCrash == Boot(SessionMem)

\* SIGTERM: every live session is stopped, then the next process starts.
StopLive(m, i, j) == IF LiveSession(m.slot[i]) THEN stop_session_by_id(m, m.slot[i].id, j) ELSE m
StopPass(m, j) ==
    LET after[k \in 0 .. MaxSessions] == IF k = 0 THEN m ELSE StopLive(after[k - 1], k, j)
    IN  after[MaxSessions]
Shutdown == \E j \in Reply : Boot(StopPass(SessionMem, j))

\* Janus restarts without its dynamic mountpoints.
JanusRestart == /\ DOMAIN janus # {} /\ janus' = [x \in {} |-> 0]
                /\ UNCHANGED <<slot, sessionRoute, db, redisLink, fresh, sessionNow, serverBoots>>

\* The connection to Redis breaks; hiredis does not reconnect.
RedisGone == /\ redisLink = "ok" /\ redisLink' = "gone"
             /\ UNCHANGED <<slot, sessionRoute, janus, db, fresh, sessionNow, serverBoots>>

\* Time: leases end, media grows old, and Redis drops the keys of ended leases
\* (their expiry is the lease and MEDIA_REDIS_TTL_PAD_SEC).
SessionsTick == /\ sessionNow < MaxSessionTime /\ sessionNow' = sessionNow + 1
                /\ \E F \in SUBSET fresh : fresh' = F
                /\ \/ UNCHANGED db
                   \/ db' = [sess |-> [id \in SessionIds |-> IF db.sess[id].until < sessionNow THEN Empty ELSE db.sess[id]],
                             sn |-> [sn \in SessionSns |-> IF db.sn[sn] < sessionNow THEN Nil ELSE db.sn[sn]]]
                /\ UNCHANGED <<slot, sessionRoute, janus, redisLink, serverBoots>>

SessionsInit == /\ slot = NoSlots /\ sessionRoute = StaticRoutes /\ janus = [x \in {} |-> 0]
                /\ db = [sess |-> [id \in SessionIds |-> Empty], sn |-> [sn \in SessionSns |-> Nil]]
                /\ redisLink \in {"ok", "gone"} /\ fresh = {} /\ sessionNow = 0 /\ serverBoots = 0

SessionsNext == \/ \E id \in SessionIds, sn \in SessionSns : handle_media_session_start(id, sn) \/ mv_start(id, sn)
                \/ \E id \in SessionIds : RenewLease(id) \/ StopRequest(id) \/ get_media_session_health(id)
                \/ \E sn \in SessionSns : stop_media_session_for_sn(sn) \/ FirstMedia(sn)
                \/ Watchdog \/ reconcile_resources
                \/ ServerCrash \/ Shutdown \/ JanusRestart \/ RedisGone \/ SessionsTick

SessionsSpec == SessionsInit /\ [][SessionsNext]_sessionVars

-----------------------------------------------------------------------------
(* Properties.                                                             *)

Record == [id : SessionIds \cup {Nil}, sn : SessionSns \cup {Nil}, ver : 0 .. 2,
           state : {"empty", "starting", "active", "stopped", "failed"},
           port : PoolPorts \cup {Nil}, mp : PoolPorts \cup SessionSns \cup {Nil}, until : 0 .. MaxSessionTime + TTL, at : 0 .. MaxSessionTime]

SessionsTypeOK == /\ slot \in [Index -> Record] /\ sessionRoute \in [SessionSns -> PoolPorts \cup {Nil, StaticPort}]
                  /\ DOMAIN janus \subseteq PoolPorts \cup SessionSns
                  /\ \A x \in DOMAIN janus : janus[x] \in [port : PoolPorts, pin : SessionIds]
                  /\ db.sess \in [SessionIds -> Record] /\ db.sn \in [SessionSns -> 0 .. MaxSessionTime + TTL]
                  /\ redisLink \in {"ok", "gone"} /\ fresh \subseteq SessionSns /\ sessionNow \in 0 .. MaxSessionTime /\ serverBoots \in 0 .. MaxServerBoots

\* A live session's media has somewhere to go: its SN's route leads to its ports.
LiveRouted == \A i \in Index : LiveSession(slot[i]) => sessionRoute[slot[i].sn] = slot[i].port

=============================================================================
