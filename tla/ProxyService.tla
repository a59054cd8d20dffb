---------------------------- MODULE ProxyService ----------------------------
(* The certificate cycle of the Leo4Proxy service: the store is polled, the  *)
(* best certificate is loaded, hot-swapped or dropped, the listeners that    *)
(* use it are stopped and started, and the credentials they copied are       *)
(* retired while connection workers may still hold a lease on them.          *)
(* Code: service_mgr.c, cert_store.c, credential_lifetime.c, schannel_tls.c  *)
(* and the start, stop, listener and worker functions of the proxies.        *)
EXTENDS Integers, FiniteSets, Sequences

CONSTANTS Certs,        \* certificates that can be in a store
          Attr,         \* Attr[c] = [sn, tier, notAfter, usable]
          NoCert, Workers,
          Enabled,      \* the listeners the configuration enables
          MaxClients,   \* config->stream_max_clients
          MaxEvents,    \* bound: changes of the stores
          MaxFaults,    \* bound: failed binds, failed credentials, slow stops
          MaxConns      \* bound: accepted local connections

LSet == {"mqtt", "stream", "rtp", "reverse"}
\* The orders of start and of stop; what is not enabled is never visited.
Listeners == SelectSeq(<<"mqtt", "stream", "rtp", "reverse">>, LAMBDA l : l \in Enabled)
StopOrder == SelectSeq(<<"reverse", "stream", "rtp", "mqtt">>, LAMBDA l : l \in Enabled)
ASSUME ConstantsOK ==
    /\ Enabled \subseteq LSet /\ Enabled # {} /\ NoCert \notin Certs /\ IsFiniteSet(Workers)
    /\ \A c \in Certs : Attr[c].tier \in 0..4 /\ Attr[c].notAfter \in Nat
    /\ MaxClients \in Nat /\ MaxEvents \in Nat /\ MaxFaults \in Nat /\ MaxConns \in Nat

VARIABLES machine, user, expired,   \* the two stores, certificates past NotAfter
          pc, k,                    \* the service loop and its position in a walk
          cert, cc, sc,             \* certDetails, hClientCred, hServerCred (0: invalid)
          old,                      \* handles saved by a swap, and the old certificate
          ready,                    \* g_proxyStats.cert_ready
          creds,                    \* the credential list: creds[t] = [cert, refs, retired]
          lst,                      \* the listeners' server structures
          http,                     \* identity and handles of the HTTP listener
          disc,                     \* discovery: [started, sn]
          wk, active,               \* connection workers, stream_active_clients
          events, faults, conns     \* spent bounds
vars == <<machine, user, expired, pc, k, cert, cc, sc, old, ready, creds, lst,
          http, disc, wk, active, events, faults, conns>>
storeVars == <<machine, user, expired, events>>
workVars == <<wk, active, conns>>

NoCred == [cert |-> NoCert, refs |-> 0, retired |-> FALSE]
FreshServer == [started |-> FALSE, running |-> FALSE, handle |-> FALSE,
                live |-> 0, gen |-> 0, cc |-> 0, sc |-> 0]
IdleWorker == [kind |-> "none", pc |-> "idle", gen |-> 0, tok |-> 0,
               lease |-> 0, sn |-> "none", late |-> 0]
Sn(c) == IF c = NoCert THEN "none" ELSE Attr[c].sn

----------------------------------------------------------------------------
\* Selection of the certificate.

\* get_cert_tier: four patterns of the e-mail or the subject, none is tier 0.
CertTier(c) == Attr[c].tier

\* A certificate of the new CA with a name and a key, valid at this moment.
Eligible(c) == Attr[c].usable /\ c \notin expired /\ CertTier(c) > 0

\* The highest tier, within it the latest NotAfter.
BestOf(E) ==
    CHOOSE c \in E : \A d \in E : \/ CertTier(d) < CertTier(c)
                                 \/ /\ CertTier(d) = CertTier(c)
                                    /\ Attr[d].notAfter <= Attr[c].notAfter
FindInStore(S) == LET E == {c \in S : Eligible(c)} IN IF E = {} THEN NoCert ELSE BestOf(E)

FindBest == LET m == FindInStore(machine) IN
            IF m # NoCert THEN m ELSE FindInStore(user)

----------------------------------------------------------------------------
\* The credential list. A token is never used twice.

\* credential_register appends an entry with one reference, the owner's.
Register(cs, c) == Append(cs, [cert |-> c, refs |-> 1, retired |-> FALSE])

\* remove_if_unused and dispose: an entry without references is gone.
RemoveIfUnused(e) == IF e.refs = 0 THEN NoCred ELSE e
Unref(e) == RemoveIfUnused([e EXCEPT !.refs = @ - 1])

\* Mutant: retiring frees the handle whoever still uses it.
Retire_Dispose(cs, t) == IF t = 0 THEN cs ELSE [cs EXCEPT ![t] = NoCred]
Retire(cs, t) ==
    IF t = 0 \/ cs[t] = NoCred \/ cs[t].retired THEN cs
    ELSE [cs EXCEPT ![t] = Unref([@ EXCEPT !.retired = TRUE])]

\* credential_borrow refuses a token that is retired or no longer listed.
CanBorrow(t) == t # 0 /\ creds[t] # NoCred /\ ~creds[t].retired
Borrow(t) == [creds EXCEPT ![t].refs = @ + 1]

Release(t) == [creds EXCEPT ![t] = Unref(@)]

----------------------------------------------------------------------------
\* Start and stop of a listener.

CanStart(l) == ~lst[l].handle \/ lst[l].live = 0

\* Everything is reset, the sockets are bound, the thread is created.
StartedServer(l, ok) ==
    [started |-> ok, running |-> ok, handle |-> ok,
     live |-> IF ok THEN lst[l].live + 1 ELSE lst[l].live,
     gen |-> lst[l].gen + 1, cc |-> cc, sc |-> sc]

\* A start refused by the old thread leaves the structure alone.
StartListener(l) ==
    IF ~CanStart(l)
      THEN lst' = [lst EXCEPT ![l].started = FALSE] /\ UNCHANGED faults
      ELSE \E ok \in BOOLEAN :
             /\ ok \/ faults < MaxFaults
             /\ faults' = IF ok THEN faults ELSE faults + 1
             /\ lst' = [lst EXCEPT ![l] = StartedServer(l, ok)]

\* isRunning is cleared, the sockets closed; the thread has two or three
\* seconds (timely), after which its handle is kept.
StoppedServer(r, timely) ==
    IF timely /\ r.handle
    THEN [r EXCEPT !.started = FALSE, !.running = FALSE, !.handle = FALSE,
                   !.live = IF r.live > 0 THEN r.live - 1 ELSE r.live]
    ELSE [r EXCEPT !.started = FALSE, !.running = FALSE]
StopListener(l) ==
    \E timely \in BOOLEAN :
      /\ timely \/ (faults < MaxFaults /\ lst[l].live > 0)
      /\ faults' = IF timely THEN faults ELSE faults + 1
      /\ lst' = [lst EXCEPT ![l] = StoppedServer(@, timely)]

\* The four servers differ in their sockets and in the threads they own.
MqttStart == StartListener("mqtt")
StreamStart == StartListener("stream")
RtpStart == StartListener("rtp")
ReverseStart == StartListener("reverse")
Start(l) == CASE l = "mqtt" -> MqttStart [] l = "stream" -> StreamStart
              [] l = "rtp" -> RtpStart [] OTHER -> ReverseStart
MqttStop == StopListener("mqtt")
StreamStop == StopListener("stream")
RtpStop == StopListener("rtp")
ReverseStop == StopListener("reverse")
Stop(l) == CASE l = "mqtt" -> MqttStop [] l = "stream" -> StreamStop
             [] l = "rtp" -> RtpStop [] OTHER -> ReverseStop

\* reverse_proxy_start needs a valid server credential.
Startable(l) == l = "reverse" => sc # 0

\* The listener thread sees isRunning cleared and returns.
ListenerExits(l) ==
    /\ lst[l].live > 0
    /\ ~lst[l].running \/ lst[l].live > 1
    /\ lst' = [lst EXCEPT ![l].live = @ - 1]
    /\ UNCHANGED <<machine, user, expired, pc, k, cert, cc, sc, old, ready, creds,
                   http, disc, wk, active, events, faults, conns>>

\* http_proxy_update_creds: identity and both handles under one lock.
\* Mutant: the identity is replaced, the handles stay.
HttpUpdate_KeepCred(c, t1, t2) ==
    http' = [cert |-> c, cc |-> IF http.cc = 0 THEN t1 ELSE http.cc, sc |-> t2]
HttpUpdate(c, t1, t2) == http' = [cert |-> c, cc |-> t1, sc |-> t2]

----------------------------------------------------------------------------
Init ==
    /\ machine = {} /\ user = {} /\ expired = {}
    /\ pc = "poll" /\ k = 1
    /\ cert = NoCert /\ cc = 0 /\ sc = 0
    /\ old = [cert |-> NoCert, cc |-> 0, sc |-> 0]
    /\ ready = FALSE /\ creds = << >>
    /\ lst = [l \in LSet |-> FreshServer]
    /\ http = [cert |-> NoCert, cc |-> 0, sc |-> 0]
    /\ disc = [started |-> FALSE, sn |-> "none"]
    /\ wk = [w \in Workers |-> IdleWorker] /\ active = 0
    /\ events = 0 /\ faults = 0 /\ conns = 0

\* The stores change under the service: issue, removal, the clock. Only a
\* poll reads them, so the changes of a pass are taken just before the next.
StoreChange ==
    /\ pc = "poll" /\ events < MaxEvents /\ events' = events + 1
    /\ \/ \E c \in Certs \ (machine \cup user) :
            \/ machine' = machine \cup {c} /\ UNCHANGED user
            \/ user' = user \cup {c} /\ UNCHANGED machine
       \/ \E c \in machine \cup user :
            machine' = machine \ {c} /\ user' = user \ {c}
    /\ UNCHANGED <<expired, pc, k, cert, cc, sc, old, ready, creds, lst, http, disc,
                   faults>> /\ UNCHANGED workVars
CertExpires ==
    /\ pc = "poll" /\ events < MaxEvents /\ events' = events + 1
    /\ \E c \in Certs \ expired : expired' = expired \cup {c}
    /\ UNCHANGED <<machine, user, pc, k, cert, cc, sc, old, ready, creds, lst, http,
                   disc, faults>> /\ UNCHANGED workVars

\* No certificate yet: find one, acquire credentials, start everything.
\* Without a client credential what was acquired is freed again.
PollLoad ==
    /\ pc = "poll" /\ cert = NoCert /\ FindBest # NoCert
    /\ \E serverOk \in BOOLEAN :
         LET c1 == Register(creds, FindBest)
             c2 == IF serverOk THEN Register(c1, FindBest) ELSE c1 IN
         /\ serverOk \/ faults < MaxFaults
         /\ faults' = IF serverOk THEN faults ELSE faults + 1
         /\ creds' = c2 /\ cc' = Len(c1) /\ sc' = IF serverOk THEN Len(c2) ELSE 0
         /\ HttpUpdate(FindBest, Len(c1), IF serverOk THEN Len(c2) ELSE 0)
    /\ cert' = FindBest /\ ready' = TRUE
    /\ pc' = "start" /\ k' = 1
    /\ UNCHANGED <<old, lst, disc>> /\ UNCHANGED storeVars /\ UNCHANGED workVars

\* AcquireCredentialsHandle refuses the certificate: the old state stays.
PollRefused ==
    /\ pc = "poll" /\ FindBest \notin {NoCert, cert} /\ faults < MaxFaults
    /\ faults' = faults + 1
    /\ creds' = Append(creds, NoCred)
    /\ pc' = "retry" /\ k' = 1
    /\ UNCHANGED <<cert, cc, sc, old, ready, lst, http, disc>>
    /\ UNCHANGED storeVars /\ UNCHANGED workVars

\* The thumbprint of the best certificate is another one: hot swap.
PollSwap ==
    /\ pc = "poll" /\ cert # NoCert /\ FindBest \notin {NoCert, cert}
    /\ old' = [cert |-> cert, cc |-> cc, sc |-> sc]
    /\ \E serverOk \in BOOLEAN :
         LET c1 == Register(creds, FindBest)
             c2 == IF serverOk THEN Register(c1, FindBest) ELSE c1 IN
         /\ serverOk \/ faults < MaxFaults
         /\ faults' = IF serverOk THEN faults ELSE faults + 1
         /\ creds' = c2 /\ cc' = Len(c1) /\ sc' = IF serverOk THEN Len(c2) ELSE 0
         /\ HttpUpdate(FindBest, Len(c1), IF serverOk THEN Len(c2) ELSE 0)
    /\ cert' = FindBest /\ pc' = "swapstop" /\ k' = 1
    /\ UNCHANGED <<ready, lst, disc>> /\ UNCHANGED storeVars /\ UNCHANGED workVars

PollSame ==
    /\ pc = "poll" /\ FindBest = cert
    /\ pc' = "retry" /\ k' = 1
    /\ UNCHANGED <<cert, cc, sc, old, ready, creds, lst, http, disc, faults>>
    /\ UNCHANGED storeVars /\ UNCHANGED workVars

\* No valid certificate is left: standby.
PollGone ==
    /\ pc = "poll" /\ cert # NoCert /\ FindBest = NoCert
    /\ disc' = [disc EXCEPT !.started = FALSE]
    /\ pc' = "drop" /\ k' = 1
    /\ UNCHANGED <<cert, cc, sc, old, ready, creds, lst, http, faults>>
    /\ UNCHANGED storeVars /\ UNCHANGED workVars

\* The walks over the listeners. Each visits one listener per step.
Advance(here, next) == IF k < Len(Listeners) THEN pc' = here /\ k' = k + 1
                                             ELSE pc' = next /\ k' = 1
StartOne(here, next) ==
    /\ pc = here
    /\ LET l == Listeners[k] IN
       IF ~lst[l].started /\ Startable(l) THEN Start(l) ELSE UNCHANGED <<lst, faults>>
    /\ Advance(here, next)
    /\ UNCHANGED <<cert, cc, sc, old, ready, creds, http, disc>>
    /\ UNCHANGED storeVars /\ UNCHANGED workVars
LoadStarts == StartOne("start", "announce")

SwapStop ==
    /\ pc = "swapstop"
    /\ LET l == Listeners[k] IN
       IF lst[l].started THEN Stop(l) ELSE UNCHANGED <<lst, faults>>
    /\ pc' = "swapstart" /\ UNCHANGED k
    /\ UNCHANGED <<cert, cc, sc, old, ready, creds, http, disc>>
    /\ UNCHANGED storeVars /\ UNCHANGED workVars
SwapStart ==
    /\ pc = "swapstart"
    /\ LET l == Listeners[k] IN
       IF Startable(l) THEN Start(l) ELSE UNCHANGED <<lst, faults>>
    /\ Advance("swapstop", "announce")
    /\ UNCHANGED <<cert, cc, sc, old, ready, creds, http, disc>>
    /\ UNCHANGED storeVars /\ UNCHANGED workVars

\* Discovery starts on a load, and restarts when the SN or hostname changed.
Announce ==
    /\ pc = "announce"
    /\ IF IF old.cert = NoCert THEN disc.started ELSE Sn(old.cert) = Sn(cert)
         THEN UNCHANGED <<disc, faults>>
         ELSE \E ok \in BOOLEAN :
                /\ ok \/ faults < MaxFaults
                /\ faults' = IF ok THEN faults ELSE faults + 1
                /\ disc' = [started |-> ok, sn |-> Sn(cert)]
    /\ pc' = IF old.cert = NoCert THEN "retry" ELSE "free"
    /\ UNCHANGED <<k, cert, cc, sc, old, ready, creds, lst, http>>
    /\ UNCHANGED storeVars /\ UNCHANGED workVars

FreeOld ==
    /\ pc = "free"
    /\ creds' = Retire(Retire(creds, old.cc), old.sc)
    /\ old' = [cert |-> NoCert, cc |-> 0, sc |-> 0] /\ pc' = "retry"
    /\ UNCHANGED <<k, cert, cc, sc, ready, lst, http, disc, faults>>
    /\ UNCHANGED storeVars /\ UNCHANGED workVars

\* Standby: the listeners are stopped one by one, then the handles go.
StopOne(here, next) ==
    /\ pc = here
    /\ LET l == StopOrder[k] IN
       IF lst[l].started THEN Stop(l) ELSE UNCHANGED <<lst, faults>>
    /\ Advance(here, next)
    /\ UNCHANGED <<cert, cc, sc, old, ready, creds, http, disc>>
    /\ UNCHANGED storeVars /\ UNCHANGED workVars
DropStop == StopOne("drop", "standby")
Standby ==
    /\ pc = "standby"
    /\ HttpUpdate(NoCert, 0, 0)
    /\ creds' = Retire(Retire(creds, cc), sc)
    /\ cc' = 0 /\ sc' = 0 /\ cert' = NoCert /\ ready' = FALSE
    /\ pc' = "retry" /\ k' = 1
    /\ UNCHANGED <<old, lst, disc, faults>> /\ UNCHANGED storeVars /\ UNCHANGED workVars

\* At the end of every pass a listener that could not start is tried again.
Retry ==
    IF cert # NoCert THEN StartOne("retry", "poll")
    ELSE /\ pc = "retry" /\ pc' = "poll"
         /\ UNCHANGED <<k, cert, cc, sc, old, ready, creds, lst, http, disc, faults>>
         /\ UNCHANGED storeVars /\ UNCHANGED workVars

\* The stop event ends the loop between two passes; everything is stopped in
\* the same order and the handles are freed. The process ends after it.
StopRequested ==
    /\ pc = "poll" /\ events < MaxEvents /\ events' = events + 1
    /\ disc' = [disc EXCEPT !.started = FALSE]
    /\ pc' = "halt" /\ k' = 1
    /\ UNCHANGED <<machine, user, expired, cert, cc, sc, old, ready, creds, lst, http, faults>>
    /\ UNCHANGED workVars
HaltStop == StopOne("halt", "halted")
Halted ==
    /\ pc = "halted"
    /\ creds' = Retire(Retire(creds, cc), sc)
    /\ cc' = 0 /\ sc' = 0 /\ pc' = "stopped" /\ k' = 1
    /\ UNCHANGED <<cert, old, ready, lst, http, disc, faults>>
    /\ UNCHANGED storeVars /\ UNCHANGED workVars

----------------------------------------------------------------------------
\* Connection workers. Each copies what it needs when it is spawned.

svcVars == <<pc, k, cert, cc, sc, old, ready, lst, http, disc, faults>>
SetWorker(w, r) == wk' = [wk EXCEPT ![w] = r]

\* The listener hands an accepted socket to a new thread. The stream listener
\* compares the counter its workers raise with the configured limit.
Admits(l) == l = "stream" => active < MaxClients
Accept(l, w) ==
    /\ lst[l].running /\ lst[l].live > 0
    /\ conns < MaxConns /\ conns' = conns + 1
    /\ wk[w].pc = "idle" /\ Admits(l)
    /\ SetWorker(w, [IdleWorker EXCEPT !.kind = l, !.pc = "spawned", !.gen = lst[l].gen,
                        !.tok = IF l = "reverse" THEN lst[l].sc ELSE lst[l].cc,
                        !.sn = Sn(cert)])
    /\ UNCHANGED <<creds, active>> /\ UNCHANGED storeVars /\ UNCHANGED svcVars

MqttAccept(w) == Accept("mqtt", w)
StreamAccept(w) == Accept("stream", w)
ReverseAccept(w) == Accept("reverse", w)

\* The HTTP listener runs from the start; its worker takes identity and
\* handles together, and refuses while no certificate is ready.
HttpAccept(w) ==
    /\ conns < MaxConns /\ conns' = conns + 1
    /\ wk[w].pc = "idle" /\ ready /\ http.cert # NoCert /\ http.cc # 0
    /\ SetWorker(w, [IdleWorker EXCEPT !.kind = "http", !.pc = "open",
                        !.tok = http.cc, !.sn = Sn(http.cert)])
    /\ UNCHANGED <<creds, active>> /\ UNCHANGED storeVars /\ UNCHANGED svcVars

\* The worker runs: it is counted, and may find the policy closed.
Begin(w) ==
    /\ wk[w].pc = "spawned"
    /\ \E allowed \in BOOLEAN :
         /\ wk[w].kind = "reverse" => allowed
         /\ SetWorker(w, IF allowed THEN [wk[w] EXCEPT !.pc = "open"] ELSE IdleWorker)
         /\ active' = IF wk[w].kind = "stream" /\ allowed THEN active + 1 ELSE active
    /\ UNCHANGED <<creds, conns>> /\ UNCHANGED storeVars /\ UNCHANGED svcVars

Uncount(w) == active' = IF wk[w].kind = "stream" THEN active - 1 ELSE active

\* schannel_connect_impl and schannel_accept borrow the credential first.
BorrowLease(w) ==
    /\ wk[w].pc = "open" /\ CanBorrow(wk[w].tok)
    /\ creds' = Borrow(wk[w].tok)
    /\ SetWorker(w, [wk[w] EXCEPT !.pc = "connecting", !.lease = wk[w].tok])
    /\ UNCHANGED <<active, conns>> /\ UNCHANGED storeVars /\ UNCHANGED svcVars
BorrowRefused(w) ==
    /\ wk[w].pc = "open" /\ ~CanBorrow(wk[w].tok)
    /\ SetWorker(w, IdleWorker) /\ Uncount(w)
    /\ UNCHANGED <<creds, conns>> /\ UNCHANGED storeVars /\ UNCHANGED svcVars
Handshake(w) ==
    /\ wk[w].pc = "connecting"
    /\ SetWorker(w, [wk[w] EXCEPT !.pc = IF @ = "connecting" /\ wk[w].kind \in {"mqtt", "stream"}
                                           THEN "serving" ELSE "armed"])
    /\ UNCHANGED <<creds, active, conns>> /\ UNCHANGED storeVars /\ UNCHANGED svcVars

\* schannel_close: the lease goes back with the session.
Close(w) ==
    /\ creds' = Release(wk[w].lease) /\ SetWorker(w, IdleWorker) /\ Uncount(w)
    /\ UNCHANGED conns /\ UNCHANGED storeVars /\ UNCHANGED svcVars

\* The condition at the head of the forwarding loop.
Fenced(w) == ~(lst[wk[w].kind].running /\ lst[wk[w].kind].gen = wk[w].gen)
LoopHead(w) ==
    /\ wk[w].pc = "serving"
    /\ IF Fenced(w) THEN Close(w)
       ELSE /\ SetWorker(w, [wk[w] EXCEPT !.pc = "armed"])
            /\ UNCHANGED <<creds, active, conns>> /\ UNCHANGED storeVars /\ UNCHANGED svcVars

Stale(w) == wk[w].kind \in {"mqtt", "stream"} /\
            ~(lst[wk[w].kind].running /\ lst[wk[w].kind].gen = wk[w].gen)
\* One round of the loop: select, then bytes in both directions. The MQTT
\* and stream workers go back to the loop head; a reverse session goes on
\* without looking at its server; an HTTP request is one round.
MqttRound(w) ==
    /\ wk[w].pc = "armed" /\ wk[w].kind = "mqtt"
    /\ SetWorker(w, [wk[w] EXCEPT !.pc = "serving",
                                  !.late = IF Stale(w) THEN @ + 1 ELSE @])
    /\ UNCHANGED <<creds, active, conns>> /\ UNCHANGED storeVars /\ UNCHANGED svcVars
StreamRound(w) ==
    /\ wk[w].pc = "armed" /\ wk[w].kind = "stream"
    /\ SetWorker(w, [wk[w] EXCEPT !.pc = "serving",
                                  !.late = IF Stale(w) THEN @ + 1 ELSE @])
    /\ UNCHANGED <<creds, active, conns>> /\ UNCHANGED storeVars /\ UNCHANGED svcVars
\* A peer closes, a send fails, the policy is withdrawn, the handshake fails.
PeerCloses(w) == wk[w].pc \in {"connecting", "serving", "armed"} /\ Close(w)

ServicePass == \/ PollLoad \/ PollRefused \/ PollSwap \/ PollSame \/ PollGone
               \/ LoadStarts \/ SwapStop \/ SwapStart \/ Announce \/ FreeOld
               \/ DropStop \/ Standby \/ Retry \/ HaltStop \/ Halted
WorkerStep(w) == \/ HttpAccept(w) \/ Begin(w) \/ BorrowLease(w) \/ BorrowRefused(w)
                 \/ Handshake(w) \/ LoopHead(w) \/ MqttRound(w) \/ StreamRound(w)
                 \/ PeerCloses(w) \/ MqttAccept(w) \/ StreamAccept(w) \/ ReverseAccept(w)
Next == \/ StoreChange \/ CertExpires \/ StopRequested \/ ServicePass
        \/ \E l \in LSet : ListenerExits(l)
        \/ \E w \in Workers : WorkerStep(w)
Spec == Init /\ [][Next]_vars
----------------------------------------------------------------------------
\* Properties.

Tokens == 0..Len(creds)
TypeOK ==
    /\ machine \subseteq Certs /\ user \subseteq Certs /\ expired \subseteq Certs
    /\ pc \in {"poll", "start", "announce", "retry", "swapstop", "swapstart", "free",
               "drop", "standby", "halt", "halted", "stopped"}
    /\ k \in 1..Len(Listeners) /\ cert \in Certs \cup {NoCert}
    /\ cc \in Tokens /\ sc \in Tokens /\ old.cc \in Tokens /\ old.sc \in Tokens
    /\ \A t \in 1..Len(creds) : creds[t].refs \in Nat
    /\ \A l \in LSet : lst[l].live \in Nat /\ lst[l].gen \in Nat
    /\ active \in 0..Cardinality(Workers) /\ ready \in BOOLEAN

Busy(w) == wk[w].pc \in {"connecting", "serving", "armed"}

\* credential_lifetime.c: the handle a TLS session was built from is listed,
\* with a reference for it, for as long as the session lives, however often
\* the certificate is swapped or dropped under the connection.
NoDanglingLease ==
    \A w \in Workers : Busy(w) =>
        /\ creds[wk[w].lease] # NoCred
        /\ creds[wk[w].lease].refs >=
             Cardinality({v \in Workers : Busy(v) /\ wk[v].lease = wk[w].lease})

\* http_proxy.c: the SN header a request carries and the certificate of the
\* session it goes out on are of one device, also across a hot swap.
HeaderMatchesCert ==
    \A w \in Workers : wk[w].kind = "http" /\ Busy(w) =>
        wk[w].sn = Sn(creds[wk[w].lease].cert)

=============================================================================
