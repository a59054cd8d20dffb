----------------------------- MODULE ProxyHttp -----------------------------
(***************************************************************************)
(* The local HTTP listener of leo4proxy (http_proxy.c): one worker per     *)
(* connection reads one request and answers it from the proxy's own state, *)
(* forwards it over mTLS to the backend, or opens a restricted CONNECT     *)
(* tunnel (registry_connect.h, fm_connect.h).  Meanwhile the service       *)
(* thread loads, swaps and drops the certificate and the policy changes.   *)
(*                                                                         *)
(* A request is a record; its header is some pieces, its body one piece    *)
(* per unit, and pieces arrive one at a time.  A certificate is a number,  *)
(* 0 for none; its credential lives until the service frees it.            *)
(***************************************************************************)
EXTENDS Naturals, FiniteSets

CONSTANTS
    HttpWorkers,  \* connections at a time
    Requests,     \* the requests clients send
    UpdateProbe,  \* config->update_probe
    Header,       \* the pieces of a header
    Cap,          \* the size of reqBuf, in pieces
    MaxCerts,     \* bound: certificates over the run
    MaxPolicy,    \* bound: changes of the policy
    MaxHttpConns, \* bound: connections
    UpLimit       \* the bytes a tunnel may carry, in chunks

\* What the constants satisfy
ASSUME HttpAssumption ==
    /\ UpdateProbe \in BOOLEAN
    /\ \A r \in Requests : r.body \in Nat
    /\ Header \in Nat \ {0}
    /\ Cap \in Nat /\ Cap >= Header
    /\ MaxCerts \in Nat /\ MaxPolicy \in Nat /\ MaxHttpConns \in Nat
    /\ UpLimit \in Nat

VARIABLES
    httpServer, \* HttpProxyServer: "off" | "on" | "failed" | "stopped"
    inForce,    \* server->identity and its credentials
    certReady,  \* g_proxyStats.cert_ready
    live,       \* certificates whose credentials are not freed
    svc,        \* what the service thread still has to do
    certs,      \* certificates used so far
    policy,     \* what policy.c allows: "https" and "media" (FM and registry need both)
    changes,    \* changes of the policy so far
    slot,       \* the static `active' of registry_connect and fm_connect_storage
    accepted,   \* connections so far
    worker      \* the workers

httpVars == <<httpServer, inForce, certReady, live, svc, certs, policy, changes, slot, accepted, worker>>

service == <<inForce, certReady, live, svc, certs>>
rules == <<policy, changes>>

NoRequest == [method |-> "none", path |-> "none", body |-> 0, spelled |-> FALSE,
              local |-> FALSE, tls |-> FALSE, extra |-> FALSE]
NoWorker == [pc |-> "idle", req |-> NoRequest, snap |-> 0, ok |-> FALSE, arrived |-> 0,
             got |-> 0, quit |-> FALSE, sent |-> 0, ans |-> "none", sn |-> 0, chunks |-> 0,
             late |-> 0, left |-> 0, seen |-> {}]

Pieces(r) == Header + r.body

\* The states of the certificate a request has overlapped with.
Seeing(f, c, r) == [x \in HttpWorkers |->
    IF f[x].pc = "idle" \/ f[x].req.method = "CONNECT" THEN f[x] ELSE [f[x] EXCEPT !.seen = @ \cup {<<c, r>>}]]

----------------------------------------------------------------------------
(* The service thread and the policy                                       *)

\* A certificate is loaded: cert_ready first, then the credentials.
SvcLoad ==
    /\ svc = "idle" /\ inForce = 0 /\ ~certReady
    /\ certs < MaxCerts
    /\ certs' = certs + 1
    /\ certReady' = TRUE
    /\ live' = live \cup {certs + 1}
    /\ svc' = "load"
    /\ worker' = Seeing(worker, inForce, TRUE)
    /\ UNCHANGED <<httpServer, inForce, policy, changes, slot, accepted>>

\* A new certificate replaces the one in use.
SvcSwap ==
    /\ svc = "idle" /\ inForce # 0 /\ ~UpdateProbe
    /\ certs < MaxCerts
    /\ certs' = certs + 1
    /\ live' = live \cup {certs + 1}
    /\ svc' = "swap"
    /\ UNCHANGED <<httpServer, inForce, certReady, policy, changes, slot, accepted, worker>>

\* http_proxy_update_creds: identity and credentials under one lock.
UpdateCreds ==
    /\ svc \in {"load", "swap"}
    /\ inForce' = certs
    /\ svc' = IF svc = "swap" THEN "free" ELSE "idle"
    /\ worker' = Seeing(worker, certs, certReady)
    /\ UNCHANGED <<httpServer, certReady, live, certs, policy, changes, slot, accepted>>

FreeReplaced ==
    /\ svc = "free"
    /\ live' = {inForce}
    /\ svc' = "idle"
    /\ UNCHANGED <<httpServer, inForce, certReady, certs, policy, changes, slot, accepted, worker>>

\* The certificate is gone: the listener is told first, then the credentials are
\* freed, cert_ready is cleared last.
SvcStandby ==
    /\ svc = "idle" /\ inForce # 0 /\ ~UpdateProbe
    /\ inForce' = 0
    /\ svc' = "standby"
    /\ worker' = Seeing(worker, 0, certReady)
    /\ UNCHANGED <<httpServer, certReady, live, certs, policy, changes, slot, accepted>>

StandbyEnds ==
    /\ svc = "standby"
    /\ live' = {}
    /\ certReady' = FALSE
    /\ svc' = "idle"
    /\ worker' = Seeing(worker, inForce, FALSE)
    /\ UNCHANGED <<httpServer, inForce, certs, policy, changes, slot, accepted>>

\* policy_registry_allowed: registry and storage tunnels need media and https.
TunnelAllowed == {"https", "media"} \subseteq policy

\* The admission policy of the server changes.
PolicyChanges ==
    /\ changes < MaxPolicy
    /\ \E p \in SUBSET {"https", "media"} : p # policy /\ policy' = p
    /\ changes' = changes + 1
    /\ worker' = [x \in HttpWorkers |-> [worker[x] EXCEPT !.late = IF TunnelAllowed' THEN 0 ELSE @]]
    /\ UNCHANGED <<httpServer, service, slot, accepted>>

----------------------------------------------------------------------------
(* The listener                                                            *)

\* http_proxy_start; a bind that fails leaves the server off.
HttpStart(bound) ==
    /\ httpServer = "off"
    /\ httpServer' = IF bound THEN "on" ELSE "failed"
    /\ UNCHANGED <<service, rules, slot, accepted, worker>>

\* http_proxy_stop closes the listener; workers are detached and go on.
HttpStop ==
    /\ httpServer = "on"
    /\ httpServer' = "stopped"
    /\ UNCHANGED <<service, rules, slot, accepted, worker>>

AcceptRequest(x) ==
    /\ httpServer = "on"
    /\ worker[x].pc = "idle"
    /\ accepted < MaxHttpConns
    /\ accepted' = accepted + 1
    /\ \E r \in Requests :
        worker' = [worker EXCEPT ![x] = [NoWorker EXCEPT !.pc = "begin", !.req = r,
            !.seen = IF r.method = "CONNECT" THEN {} ELSE {<<inForce, certReady>>}]]
    /\ UNCHANGED <<httpServer, service, rules, slot>>

----------------------------------------------------------------------------
(* The worker                                                              *)

Step(x, new) ==
    /\ worker' = [worker EXCEPT ![x] = new]
    /\ UNCHANGED <<httpServer, service, rules, slot, accepted>>

\* The identity and both credentials are copied under the lock, cert_ready is read
\* after it.
HttpBegin(x) ==
    /\ worker[x].pc = "begin"
    /\ Step(x, [worker[x] EXCEPT !.pc = "reading", !.snap = inForce, !.ok = inForce # 0 /\ certReady])

\* The client: a piece arrives, or it closes before it sent everything.
ClientSends(x) ==
    /\ worker[x].pc \in {"begin", "reading"}
    /\ ~worker[x].quit
    /\ worker[x].arrived < Pieces(worker[x].req)
    /\ Step(x, [worker[x] EXCEPT !.arrived = @ + 1])

ClientQuits(x) ==
    /\ worker[x].pc \in {"begin", "reading"}
    /\ ~worker[x].quit
    /\ Step(x, [worker[x] EXCEPT !.quit = TRUE])

\* Mutant: a request is taken as complete with its header.
Wanted_Header(r) == Header

\* The pieces the read loop waits for: the header, and the body when Content-Length
\* is written in one of the two spellings the code looks for; never more than the
\* buffer holds.
Wanted(r) == LET all == IF r.spelled THEN Pieces(r) ELSE Header IN IF all < Cap THEN all ELSE Cap

\* What recv leaves in reqBuf, whose last byte is kept for the terminator.
Taken(n) == IF n < Cap THEN n ELSE Cap

\* One recv takes what arrived, as far as the buffer goes.
Read(x) ==
    /\ worker[x].pc = "reading"
    /\ worker[x].got < Wanted(worker[x].req)
    /\ worker[x].arrived > worker[x].got
    /\ Step(x, [worker[x] EXCEPT !.got = Taken(worker[x].arrived)])

\* recv returned 0 before the header was complete: the connection is closed.
ReadFails(x) ==
    /\ worker[x].pc = "reading"
    /\ worker[x].quit /\ worker[x].arrived = worker[x].got
    /\ worker[x].got < Header
    /\ Step(x, [worker[x] EXCEPT !.pc = "done", !.ans = "closed"])

ReadDone(x) ==
    /\ worker[x].pc = "reading"
    /\ worker[x].got >= Header
    /\ worker[x].got >= Wanted(worker[x].req) \/ (worker[x].quit /\ worker[x].arrived = worker[x].got)

\* send_http_response_ext and the close of the connection.
Answer(x, a) == [worker[x] EXCEPT !.pc = "done", !.ans = a]

\* The instance of an update probe serves the local plain GET of the info page only.
ProbeRefuses(r) ==
    UpdateProbe /\ (~r.local \/ r.tls \/ r.method # "GET" \/ r.path # "info")

\* CONNECT is for local plain clients of a ready proxy that sent nothing else.
ConnectAllowed(x) ==
    LET r == worker[x].req IN r.local /\ ~r.tls /\ worker[x].ok /\ ~r.extra

Slots == {"registry", "storage"}

\* policy_https_path_allowed: the policy, the certificates and the licence pages stay
\* reachable when https is denied; the file manager needs media too.
PathAllowed(p) ==
    CASE p = "files" -> TunnelAllowed
      [] p = "licence" -> TRUE
      [] OTHER -> "https" \in policy

\* The request is complete: the answers that need nothing else, and the routes.
Dispatch(x) ==
    /\ ReadDone(x)
    /\ LET r == worker[x].req IN
        Step(x, IF ProbeRefuses(r) THEN Answer(x, "403")
                ELSE IF r.method = "CONNECT"
                     THEN IF ConnectAllowed(x) THEN [worker[x] EXCEPT !.pc = "slot"] ELSE Answer(x, "403")
                ELSE IF r.method = "OPTIONS" THEN Answer(x, "204")
                ELSE IF r.path \in {"info", "sn"} THEN [worker[x] EXCEPT !.pc = r.path]
                ELSE IF ~PathAllowed(r.path) THEN Answer(x, "403")
                ELSE IF ~worker[x].ok THEN Answer(x, "503")
                ELSE [worker[x] EXCEPT !.pc = "connect"])

\* The page with the identity of the copy, and the one without.
ReadyPage(x) == [Answer(x, "ready") EXCEPT !.sn = worker[x].snap]
WaitingPage(x) == Answer(x, "waiting")

\* handle_info_request_ext looks at cert_ready again: the full page for a local
\* client, the short one for a remote one, "waiting" without a certificate.
InfoAnswer(x) ==
    IF worker[x].snap # 0 /\ certReady THEN ReadyPage(x) ELSE WaitingPage(x)

Info(x) ==
    /\ worker[x].pc = "info"
    /\ Step(x, InfoAnswer(x))

\* handle_sn_request_ext.
SnPage(x) ==
    /\ worker[x].pc = "sn"
    /\ Step(x, IF worker[x].snap # 0 /\ certReady
               THEN ReadyPage(x) ELSE Answer(x, "503"))

\* schannel_connect_channel needs a credential that is not freed.
ConnectBackend(x, up) ==
    /\ worker[x].pc = "connect"
    /\ Step(x, IF up /\ worker[x].snap \in live THEN [worker[x] EXCEPT !.pc = "forward"] ELSE Answer(x, "502"))

\* The request is rebuilt and sent: the header, and the body as far as it was read.
Forward(x, ok) ==
    /\ worker[x].pc = "forward"
    /\ Step(x, IF ok THEN [worker[x] EXCEPT !.pc = "response", !.sent = worker[x].got, !.sn = worker[x].snap]
                     ELSE Answer(x, "502"))

\* The backend answers a request it has received whole, or closes.
Response(x) ==
    /\ worker[x].pc = "response"
    /\ \E a \in {"backend", "closed"} :
        /\ a = "backend" => worker[x].sent = Pieces(worker[x].req)
        /\ Step(x, Answer(x, a))

----------------------------------------------------------------------------
(* CONNECT tunnels                                                         *)

SlotOf(x) == IF worker[x].req.path = "registry" THEN "registry" ELSE "storage"

\* The slot is taken, with a bounded wait for the registry and at once for storage;
\* policy or a held slot refuse.
TakeSlot(x) ==
    /\ worker[x].pc = "slot"
    /\ TunnelAllowed
    /\ slot[SlotOf(x)] = 0
    /\ slot' = [slot EXCEPT ![SlotOf(x)] = 1]
    /\ worker' = [worker EXCEPT ![x].pc = "dial"]
    /\ UNCHANGED <<httpServer, service, rules, accepted>>

RefuseSlot(x) ==
    /\ worker[x].pc = "slot"
    /\ slot[SlotOf(x)] = 1 \/ ~TunnelAllowed
    /\ Step(x, Answer(x, IF SlotOf(x) = "registry" /\ TunnelAllowed THEN "503" ELSE "403"))

\* Resolve, connect, and the policy once more before 200 is sent.
DialTarget(x, up) ==
    /\ worker[x].pc = "dial"
    /\ Step(x, IF up /\ TunnelAllowed
               THEN [worker[x] EXCEPT !.pc = "tunnel", !.ans = "200"]
               ELSE [worker[x] EXCEPT !.pc = "hangup", !.ans = "502"])

\* One round: select reported one side or both, the policy allows.
TunnelRound(x) ==
    /\ worker[x].pc = "tunnel"
    /\ TunnelAllowed
    /\ \E n \in {1, 2} : Step(x, [worker[x] EXCEPT !.pc = "relay", !.left = n])

\* The policy is asked again after recv and before send.
StillAllowed == TunnelAllowed

\* recv, and the checks of the limit and the policy before the chunk is sent.
TunnelCheck(x) ==
    /\ worker[x].pc = "relay"
    /\ Step(x, [worker[x] EXCEPT !.pc = IF worker[x].chunks < UpLimit /\ StillAllowed THEN "send" ELSE "hangup"])

\* The chunk is sent; a deny of media has shut the registered socket down, so that
\* the send fails.
TunnelSend(x) ==
    /\ worker[x].pc = "send"
    /\ Step(x, IF "media" \in policy
               THEN [worker[x] EXCEPT !.pc = IF worker[x].left = 1 THEN "tunnel" ELSE "relay",
                                      !.left = @ - 1, !.chunks = @ + 1,
                                      !.late = IF TunnelAllowed THEN @ ELSE @ + 1]
               ELSE [worker[x] EXCEPT !.pc = "hangup"])

\* A side closed, the deadline passed, or the policy denies.
TunnelEnds(x) ==
    /\ worker[x].pc = "tunnel"
    /\ Step(x, [worker[x] EXCEPT !.pc = "hangup"])

\* Mutant: a tunnel that was never established keeps the slot.
Released_Ready(x) == IF worker[x].ans = "200" THEN 0 ELSE 1

\* The slot is given back on every way out.
Released(x) == 0

Hangup(x) ==
    /\ worker[x].pc = "hangup"
    /\ slot' = [slot EXCEPT ![SlotOf(x)] = Released(x)]
    /\ worker' = [worker EXCEPT ![x].pc = "done"]
    /\ UNCHANGED <<httpServer, service, rules, accepted>>

\* The worker's thread ends.
Exit(x) ==
    /\ worker[x].pc = "done"
    /\ Step(x, NoWorker)

----------------------------------------------------------------------------

HttpInit ==
    /\ httpServer = "off"
    /\ inForce = 0 /\ certReady = FALSE /\ live = {} /\ svc = "idle" /\ certs = 0
    /\ policy = {"https", "media"} /\ changes = 0
    /\ slot = [s \in Slots |-> 0]
    /\ accepted = 0
    /\ worker = [x \in HttpWorkers |-> NoWorker]

RequestStep(x) ==
    \/ HttpBegin(x) \/ Read(x) \/ ReadFails(x) \/ Dispatch(x) \/ Info(x) \/ SnPage(x)
    \/ \E up \in BOOLEAN : ConnectBackend(x, up) \/ Forward(x, up) \/ DialTarget(x, up)
    \/ Response(x) \/ TakeSlot(x) \/ RefuseSlot(x)
    \/ TunnelRound(x) \/ TunnelCheck(x) \/ TunnelSend(x) \/ Hangup(x) \/ Exit(x)

Service ==
    \/ SvcLoad \/ SvcSwap \/ UpdateCreds \/ FreeReplaced \/ SvcStandby \/ StandbyEnds \/ PolicyChanges
    \/ \E b \in BOOLEAN : HttpStart(b)
    \/ HttpStop

Client(x) == AcceptRequest(x) \/ ClientSends(x) \/ ClientQuits(x)

Quiet == UNCHANGED httpVars

HttpNext == \/ Service
            \/ \E x \in HttpWorkers : RequestStep(x) \/ TunnelEnds(x) \/ Client(x)
            \/ Quiet

HttpSpec == HttpInit /\ [][HttpNext]_httpVars

----------------------------------------------------------------------------
(* Properties                                                              *)

HttpTypeOK ==
    /\ httpServer \in {"off", "on", "failed", "stopped"}
    /\ inForce \in 0..MaxCerts /\ certReady \in BOOLEAN /\ live \subseteq 1..MaxCerts
    /\ slot \in [Slots -> {0, 1}]
    /\ \A x \in HttpWorkers :
        /\ worker[x].got <= Cap
        /\ worker[x].arrived <= Pieces(worker[x].req)
        /\ worker[x].ans = "none" \/ worker[x].pc \in {"done", "tunnel", "relay", "send", "hangup"}

\* A request whose length the code can see, that fits its buffer and whose client
\* stays, reaches the backend whole, however it was cut into segments.
ForwardedWhole == \A x \in HttpWorkers :
    worker[x].pc = "response" /\ worker[x].req.spelled /\ Pieces(worker[x].req) <= Cap /\ ~worker[x].quit
        => worker[x].sent = Pieces(worker[x].req)

\* At most one tunnel per kind, and the flag tells who has it.
OneTunnel == \A s \in Slots :
    Cardinality({x \in HttpWorkers : worker[x].pc \in {"dial", "tunnel", "relay", "send", "hangup"} /\ SlotOf(x) = s})
        = slot[s]

=============================================================================
