----------------------------- MODULE MCTraffic -----------------------------
(***************************************************************************)
(* The connections of the terminal for TLC: the link of the console agent  *)
(* to its broker with the probe of an update and with news of its          *)
(* identity, and those of Leo4Proxy: the RTP tunnel, the HTTP front end    *)
(* with its tunnels and under an update probe, the reverse HTTPS proxy,    *)
(* and the pump between a TLS and a plain socket. A behaviour is about one *)
(* of them.                                                                *)
(***************************************************************************)
EXTENDS ConLink, ProxyTunnel, ProxyHttp, TlsPump, Sequences, TLC

Get(p) == [method |-> "GET", path |-> p, body |-> 0, spelled |-> FALSE,
           local |-> TRUE, tls |-> FALSE, extra |-> FALSE]
Post(n, known) == [Get("app") EXCEPT !.method = "POST", !.body = n, !.spelled = known]
Tunnel(p) == [Get(p) EXCEPT !.method = "CONNECT"]
\* Answers and forwarded requests: a body that fits, one that is too long, one
\* whose length is not recognised
Answered == {Get("info"), Get("sn"), Get("health"), Get("files"), Get("licence"), Post(1, TRUE), Post(2, TRUE),
             Post(1, FALSE), [Get("app") EXCEPT !.method = "OPTIONS"]}
Probed == {Get("info"), [Get("info") EXCEPT !.local = FALSE], Get("app"), Tunnel("registry"),
           [Get("info") EXCEPT !.tls = TRUE], Post(1, TRUE)}
Tunnelled == {Tunnel("registry"), [Tunnel("storage") EXCEPT !.extra = TRUE]}

\* Own pages, a page of the backend and an upload at the end
Ask(kind) == [kind |-> kind, html |-> FALSE, body |-> 0, close |-> FALSE]
Script == <<Ask("info"), [Ask("root") EXCEPT !.html = TRUE], Ask("redirect"),
            [Ask("app") EXCEPT !.body = 2, !.close = TRUE]>>

\* Records of 3, 0 and 2 bytes
RecordEnds == <<3, 3, 5>>

HttpSymmetry == Permutations(HttpWorkers)

VARIABLE scene   \* the component this behaviour is about

\* ProxyReverse
VARIABLES reverse_pc, sent, from, read, target, up, reverse_ready, flips, served,
          answers, left, redirect
reverseVars == <<reverse_pc, sent, from, read, target, up, reverse_ready, flips,
                 served, answers, left, redirect>>

News == INSTANCE ConLink WITH
    ProbeTimeout <- 2, SubackDeadline <- 1, FrameTimeout <- 2, Snapshots <- {1, 2},
    MaxConn <- 1, MaxLinkTime <- 1, MaxCalls <- 0, MaxFrames <- 1, MaxWork <- 1,
    MaxSnap <- 2
Probe == INSTANCE ProxyHttp WITH
    HttpWorkers <- HttpWorkers, Requests <- Probed, UpdateProbe <- TRUE,
    Header <- 2, Cap <- 3, MaxCerts <- 1, MaxPolicy <- 1, MaxHttpConns <- 1,
    UpLimit <- 1
Storage == INSTANCE ProxyHttp WITH
    HttpWorkers <- HttpWorkers, Requests <- Tunnelled, UpdateProbe <- FALSE,
    Header <- 1, Cap <- 3, MaxCerts <- 1, MaxPolicy <- 1, MaxHttpConns <- 2,
    UpLimit <- 1
Reverse == INSTANCE ProxyReverse WITH
    Script <- Script, Waits <- TRUE, Cap <- 3, MaxFlips <- 2, pc <- reverse_pc,
    ready <- reverse_ready

ASSUME Reverse!ReverseAssumption

TrafficInit ==
    /\ scene \in {"link", "tunnel", "http", "pump", "news", "probe", "storage", "reverse"}
    /\ CASE scene = "link" -> LinkInit
         [] OTHER -> News!LinkInit
    /\ TunnelInit
    /\ CASE scene = "http" -> HttpInit
         [] scene = "probe" -> Probe!HttpInit
         [] OTHER -> Storage!HttpInit
    /\ PumpInit
    /\ scene # "pump" => loop = "mqtt"
    /\ Reverse!Init
    /\ scene # "reverse" => ~up

LinkStep == scene = "link" /\ LinkNext /\ UNCHANGED <<scene, tunnelVars, httpVars, pumpVars, reverseVars>>
TunnelStep == scene = "tunnel" /\ TunnelNext /\ UNCHANGED <<scene, linkVars, httpVars, pumpVars, reverseVars>>
HttpStep == scene = "http" /\ HttpNext /\ UNCHANGED <<scene, linkVars, tunnelVars, pumpVars, reverseVars>>
PumpStep == scene = "pump" /\ PumpNext /\ UNCHANGED <<scene, linkVars, tunnelVars, httpVars, reverseVars>>
NewsStep == scene = "news" /\ News!LinkNext /\ UNCHANGED <<scene, tunnelVars, httpVars, pumpVars, reverseVars>>
ProbeStep == scene = "probe" /\ Probe!HttpNext /\ UNCHANGED <<scene, linkVars, tunnelVars, pumpVars, reverseVars>>
StorageStep == scene = "storage" /\ Storage!HttpNext /\ UNCHANGED <<scene, linkVars, tunnelVars, pumpVars, reverseVars>>
ReverseStep == scene = "reverse" /\ Reverse!Next /\ UNCHANGED <<scene, linkVars, tunnelVars, httpVars, pumpVars>>
TrafficNext == LinkStep \/ TunnelStep \/ HttpStep \/ PumpStep \/ NewsStep \/ ProbeStep \/ StorageStep \/ ReverseStep
TrafficSpec == TrafficInit /\ [][TrafficNext]_<<scene, linkVars, tunnelVars, httpVars, pumpVars, reverseVars>>

\* Answers go to the client in the order of its requests (ProxyReverse)
InStep == Reverse!InStep
=============================================================================
