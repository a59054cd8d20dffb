---------------------------- MODULE ProxyTunnel ----------------------------
(***************************************************************************)
(* The worker of the RTP tunnel of leo4proxy (rtp_tunnel.c): datagrams of  *)
(* two local UDP sockets go as frames over one mTLS connection, which is   *)
(* opened by the first datagram, closed when the media stop, and tried     *)
(* again after a growing pause when it fails.                              *)
(*                                                                         *)
(* A tick of Pass is the unit of every pause.  A socket buffer holds up to *)
(* Buffer datagrams; more are lost in the kernel.                          *)
(***************************************************************************)
EXTENDS Naturals

CONSTANTS
    Buffer,       \* datagrams the receive buffer of a socket holds
    Drain,        \* datagrams taken in a round (32 RTP, 16 RTCP)
    Base,         \* rtp_tunnel_reconnect_sec
    BackoffCap,   \* DEFAULT_RTP_TUNNEL_RECONNECT_MAX_SEC
    IdleTimeout   \* rtp_tunnel_idle_timeout_sec, 0 for none

ASSUME TunnelAssumption ==
    /\ Buffer \in Nat \ {0} /\ Drain \in Nat \ {0}
    /\ Base \in Nat \ {0} /\ BackoffCap \in Nat \ {0} /\ IdleTimeout \in Nat

VARIABLES
    state,    \* the loop: "greeted" is CONNECTING after the preamble
    running,  \* server->isRunning
    queue,    \* datagrams in the buffers of the RTP and the RTCP socket
    datagram,  \* the datagram that asks for a connection: "none" | "rtp" | "rtcp"
    remote,   \* what the upstream received: "none" | "open" | "preamble" | "media"
    tunnelActive,   \* g_proxyStats.rtp_tunnel_active
    backoff,  \* current_backoff_sec
    waited,   \* ticks since the pause began
    traffic,  \* trafficSeenDuringBackoff
    quiet,    \* ticks since lastActivityTime
    drained,  \* datagrams of this round, per socket still to be served
    allowed,  \* policy_media_allowed
    upstream        \* the upstream accepts connections

tunnelVars == <<state, running, queue, datagram, remote, tunnelActive, backoff, waited, traffic,
          quiet, drained, allowed, upstream>>
tunnelWorld == <<allowed, upstream>>

Kinds == {"rtp", "rtcp"}
Least(a, b) == IF a < b THEN a ELSE b
Limit == Base + BackoffCap

----------------------------------------------------------------------------
(* The world                                                               *)

Arrive(k) ==
    /\ queue[k] < Buffer
    /\ queue' = [queue EXCEPT ![k] = @ + 1]
    /\ UNCHANGED <<state, running, datagram, remote, tunnelActive, backoff, waited, traffic,
                   quiet, drained, tunnelWorld>>

\* One second, for everything that is measured.
Pass ==
    /\ waited' = IF state = "backoff" THEN Least(waited + 1, Limit) ELSE waited
    /\ quiet' = IF state = "streaming" THEN Least(quiet + 1, IdleTimeout) ELSE quiet
    /\ <<waited', quiet'>> # <<waited, quiet>>
    /\ UNCHANGED <<state, running, queue, datagram, remote, tunnelActive, backoff, traffic,
                   drained, tunnelWorld>>

UpstreamFlips ==
    /\ upstream' = ~upstream
    /\ UNCHANGED <<state, running, queue, datagram, remote, tunnelActive, backoff, waited, traffic,
                   quiet, drained, allowed>>

PolicyFlips ==
    /\ allowed' = ~allowed
    /\ UNCHANGED <<state, running, queue, datagram, remote, tunnelActive, backoff, waited, traffic,
                   quiet, drained, upstream>>

----------------------------------------------------------------------------
(* Start and stop                                                          *)

\* create_bound_udp_socket for both ports; one that fails closes the other.
TunnelStart(rtp, rtcp) ==
    /\ state = "off"
    /\ state' = IF rtp /\ rtcp THEN "idle" ELSE "ended"
    /\ running' = (rtp /\ rtcp)
    /\ UNCHANGED <<queue, datagram, remote, tunnelActive, backoff, waited, traffic, quiet,
                   drained, tunnelWorld>>

TunnelStop ==
    /\ running
    /\ running' = FALSE
    /\ UNCHANGED <<state, queue, datagram, remote, tunnelActive, backoff, waited, traffic, quiet,
                   drained, tunnelWorld>>

Live == state \notin {"off", "ended"}

\* The loop sees isRunning and closes what is open.
End ==
    /\ Live /\ ~running
    /\ state # "greeted" /\ remote # "open"
    /\ state' = "ended"
    /\ remote' = "none" /\ tunnelActive' = 0
    /\ drained' = {}
    /\ UNCHANGED <<running, queue, datagram, backoff, waited, traffic, quiet, tunnelWorld>>

----------------------------------------------------------------------------
(* The worker                                                              *)

\* The top of the loop under a denying policy: the connection is closed, the datagram
\* in hand forgotten, and what arrives is read and dropped.
Denied ==
    /\ Live /\ running /\ ~allowed
    /\ state \in {"idle", "connecting", "streaming"}
    /\ drained = {} /\ remote # "open"
    /\ state' = "idle"
    /\ datagram' = "none"
    /\ remote' = "none" /\ tunnelActive' = 0
    /\ queue' = [k \in Kinds |-> IF queue[k] > 0 THEN queue[k] - 1 ELSE 0]
    /\ UNCHANGED <<running, backoff, waited, traffic, quiet, drained, tunnelWorld>>

\* recvfrom, RTP before RTCP: the datagram that asks for a connection.
First == IF queue["rtp"] > 0 THEN "rtp" ELSE "rtcp"

TunnelIdle ==
    /\ state = "idle" /\ running /\ allowed
    /\ \E k \in Kinds : queue[k] > 0
    /\ datagram' = First
    /\ queue' = [queue EXCEPT ![First] = @ - 1]
    /\ tunnelActive' = 0
    /\ state' = "connecting"
    /\ UNCHANGED <<running, remote, backoff, waited, traffic, quiet, drained, tunnelWorld>>

\* Any failure starts a pause.
Failure ==
    /\ state' = "backoff"
    /\ remote' = "none" /\ tunnelActive' = 0
    /\ datagram' = "none"
    /\ waited' = 0 /\ traffic' = FALSE
    /\ drained' = {}

\* schannel_connect_channel, or the send of the preamble, fails.
ConnectFails ==
    /\ state = "connecting" /\ running
    /\ remote = "none"
    /\ Failure
    /\ UNCHANGED <<running, queue, backoff, quiet, tunnelWorld>>

Connect ==
    /\ state = "connecting" /\ running /\ upstream /\ allowed
    /\ remote = "none"
    /\ remote' = "open"
    /\ UNCHANGED <<state, running, queue, datagram, tunnelActive, backoff, waited, traffic, quiet,
                   drained, tunnelWorld>>

\* The pause starts small again.
Reset == Base

\* Mutant: the preamble is left to the first media frame.
Preamble_Late(r) == r

Preamble(r) == "preamble"

\* The preamble with the SN; the pause starts small again.
SendPreamble(ok) ==
    /\ state = "connecting"
    /\ remote = "open"
    /\ IF ok
       THEN /\ remote' = Preamble(remote)
            /\ backoff' = Reset
            /\ tunnelActive' = 1
            /\ state' = "greeted"
            /\ UNCHANGED <<datagram, waited, traffic, drained>>
       ELSE Failure /\ UNCHANGED backoff
    /\ UNCHANGED <<running, queue, quiet, tunnelWorld>>

\* pendingLen = 0 after the send, whether it worked or not.
InHand == "none"

\* The datagram in hand is the first frame.
SendFirst(ok) ==
    /\ state = "greeted"
    /\ IF ok
       THEN /\ remote' = "media"
            /\ datagram' = InHand
            /\ quiet' = 0
            /\ state' = "streaming"
            /\ UNCHANGED <<tunnelActive, waited, traffic, drained>>
       ELSE Failure /\ UNCHANGED quiet
    /\ UNCHANGED <<running, queue, backoff, tunnelWorld>>

\* The idle timeout is looked at between rounds.
IdleCloses ==
    /\ state = "streaming" /\ running /\ allowed
    /\ drained = {}
    /\ IdleTimeout > 0 /\ quiet >= IdleTimeout
    /\ state' = "idle"
    /\ remote' = "none" /\ tunnelActive' = 0
    /\ UNCHANGED <<running, queue, datagram, backoff, waited, traffic, quiet, drained,
                   tunnelWorld>>

\* select reports the sockets with data; each is served up to its limit.
Round ==
    /\ state = "streaming" /\ running /\ allowed
    /\ drained = {}
    /\ IdleTimeout > 0 => quiet < IdleTimeout
    /\ \E k \in Kinds : queue[k] > 0
    /\ drained' = {<<k, 0>> : k \in {j \in Kinds : queue[j] > 0}}
    /\ UNCHANGED <<state, running, queue, datagram, remote, tunnelActive, backoff, waited, traffic,
                   quiet, tunnelWorld>>

\* The socket being served: RTP first.
Serving == CHOOSE p \in drained : p[1] = "rtp" \/ \A r \in drained : r[1] # "rtp"

\* schannel_send refuses when the policy denies.
SendWorks == allowed

\* One datagram is framed and sent.
Relay(ok) ==
    /\ state = "streaming" /\ running
    /\ drained # {}
    /\ queue[Serving[1]] > 0 /\ Serving[2] < Drain
    /\ queue' = [queue EXCEPT ![Serving[1]] = @ - 1]
    /\ IF ok /\ SendWorks
       THEN /\ drained' = (drained \ {Serving}) \cup {<<Serving[1], Serving[2] + 1>>}
            /\ quiet' = 0
            /\ UNCHANGED <<state, remote, tunnelActive, datagram, waited, traffic>>
       ELSE Failure /\ UNCHANGED quiet
    /\ UNCHANGED <<running, backoff, tunnelWorld>>

\* A socket is empty or has had its share.
Served ==
    /\ state = "streaming" /\ running
    /\ drained # {}
    /\ queue[Serving[1]] = 0 \/ Serving[2] >= Drain
    /\ drained' = drained \ {Serving}
    /\ UNCHANGED <<state, running, queue, datagram, remote, tunnelActive, backoff, waited, traffic,
                   quiet, tunnelWorld>>

\* A datagram does not prolong the pause.
StillWaited == waited

\* A slice of the pause: what arrived is read and dropped.
BackoffSlice ==
    /\ state = "backoff" /\ running /\ allowed
    /\ waited < backoff
    /\ \E k \in Kinds : queue[k] > 0
    /\ queue' = [k \in Kinds |-> 0]
    /\ traffic' = TRUE
    /\ waited' = StillWaited
    /\ UNCHANGED <<state, running, datagram, remote, tunnelActive, backoff, quiet, drained,
                   tunnelWorld>>

\* The next pause.
Doubled(n) == Least(n * 2, BackoffCap)

\* The pause is over, or the policy denies.
PauseOver == waited >= backoff \/ ~allowed

\* The pause ends: another attempt when a datagram is waiting, IDLE otherwise.
BackoffEnds ==
    /\ state = "backoff" /\ running
    /\ PauseOver
    /\ backoff' = Doubled(backoff)
    /\ IF traffic /\ \E k \in Kinds : queue[k] > 0
       THEN /\ datagram' = First
            /\ queue' = [queue EXCEPT ![First] = @ - 1]
            /\ state' = "connecting"
       ELSE state' = "idle" /\ UNCHANGED <<datagram, queue>>
    /\ UNCHANGED <<running, remote, tunnelActive, waited, traffic, quiet, drained, tunnelWorld>>

----------------------------------------------------------------------------

TunnelInit ==
    /\ state = "off" /\ running = FALSE
    /\ queue = [k \in Kinds |-> 0]
    /\ datagram = "none" /\ remote = "none" /\ tunnelActive = 0
    /\ backoff = Base /\ waited = 0 /\ traffic = FALSE
    /\ quiet = 0 /\ drained = {}
    /\ allowed = TRUE /\ upstream = TRUE

TunnelWorker ==
    \/ End \/ Denied \/ TunnelIdle \/ Connect
    \/ SendPreamble(TRUE) \/ SendFirst(TRUE) \/ Relay(TRUE)
    \/ IdleCloses \/ Round \/ Served \/ BackoffSlice \/ BackoffEnds

\* Steps that fail: a connection at any time, a send.
Trouble ==
    \/ ConnectFails \/ SendPreamble(FALSE) \/ SendFirst(FALSE) \/ Relay(FALSE)

TunnelNext ==
    \/ TunnelWorker \/ Trouble
    \/ \E a, b \in BOOLEAN : TunnelStart(a, b)
    \/ TunnelStop
    \/ \E k \in Kinds : Arrive(k)
    \/ Pass \/ UpstreamFlips \/ PolicyFlips

TunnelSpec == TunnelInit /\ [][TunnelNext]_tunnelVars

----------------------------------------------------------------------------
(* Properties                                                              *)

TunnelTypeOK ==
    /\ state \in {"off", "idle", "connecting", "greeted", "streaming", "backoff", "ended"}
    /\ queue \in [Kinds -> 0..Buffer]
    /\ datagram \in Kinds \cup {"none"}
    /\ backoff \in 1..Limit
    /\ tunnelActive \in {0, 1}

\* The first thing a connection carries is the preamble, and "active" tells whether
\* there is a connection that has it.
PreambleFirst ==
    /\ remote = "media" => state = "streaming"
    /\ state = "streaming" => remote = "media"
    /\ tunnelActive = 1 <=> remote \in {"preamble", "media"}

=============================================================================
