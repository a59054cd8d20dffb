---------------------------- MODULE ProxyReverse ----------------------------
(***************************************************************************)
(* One connection of the reverse HTTPS proxy of leo4proxy                  *)
(* (reverse_proxy.c: reverse_client_worker) and the redirector of port 80. *)
(* The worker reads request headers in a keep-alive loop, answers some     *)
(* paths itself, and turns into a byte tunnel with the first request that  *)
(* reaches the backend.                                                    *)
(*                                                                         *)
(* The client's script is a sequence of requests; what it writes is the    *)
(* concatenation of their units: the request line "h", the end of the      *)
(* header "e" and one "b" per unit of body.  The worker's position in that *)
(* stream is what its buffers hold.                                        *)
(***************************************************************************)
EXTENDS Naturals, Sequences, SequencesExt

CONSTANTS
    Script,    \* the requests: [kind, html, body, close]
    Waits,     \* the client waits for an answer before its next request
    Cap,       \* size of reqHeaderBuf, in units
    MaxFlips   \* bound: changes of the backend and of the certificate

\* What the constants satisfy
ReverseAssumption ==
    /\ Len(Script) > 0
    /\ Waits \in BOOLEAN /\ Cap \in Nat \ {0} /\ MaxFlips \in Nat

VARIABLES
    pc,      \* where the worker is
    sent,    \* units the client has written
    from,    \* units discarded or passed on by the worker: the buffer starts behind them
    read,    \* units read from the TLS session
    target,  \* the units the backend has received on this connection, in order
    up,      \* the backend accepts connections
    ready,   \* g_proxyStats.cert_ready
    flips,   \* changes of up and ready
    served,  \* requests the backend answered on this connection
    answers, \* the answers that went to the client, with the request each is for
    left,    \* the client has closed
    redirect \* the connection to port 80

vars == <<pc, sent, from, read, target, up, ready, flips, served, answers, left, redirect>>

----------------------------------------------------------------------------
(* The stream                                                              *)

Units(k) == <<[req |-> k, part |-> "h"], [req |-> k, part |-> "e"]>>
                \o [i \in 1..Script[k].body |-> [req |-> k, part |-> "b"]]

Stream == FlattenSeq([k \in DOMAIN Script |-> Units(k)])

LastUnit(k) == CHOOSE i \in DOMAIN Stream :
    Stream[i].req = k /\ \A j \in DOMAIN Stream : Stream[j].req = k => j <= i

\* strstr(reqHeaderBuf, "\r\n\r\n")
HeaderEnd == {i \in (from + 1)..read : Stream[i].part = "e"}

\* The request line is at the start of the buffer, or something else is.
Parsed == Stream[from + 1].part = "h"
Current == Stream[from + 1].req

----------------------------------------------------------------------------
(* The client and the backend                                              *)

ClientWrites ==
    /\ ~left /\ pc \notin {"handshake", "closed"}
    /\ sent < Len(Stream)
    /\ Waits /\ Stream[sent + 1].part = "h" => Len(answers) >= Stream[sent + 1].req - 1
    /\ sent' = sent + 1
    /\ UNCHANGED <<pc, from, read, target, up, ready, flips, served, answers, left, redirect>>

ClientLeaves ==
    /\ ~left
    /\ left' = TRUE
    /\ UNCHANGED <<pc, sent, from, read, target, up, ready, flips, served, answers, redirect>>

\* The service thread drops the certificate or has it again.
CertFlips ==
    /\ flips < MaxFlips
    /\ flips' = flips + 1
    /\ ready' = ~ready
    /\ UNCHANGED <<pc, sent, from, read, target, up, served, answers, left, redirect>>

BackendFlips ==
    /\ flips < MaxFlips
    /\ flips' = flips + 1
    /\ up' = ~up
    /\ UNCHANGED <<pc, sent, from, read, target, ready, served, answers, left, redirect>>

----------------------------------------------------------------------------
(* The worker                                                              *)

Go(to) ==
    /\ pc' = to
    /\ UNCHANGED <<sent, from, read, target, up, ready, flips, served, answers, left, redirect>>

\* reverse_listener_thread hands the connection over, schannel_accept.
Handshake(ok) ==
    /\ pc = "handshake"
    /\ Go(IF ok THEN "header" ELSE "closed")

\* What the buffer holds after a read.
Taken == IF sent - from <= Cap THEN sent ELSE from + Cap

\* schannel_recv into the rest of reqHeaderBuf.
Recv ==
    /\ pc = "header"
    /\ HeaderEnd = {} /\ read - from < Cap
    /\ sent > read
    /\ read' = Taken
    /\ UNCHANGED <<pc, sent, from, target, up, ready, flips, served, answers, left, redirect>>

\* SO_RCVTIMEO: 15 seconds without a byte end the read.
Expires == TRUE

\* The client closed, the read timed out, or the buffer is full without a header.
HeaderFails ==
    /\ pc = "header"
    /\ HeaderEnd = {}
    /\ read - from >= Cap \/ (sent = read /\ (left \/ Expires))
    /\ Go("closed")

BuiltIn == {"options", "favicon", "info", "sn", "redirect"}

\* handle_info_request: the page for programs and the one for browsers, with the
\* certificate and the backend as they are now.
InfoJson == [form |-> "json", ready |-> ready, online |-> up]
InfoHtml == [form |-> "html", ready |-> ready, online |-> up]
InfoPage(html) == IF html THEN InfoHtml ELSE InfoJson

\* The other answers of the proxy: the SN, which is served whatever cert_ready says,
\* 302 to the info page, 204 for OPTIONS and the icon, and 502.
SnPage == [form |-> "sn", ready |-> TRUE, online |-> FALSE]
Redirect == [form |-> "redirect", ready |-> FALSE, online |-> FALSE]
NoContent == [form |-> "204", ready |-> FALSE, online |-> FALSE]
BadGateway == [form |-> "502", ready |-> FALSE, online |-> FALSE]
FromBackend == [form |-> "backend", ready |-> FALSE, online |-> TRUE]

OwnPage(r) == CASE r.kind = "info" -> InfoPage(r.html)
                [] r.kind = "sn" -> SnPage
                [] r.kind = "redirect" -> Redirect
                [] OTHER -> NoContent

\* get_http_header "Connection"
WantsClose == Parsed /\ Script[Current].close

\* Mutant: an answered header stays in the buffer.
AfterAnswer_Kept == from

\* The loop starts again with an empty buffer: what had been read behind the header is
\* dropped with it.
AfterAnswer == read

\* An answer of the proxy itself, and the next round of the loop.
OwnAnswer(page) ==
    /\ answers' = Append(answers, [req |-> Current, page |-> page])
    /\ from' = AfterAnswer
    /\ pc' = IF WantsClose THEN "closed" ELSE "header"
    /\ UNCHANGED <<sent, read, target, up, ready, flips, served, left, redirect>>

\* The built-in paths.
AnswerHere ==
    /\ pc = "header"
    /\ HeaderEnd # {}
    /\ Parsed /\ Script[Current].kind \in BuiltIn
    /\ OwnAnswer(OwnPage(Script[Current]))

\* Anything else, a request line that is none included, goes to the backend.
Proxied ==
    /\ HeaderEnd # {}
    /\ ~Parsed \/ Script[Current].kind \notin BuiltIn

\* tcp_connect failed: the info page for a browser at the root, 502 otherwise.
Offline ==
    /\ pc = "header" /\ Proxied /\ ~up
    /\ OwnAnswer(IF Parsed /\ Script[Current].kind = "root" /\ Script[Current].html
                 THEN InfoHtml ELSE BadGateway)

\* reqHeaderBuf + bodyOffset
InitialBody(last) == [i \in 1..(read - last) |-> last + i]

\* The header is rebuilt with the forwarded headers and sent, then what was read
\* behind it.
Forward ==
    /\ pc = "header" /\ Proxied /\ up
    /\ LET last == CHOOSE i \in HeaderEnd : \A j \in HeaderEnd : i <= j IN
        /\ target' = [i \in 1..(last - from) |-> from + i] \o InitialBody(last)
    /\ from' = read
    /\ pc' = "tunnel"
    /\ UNCHANGED <<sent, read, up, ready, flips, served, answers, left, redirect>>

\* A send to the backend fails: the connection ends without an answer.
ForwardFails ==
    /\ pc = "header" /\ Proxied /\ up
    /\ Go("closed")

\* Client to backend.
RelayUp ==
    /\ pc = "tunnel"
    /\ sent > read
    /\ read' = sent /\ from' = sent
    /\ target' = target \o [i \in 1..(sent - read) |-> read + i]
    /\ UNCHANGED <<pc, sent, up, ready, flips, served, answers, left, redirect>>

\* The requests the backend has received whole on the connection, in order.
Complete == {k \in DOMAIN Script :
    /\ \E i \in DOMAIN target : target[i] = LastUnit(k)
    /\ \E i \in DOMAIN target : Stream[target[i]].req = k /\ Stream[target[i]].part = "h"}

\* The backend answers the next of them and the tunnel passes the answer on.
RelayDown ==
    /\ pc = "tunnel"
    /\ \E k \in Complete \ served :
        /\ \A j \in Complete \ served : k <= j
        /\ served' = served \cup {k}
        /\ answers' = Append(answers, [req |-> k, page |-> FromBackend])
    /\ UNCHANGED <<pc, sent, from, read, target, up, ready, flips, left, redirect>>

\* recv or send failed, or select returned nothing for 60 seconds.
TunnelEnds ==
    /\ pc = "tunnel"
    /\ Go("closed")

----------------------------------------------------------------------------
(* The redirector of port 80: one recv, then 301 to the host of the header *)

RedirectAccept ==
    /\ redirect = "none"
    /\ redirect' = "open"
    /\ UNCHANGED <<pc, sent, from, read, target, up, ready, flips, served, answers, left>>

\* The Host line came with the first segment or not; a client that closes gets nothing.
RedirectAnswer ==
    /\ redirect = "open"
    /\ redirect' \in {"to_host", "to_own_name", "closed"}
    /\ UNCHANGED <<pc, sent, from, read, target, up, ready, flips, served, answers, left>>

----------------------------------------------------------------------------

Init ==
    /\ pc = "handshake"
    /\ sent = 0 /\ from = 0 /\ read = 0
    /\ target = <<>>
    /\ up \in BOOLEAN /\ ready = TRUE /\ flips = 0
    /\ served = {} /\ answers = <<>>
    /\ left = FALSE
    /\ redirect = "none"

Worker ==
    \/ \E ok \in BOOLEAN : Handshake(ok)
    \/ Recv \/ HeaderFails \/ AnswerHere \/ Offline \/ Forward \/ ForwardFails
    \/ RelayUp \/ RelayDown \/ TunnelEnds

Next ==
    \/ Worker
    \/ ClientWrites \/ ClientLeaves \/ BackendFlips \/ CertFlips
    \/ RedirectAccept \/ RedirectAnswer
    \/ (pc = "closed" /\ UNCHANGED vars)

Spec == Init /\ [][Next]_vars

----------------------------------------------------------------------------
(* Properties                                                              *)

\* The worker's position never runs ahead of the client, nor its buffer over its size.
TypeOK ==
    /\ pc \in {"handshake", "header", "tunnel", "closed"}
    /\ from <= read /\ read <= sent /\ sent <= Len(Stream)
    /\ read - from <= Cap
    /\ up \in BOOLEAN /\ left \in BOOLEAN
    /\ served \subseteq DOMAIN Script

\* A client that waits for its answers gets the i-th answer to its i-th request, as
\* long as no request but the last has a body, and whether the proxy or the backend
\* answers.
InStep ==
    Waits /\ (\A k \in 1..(Len(Script) - 1) : Script[k].body = 0)
        => \A i \in DOMAIN answers : answers[i].req = i

=============================================================================
