------------------------------ MODULE TlsPump ------------------------------
(***************************************************************************)
(* The byte pump of leo4proxy: one worker relays between a plain socket    *)
(* and a TLS session.  schannel_recv and schannel_send (schannel_tls.c)    *)
(* turn TCP segments into records and records into bytes with two buffers; *)
(* three loops use them: mqtt_client_worker, stream_client_worker and the  *)
(* full-duplex loop of reverse_client_worker.                              *)
(*                                                                         *)
(* A record is two units on the wire, so that it may arrive in pieces;     *)
(* plaintext bytes are numbered in the order in which they were written.   *)
(***************************************************************************)
EXTENDS Naturals, Sequences

CONSTANTS
    Loops,      \* the worker loops an instance covers
    Ends,       \* where in the TLS peer's bytes each of its records ends
    MaxMsg,     \* cbMaximumMessage: the plaintext a record holds
    BufLen,     \* the caller's buffer
    PlainBytes  \* the bytes the plain side writes

\* What the constants satisfy
ASSUME PumpAssumption ==
    /\ Loops \subseteq {"mqtt", "stream", "reverse"}
    /\ Ends \in Seq(Nat) /\ \A i, j \in 1 .. Len(Ends) : i <= j => Ends[i] <= Ends[j]
    /\ MaxMsg \in Nat \ {0}
    /\ BufLen \in Nat \ {0}
    /\ PlainBytes \in Nat

VARIABLES
    loop,      \* which of the three loops the worker runs
    pumpPc,    \* "top" | "first" | "sending" | "second" | "reading" | "closed"
    pumpReady, \* the sockets select reported
    tls,       \* SChannelSession: isConnected, recvBuf (units), plainBuf (bytes);
               \* sending: what schannel_send has not yet put into a record
    peer,      \* the TLS peer: records written, wire (units under way), fin, got
    arrived,   \* units that arrived on the TLS socket and were not read
    plain,     \* the plain side: written, unread, fin, got
    pumpStop,  \* server->isRunning was cleared
    why        \* what ended the loop

pumpVars == <<loop, pumpPc, pumpReady, tls, peer, arrived, plain, pumpStop, why>>

\* The plaintext of the i-th record of the peer.
EndOf(i) == IF i = 0 THEN 0 ELSE Ends[i]
Plaintext(i) == [k \in 1..(EndOf(i) - EndOf(i - 1)) |-> EndOf(i - 1) + k]

Units(i) == <<<<i, 1>>, <<i, 2>>>>

FirstFew(s, n) == SubSeq(s, 1, IF n < Len(s) THEN n ELSE Len(s))
RestOf(s, n) == SubSeq(s, n + 1, Len(s))

----------------------------------------------------------------------------
(* schannel_send and schannel_recv                                         *)

\* schannel_send: one round of its loop makes a record of at most cbMaximumMessage
\* bytes of what remains and sends it.
SendRecord ==
    /\ pumpPc = "sending"
    /\ peer' = [peer EXCEPT !.got = @ \o FirstFew(tls.sending, MaxMsg)]
    /\ tls' = [tls EXCEPT !.sending = RestOf(@, MaxMsg)]
    /\ pumpPc' = IF RestOf(tls.sending, MaxMsg) = <<>> THEN "second" ELSE "sending"
    /\ UNCHANGED <<loop, pumpReady, arrived, plain, pumpStop, why>>

\* A record cannot be sent: schannel_send returns the failure, every loop ends.
SendFails ==
    /\ pumpPc = "sending"
    /\ pumpPc' = "closed"
    /\ why' = "tls"
    /\ UNCHANGED <<loop, pumpReady, tls, peer, arrived, plain, pumpStop>>

\* DecryptMessage finds a whole record at the head of recvBuf.
WholeRecord == Len(tls.recvBuf) >= 2

\* Mutant: the copy to plainBuf starts at the beginning of the record.
Stashed_Whole(bytes) == IF Len(bytes) > BufLen THEN bytes ELSE <<>>

\* What does not fit the caller's buffer goes to plainBuf.
Stashed(bytes) == RestOf(bytes, BufLen)

\* SECBUFFER_EXTRA: the ciphertext behind the record stays in recvBuf.
Extra(buf) == RestOf(buf, 2)

\* The bytes a call of schannel_recv hands to the plain side.
Deliver(bytes) == plain' = [plain EXCEPT !.got = @ \o bytes]

\* schannel_recv reads the socket: the buffer is empty or holds part of a record.
\* The socket blocks, its timeouts were reset after the handshake.
ReadSocket ==
    /\ pumpPc = "reading"
    /\ ~WholeRecord
    /\ arrived # <<>>
    /\ tls' = [tls EXCEPT !.recvBuf = @ \o arrived]
    /\ arrived' = <<>>
    /\ UNCHANGED <<loop, pumpPc, pumpReady, peer, plain, pumpStop, why>>

\* The peer closed: schannel_recv clears isConnected and returns 0, every loop
\* ends.
ReadEof ==
    /\ pumpPc = "reading"
    /\ ~WholeRecord
    /\ arrived = <<>> /\ peer.wire = <<>> /\ peer.fin
    /\ tls' = [tls EXCEPT !.connected = FALSE]
    /\ pumpPc' = "closed"
    /\ why' = "tls"
    /\ UNCHANGED <<loop, pumpReady, peer, arrived, plain, pumpStop>>

\* A whole record is decrypted.  The caller gets what fits; an empty record sends
\* schannel_recv back to the socket.
Decrypt ==
    /\ pumpPc = "reading"
    /\ WholeRecord
    /\ LET bytes == Plaintext(tls.recvBuf[1][1]) IN
        /\ tls' = [tls EXCEPT !.recvBuf = Extra(tls.recvBuf),
                              !.plainBuf = Stashed(bytes)]
        /\ Deliver(FirstFew(bytes, BufLen))
        /\ pumpPc' = IF bytes = <<>> THEN "reading" ELSE "top"
    /\ UNCHANGED <<loop, pumpReady, peer, arrived, pumpStop, why>>

----------------------------------------------------------------------------
(* The loops                                                               *)

\* The loop condition of mqtt and stream looks at isRunning, the generation and the
\* policy, any of which `pumpStop' stands for;
\* the loop of the reverse proxy does not.
MustStop == loop # "reverse" /\ pumpStop

LoopEnds ==
    /\ pumpPc = "top"
    /\ MustStop
    /\ pumpPc' = "closed"
    /\ why' = "stop"
    /\ UNCHANGED <<loop, pumpReady, tls, peer, arrived, plain, pumpStop>>

\* Decrypted bytes left over from the last record are delivered before any wait.
DrainPlain ==
    /\ pumpPc = "top"
    /\ ~MustStop
    /\ tls.plainBuf # <<>>
    /\ Deliver(FirstFew(tls.plainBuf, BufLen))
    /\ tls' = [tls EXCEPT !.plainBuf = RestOf(@, BufLen)]
    /\ UNCHANGED <<loop, pumpPc, pumpReady, peer, arrived, pumpStop, why>>

TlsReadable == arrived # <<>> \/ (peer.fin /\ peer.wire = <<>>)
PlainReadable == plain.unread # <<>> \/ (plain.fin /\ plain.unread = <<>>)

Selected == (IF TlsReadable THEN {"tls"} ELSE {}) \cup (IF PlainReadable THEN {"plain"} ELSE {})

\* Broker -> client: the socket is readable, or ciphertext is left in recvBuf.  The
\* loop of the reverse proxy asks select only.
Pending == \/ "tls" \in pumpReady
           \/ loop # "reverse" /\ tls.recvBuf # <<>>

\* select returns; mqtt and stream wait 50 ms, so they come back without a ready
\* socket too.
SelectSockets ==
    /\ pumpPc = "top"
    /\ ~MustStop
    /\ tls.plainBuf = <<>>
    /\ \/ Selected # {}
       \/ loop # "reverse" /\ tls.recvBuf # <<>>
    /\ pumpReady' = Selected
    /\ pumpPc' = "first"
    /\ UNCHANGED <<loop, tls, peer, arrived, plain, pumpStop, why>>

\* The reverse proxy waits 60 s and then closes both sides.
SelectTimeout ==
    /\ pumpPc = "top"
    /\ loop = "reverse"
    /\ tls.plainBuf = <<>>
    /\ Selected = {}
    /\ pumpPc' = "closed"
    /\ why' = "timeout"
    /\ UNCHANGED <<loop, pumpReady, tls, peer, arrived, plain, pumpStop>>

\* Every loop serves the plain side first: the client of mqtt and stream, the
\* target of the reverse proxy.  What recv returns is given to schannel_send; 0
\* ends the loop.
PumpPlain ==
    /\ pumpPc = "first"
    /\ "plain" \in pumpReady
    /\ IF plain.unread # <<>>
       THEN /\ tls' = [tls EXCEPT !.sending = FirstFew(plain.unread, BufLen)]
            /\ plain' = [plain EXCEPT !.unread = RestOf(@, BufLen)]
            /\ pumpPc' = "sending"
            /\ UNCHANGED why
       ELSE /\ pumpPc' = "closed"
            /\ why' = "plain"
            /\ UNCHANGED <<tls, plain>>
    /\ UNCHANGED <<loop, pumpReady, peer, arrived, pumpStop>>

SkipPlain ==
    /\ pumpPc = "first"
    /\ "plain" \notin pumpReady
    /\ pumpPc' = "second"
    /\ UNCHANGED <<loop, pumpReady, tls, peer, arrived, plain, pumpStop, why>>

\* The other direction: a call of schannel_recv, which may wait.
ServeTls ==
    /\ pumpPc = "second"
    /\ pumpPc' = IF Pending THEN "reading" ELSE "top"
    /\ UNCHANGED <<loop, pumpReady, tls, peer, arrived, plain, pumpStop, why>>

----------------------------------------------------------------------------
(* The two sides and the service                                           *)

PeerWrites ==
    /\ ~peer.fin
    /\ peer.written < Len(Ends)
    /\ peer' = [peer EXCEPT !.written = @ + 1, !.wire = @ \o Units(peer.written + 1)]
    /\ UNCHANGED <<loop, pumpPc, pumpReady, tls, arrived, plain, pumpStop, why>>

\* TCP delivers the next unit; segments do not follow records.
SegmentArrives ==
    /\ peer.wire # <<>>
    /\ arrived' = Append(arrived, Head(peer.wire))
    /\ peer' = [peer EXCEPT !.wire = Tail(@)]
    /\ UNCHANGED <<loop, pumpPc, pumpReady, tls, plain, pumpStop, why>>

TlsPeerCloses ==
    /\ ~peer.fin
    /\ peer' = [peer EXCEPT !.fin = TRUE]
    /\ UNCHANGED <<loop, pumpPc, pumpReady, tls, arrived, plain, pumpStop, why>>

PlainWrites ==
    /\ ~plain.fin
    /\ plain.written < PlainBytes
    /\ plain' = [plain EXCEPT !.written = @ + 1, !.unread = Append(@, plain.written + 1)]
    /\ UNCHANGED <<loop, pumpPc, pumpReady, tls, peer, arrived, pumpStop, why>>

PlainCloses ==
    /\ ~plain.fin
    /\ plain' = [plain EXCEPT !.fin = TRUE]
    /\ UNCHANGED <<loop, pumpPc, pumpReady, tls, peer, arrived, pumpStop, why>>

\* mqtt_proxy_stop, stream_proxy_stop.
StopServer ==
    /\ ~pumpStop
    /\ pumpStop' = TRUE
    /\ UNCHANGED <<loop, pumpPc, pumpReady, tls, peer, arrived, plain, why>>

PumpDone == pumpPc = "closed" /\ UNCHANGED pumpVars

PumpInit ==
    /\ loop \in Loops
    /\ pumpPc = "top"
    /\ pumpReady = {}
    /\ tls = [connected |-> TRUE, recvBuf |-> <<>>, plainBuf |-> <<>>, sending |-> <<>>]
    /\ peer = [written |-> 0, wire |-> <<>>, fin |-> FALSE, got |-> <<>>]
    /\ arrived = <<>>
    /\ plain = [written |-> 0, unread |-> <<>>, fin |-> FALSE, got |-> <<>>]
    /\ pumpStop = FALSE
    /\ why = "none"

PumpWorker == \/ ReadSocket \/ ReadEof \/ Decrypt \/ LoopEnds \/ DrainPlain \/ SelectSockets
              \/ SkipPlain \/ PumpPlain \/ SendRecord \/ SendFails \/ ServeTls

PumpTraffic == PeerWrites \/ TlsPeerCloses \/ PlainWrites \/ PlainCloses

PumpNext == PumpWorker \/ SelectTimeout \/ PumpTraffic \/ SegmentArrives \/ StopServer \/ PumpDone

PumpSpec == PumpInit /\ [][PumpNext]_pumpVars

----------------------------------------------------------------------------
(* Properties                                                              *)

PumpTypeOK ==
    /\ loop \in Loops
    /\ pumpPc \in {"top", "first", "sending", "second", "reading", "closed"}
    /\ pumpReady \subseteq {"tls", "plain"}
    /\ peer.written \in 0..Len(Ends)
    /\ plain.written \in 0..PlainBytes
    /\ why \in {"none", "tls", "plain", "stop", "timeout"}
    /\ (why = "none") = (pumpPc # "closed")

\* Whatever the segmentation and the buffer sizes, each side receives a prefix of
\* what the other wrote: schannel_recv and schannel_send lose, repeat and reorder
\* nothing.
InOrder ==
    /\ plain.got = [k \in 1..Len(plain.got) |-> k]
    /\ peer.got = [k \in 1..Len(peer.got) |-> k]
    /\ Len(plain.got) + Len(tls.plainBuf) <= EndOf(peer.written)

=============================================================================
