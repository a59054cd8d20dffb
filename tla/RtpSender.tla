------------------------------ MODULE RtpSender ------------------------------
(***************************************************************************)
(* The RTP side of l4capture: rtp_packetizer.c cuts an access unit into    *)
(* packets (aggregates, single NAL units, fragments), rtp_sender.c numbers *)
(* and sends them, drops the rest of an access unit when a send fails, and *)
(* reports every second.                                                   *)
(*                                                                         *)
(* An access unit is the sequence of its NAL lengths; a packet names the   *)
(* NAL units it carries by their index and their bytes by an interval, and *)
(* its length is the length of the RTP payload.  The byte layout is left   *)
(* out.  Sequence numbers are modulo SeqSpace, the code's 2^16.              *)
(***************************************************************************)
EXTENDS Integers, Sequences, FiniteSets, SequencesExt

CONSTANTS
    MaxPayload,   \* L4C_RTP_MAX_PAYLOAD_SIZE (1200)
    SeqSpace,       \* 2^16
    SrInterval,   \* L4C_RTCP_SR_INTERVAL_MS in ticks
    PliMin,       \* the 500 ms of the PLI guard in ticks
    AccessUnits,  \* the access units, sequences of NAL lengths
    MaxTime,      \* bound: ticks of a behaviour
    MaxAus        \* bound: access units sent

\* What the constants satisfy
RtpAssumption ==
    /\ MaxPayload \in Nat /\ MaxPayload > 3 /\ SeqSpace \in Nat \ {0}
    /\ {SrInterval, PliMin, MaxTime, MaxAus} \subseteq Nat

VARIABLES
    now,
    s,      \* l4c_rtp_sender: seq_num, pts_start_set, last_rtcp_ms, last_pli_ms, statistics
    wire,   \* the packets of the last access unit that were sent
    last    \* the last access unit given to the sender, and whether it was dropped

vars == <<now, s, wire, last>>

-----------------------------------------------------------------------------
(* l4c_rtp_packetize_au.                                                   *)

MaxFu == MaxPayload - 2      \* L4C_RTP_MAX_FU_PAYLOAD_SIZE

Packet(kind, parts, len, marker) ==
    [kind |-> kind, parts |-> parts, len |-> len, marker |-> marker]

Whole(au, k) == [nal |-> k, from |-> 0, to |-> au[k]]

\* flush_stap: one header byte before the aggregated NAL units
Stap(st, marker) ==
    [out |-> Append(st.out, Packet("stap", st.parts, st.bytes + 1, marker)),
     parts |-> <<>>, bytes |-> 0]

Flushed(st, marker) == IF st.bytes > 0 THEN Stap(st, marker) ELSE st

Ceil(n, d) == (n + d - 1) \div d

\* FU-A: the NAL header is replaced, the rest is cut into pieces of MaxFu
Fragments(au, k, isLast) ==
    LET n == Ceil(au[k] - 1, MaxFu)
        to(i) == IF i * MaxFu < au[k] - 1 THEN i * MaxFu ELSE au[k] - 1
    IN  [i \in 1..n |-> Packet("fu", <<[nal |-> k, from |-> (i - 1) * MaxFu, to |-> to(i)]>>,
                               2 + to(i) - (i - 1) * MaxFu, i = n /\ isLast)]

\* Mutant: a NAL unit that does not fit begins the next aggregate without
\* the one before being flushed
PackNal_Lost(au, st, k) ==
    LET L == au[k]
        isLast == k = Len(au)
        need == 2 + L
        more == [st EXCEPT !.parts = Append(@, Whole(au, k)), !.bytes = @ + need]
        fresh == [out |-> st.out, parts |-> <<Whole(au, k)>>, bytes |-> need]
    IN  CASE L = 0 -> st
          [] L > MaxPayload -> [Flushed(st, FALSE) EXCEPT !.out = @ \o Fragments(au, k, isLast)]
          [] L \in 1..MaxPayload /\ st.bytes + need <= MaxPayload ->
                IF isLast THEN Stap(more, TRUE) ELSE more
          [] OTHER -> IF isLast THEN [fresh EXCEPT !.out = Append(@, Packet("single", <<Whole(au, k)>>, L, TRUE)),
                                                   !.parts = <<>>, !.bytes = 0]
                      ELSE fresh

\* one round of the loop: small NAL units are aggregated while they fit
PackNal(au, st, k) ==
    LET L == au[k]
        isLast == k = Len(au)
        need == 2 + L
        more == [st EXCEPT !.parts = Append(@, Whole(au, k)), !.bytes = @ + need]
        f == Flushed(st, FALSE)
    IN  CASE L = 0 -> st
          [] L > MaxPayload -> [f EXCEPT !.out = @ \o Fragments(au, k, isLast)]
          [] L \in 1..MaxPayload /\ st.bytes + need <= MaxPayload ->
                IF isLast THEN Stap(more, TRUE) ELSE more
          [] OTHER -> IF isLast
                      THEN [f EXCEPT !.out = Append(@, Packet("single", <<Whole(au, k)>>, L, TRUE))]
                      ELSE [f EXCEPT !.parts = <<Whole(au, k)>>, !.bytes = need]

\* the loop and the final flush
Packetize(au) ==
    LET st[k \in 0..Len(au)] ==
            IF k = 0 THEN [out |-> <<>>, parts |-> <<>>, bytes |-> 0]
                     ELSE PackNal(au, st[k - 1], k)
    IN  Flushed(st[Len(au)], TRUE).out

-----------------------------------------------------------------------------
(* l4c_rtp_count_packets: a second walk over the access unit.              *)

\* one round of the counting loop
CountNal(au, c, k) ==
    LET L == au[k]
        isLast == k = Len(au)
        need == 2 + L
        f == [n |-> IF c.bytes > 0 THEN c.n + 1 ELSE c.n, bytes |-> 0]
    IN  CASE L = 0 -> c
          [] L > MaxPayload -> [f EXCEPT !.n = @ + Ceil(L - 1, MaxFu)]
          [] L \in 1..MaxPayload /\ c.bytes + need <= MaxPayload ->
                IF isLast THEN [n |-> c.n + 1, bytes |-> 0] ELSE [c EXCEPT !.bytes = @ + need]
          [] OTHER -> IF isLast THEN [f EXCEPT !.n = @ + 1] ELSE [f EXCEPT !.bytes = need]

CountPackets(au) ==
    LET c[k \in 0..Len(au)] ==
            IF k = 0 THEN [n |-> 0, bytes |-> 0] ELSE CountNal(au, c[k - 1], k)
        e == c[Len(au)]
    IN  IF e.bytes > 0 THEN e.n + 1 ELSE e.n

-----------------------------------------------------------------------------
(* The sender.                                                             *)

\* l4c_rtp_sender_create: a random first sequence number
Init ==
    /\ now = 0 /\ wire = <<>>
    /\ last = [au |-> <<>>, dropped |-> FALSE, from |-> 0, n |-> 0]
    /\ \E q \in {0, SeqSpace - 1} :
          s = [seq |-> q, started |-> FALSE, lastSr |-> 0, lastPli |-> -PliMin,
               packets |-> 0, reported |-> 0, pli |-> FALSE]

\* the sequence number is a uint16_t
NextSeq(q, n) == (q + n) % SeqSpace

\* l4c_rtp_send_au: the whole access unit is counted even when it is dropped
Advance(au, m) == CountPackets(au)

\* l4c_rtp_send_au with rtp_packet_send_cb: the first failing send drops the
\* rest of the access unit; m packets left
SendAu ==
    /\ last.n < MaxAus
    /\ \E au \in AccessUnits : \E m \in 0..Len(Packetize(au)) :
          LET all == Packetize(au)
          IN  /\ wire' = SubSeq(all, 1, m)
              /\ last' = [au |-> au, dropped |-> m < Len(all), from |-> s.seq, n |-> last.n + 1]
              /\ s' = [s EXCEPT !.seq = NextSeq(@, Advance(au, m)),
                                !.started = TRUE, !.packets = @ + m, !.pli = FALSE]
    /\ UNCHANGED now

\* l4c_rtp_sender_poll_rtcp: a report every SrInterval once something was
\* sent; then one packet is read, a PLI counts at most every PliMin
PollRtcp ==
    \E pli \in BOOLEAN :
       LET due == s.started /\ now - s.lastSr >= SrInterval
           taken == pli /\ now - s.lastPli >= PliMin
       IN  /\ s' = [s EXCEPT !.lastSr = IF due THEN now ELSE @,
                             !.reported = IF due THEN s.packets ELSE @,
                             !.lastPli = IF taken THEN now ELSE @, !.pli = taken]
           /\ UNCHANGED <<now, wire, last>>

Tick ==
    /\ now < MaxTime /\ now' = now + 1
    /\ s' = [s EXCEPT !.pli = FALSE] /\ UNCHANGED <<wire, last>>

Next == SendAu \/ PollRtcp \/ Tick

Spec == Init /\ [][Next]_vars

-----------------------------------------------------------------------------
(* Properties.                                                             *)

TypeOK ==
    /\ now \in 0..MaxTime /\ s.seq \in 0..SeqSpace - 1 /\ s.packets \in Nat
    /\ s.reported <= s.packets /\ last.au \in AccessUnits \cup {<<>>}
    /\ \A i \in DOMAIN wire : wire[i].kind \in {"stap", "single", "fu"}

\* the bytes of NAL unit k that the packets p carry, in order: a reference
\* receiver that puts fragments together again
Carried(p, k) ==
    LET parts == FlattenSeq([i \in DOMAIN p |-> p[i].parts])
    IN  SelectSeq(parts, LAMBDA x : x.nal = k)

Complete(au, k, parts) ==
    IF au[k] = 0 THEN parts = <<>>
    ELSE /\ parts # <<>> /\ parts[1].from = 0
         /\ parts[Len(parts)].to = (IF au[k] > MaxPayload THEN au[k] - 1 ELSE au[k])
         /\ \A i \in 1..Len(parts) - 1 : parts[i + 1].from = parts[i].to

\* A receiver that gets every packet of an access unit puts exactly its NAL
\* units together again, each once and without a hole, in their order.
Reassembles ==
    (last.au # <<>> /\ ~last.dropped) =>
        /\ \A k \in DOMAIN last.au : Complete(last.au, k, Carried(wire, k))
        /\ LET order == FlattenSeq([i \in DOMAIN wire |-> wire[i].parts])
           IN  \A i \in 1..Len(order) - 1 : order[i].nal <= order[i + 1].nal

=============================================================================
