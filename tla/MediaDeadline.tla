--------------------------- MODULE MediaDeadline ---------------------------
(***************************************************************************)
(* The lease of a v3 media session against clocks that jump, fail and      *)
(* restart (l4media/ingress/src/media_lifecycle.h, the deadlines of        *)
(* media_v2.h).  An issuer grants the lease up to a time of day; the       *)
(* server counts it down on the monotonic clock, over process restarts but *)
(* not over a reboot of the kernel.                                        *)
(*                                                                         *)
(* Time is real time in half milliseconds, so that rounding shows; expiry  *)
(* and deadline are in milliseconds, like the code's.                      *)
(***************************************************************************)
EXTENDS Naturals

CONSTANTS MaxT,        \* bound on real time
          Skews,       \* what the time of day may be ahead of real time
          MaxLease,    \* the longest lease admitted (7200 s in the code)
          MaxExpiry,   \* bound on the expiries asked for
          MaxBoots     \* bound on restarts

ASSUME DeadlineAssumption == /\ {MaxT, MaxLease, MaxExpiry, MaxBoots} \subseteq Nat /\ MaxLease > 0
                             /\ Skews \subseteq Nat /\ Skews # {}

VARIABLES t, skew,     \* real time; the time of day is t + skew
          boot,        \* the kernel's boot: [id, at]
          fault,       \* does CLOCK_MONOTONIC fail right now?
          failed,      \* g_media_monotonic_failed of this process
          up,          \* is the process running?
          s,           \* the session
          rec,         \* its record in Redis, with the boot id, or NoRec
          redis,       \* does the connection to Redis work?
          end,         \* real time at which what was granted ends (for the properties)
          boots

vars == <<t, skew, boot, fault, failed, up, s, rec, redis, end, boots>>

NoSession == [state |-> "none", camera |-> FALSE, issuer |-> 0, deadline |-> 0]
NoRec == [s |-> NoSession, boot |-> 0]

-----------------------------------------------------------------------------
(* Clocks.                                                                 *)

Mono(x) == (x - boot.at) \div 2

\* Does the monotonic clock answer?  A failure is kept by the process.
media_monotonic_ms == ~fault /\ ~failed

\* The time of day at real time x, rounded up.
media_realtime_receipt_ms(x) == (x + skew + 1) \div 2

\* The monotonic sample is taken at t, that of the time of day d later.
media_v3_receipt_deadline(expiry, d) == Mono(t) + (expiry - media_realtime_receipt_ms(t + d))
Receivable(expiry, d) ==
    /\ media_monotonic_ms
    /\ expiry > media_realtime_receipt_ms(t + d) /\ expiry - media_realtime_receipt_ms(t + d) <= MaxLease

\* The same instant in real time, had the time of day stayed right.
GrantedUntil(expiry) == 2 * expiry - skew

-----------------------------------------------------------------------------
(* The session.                                                            *)

Live(x) == x.state \in {"starting", "active"}

\* A lease ends at its deadline, or when the clock cannot be read.
Due(now) == ~media_monotonic_ms \/ Mono(now) >= s.deadline

expire_media_session(now) == IF Live(s) /\ Due(now) THEN [s EXCEPT !.state = "stopped"] ELSE s

\* mv_persist; a stopped session is kept as such.
Persist(x) == rec' = IF redis THEN [s |-> x, boot |-> boot.id] ELSE rec

\* Reading the clock while it fails is remembered.
Sampled == failed' = (failed \/ fault)

Init ==
    /\ t = 0 /\ skew \in Skews /\ boot = [id |-> 1, at |-> 0] /\ fault = FALSE /\ failed = FALSE
    /\ up = TRUE /\ s = NoSession /\ rec = NoRec /\ redis = TRUE /\ end = 0 /\ boots = 0

\* A first start; the same request again only expires what is there.
Start(camera, expiry, d) ==
    /\ up /\ t + d <= MaxT
    /\ IF s = NoSession
       THEN /\ Receivable(expiry, d)
            /\ s' = [state |-> "starting", camera |-> camera, issuer |-> expiry,
                     deadline |-> media_v3_receipt_deadline(expiry, d)]
            /\ end' = GrantedUntil(expiry)
       ELSE s' = expire_media_session(t) /\ end' = end
    /\ IF s' # s THEN Persist(s') ELSE rec' = rec
    /\ Sampled /\ t' = t + d /\ UNCHANGED <<skew, boot, fault, up, redis, boots>>

\* A camera's renewal moves the deadline by what the issuer added.
Camera(x, expiry) == [x EXCEPT !.issuer = expiry, !.deadline = @ + (expiry - x.issuer)]

CameraAdmitted(x, expiry) == x.deadline + (expiry - x.issuer) - Mono(t) <= MaxLease

media_v3_renew_deadline(x, expiry, d) ==
    IF expiry = x.issuer \/ (x.camera /\ expiry < x.issuer) THEN x
    ELSE IF x.camera THEN Camera(x, expiry)
    ELSE [x EXCEPT !.issuer = expiry, !.deadline = media_v3_receipt_deadline(expiry, d)]

\* May this renewal be taken?  The desktop's receipt needs time, after which the
\* old lease must still run.
Renewable(x, expiry, d) ==
    \/ expiry = x.issuer
    \/ x.camera /\ (expiry < x.issuer \/ CameraAdmitted(x, expiry))
    \/ /\ ~x.camera /\ Receivable(expiry, d) /\ Mono(t + d) < x.deadline
       /\ media_v3_receipt_deadline(expiry, d) > Mono(t + d)

Renew(expiry, d) ==
    LET x == expire_media_session(t)
        y == media_v3_renew_deadline(x, expiry, d)
    IN  /\ up /\ s # NoSession /\ t + d <= MaxT
        /\ IF Live(x) /\ media_monotonic_ms /\ Renewable(x, expiry, d)
           THEN /\ s' = [y EXCEPT !.state = "active"] /\ Persist(s')
                /\ end' = IF y.issuer = x.issuer THEN end
                          ELSE IF x.camera THEN end + 2 * (expiry - x.issuer) ELSE GrantedUntil(expiry)
           ELSE s' = x /\ UNCHANGED end /\ IF x # s THEN Persist(x) ELSE rec' = rec
        /\ Sampled /\ t' = t + d /\ UNCHANGED <<skew, boot, fault, up, redis, boots>>

\* The watchdog and the packet gate.
Sweep ==
    /\ up /\ Live(s) /\ Due(t) /\ s' = expire_media_session(t) /\ Persist(s') /\ Sampled
    /\ UNCHANGED <<t, skew, boot, fault, up, redis, end, boots>>

Stop ==
    /\ up /\ Live(s) /\ s' = [s EXCEPT !.state = "stopped"] /\ Persist(s') /\ Sampled
    /\ UNCHANGED <<t, skew, boot, fault, up, redis, end, boots>>

-----------------------------------------------------------------------------
(* Restarts and the environment.                                           *)

Crash ==
    /\ up /\ boots < MaxBoots /\ boots' = boots + 1 /\ up' = FALSE /\ s' = NoSession /\ failed' = FALSE
    /\ UNCHANGED <<t, skew, boot, fault, rec, redis, end>>

Reboot ==
    /\ ~up /\ boots < MaxBoots /\ boots' = boots + 1 /\ boot' = [id |-> boot.id + 1, at |-> t]
    /\ UNCHANGED <<t, skew, fault, failed, up, s, rec, redis, end>>

\* Mutant: the anchor of another boot is taken.
Anchored_AnyBoot(r) ==
    /\ media_monotonic_ms /\ r.s.deadline > Mono(t) /\ r.s.deadline - Mono(t) <= MaxLease

\* mv_restore_deadline
Anchored(r) ==
    /\ r.boot = boot.id /\ media_monotonic_ms
    /\ r.s.deadline > Mono(t) /\ r.s.deadline - Mono(t) <= MaxLease

\* media_v2_restore: a record that was live and whose anchor holds starts over.
Restore ==
    /\ ~up /\ up' = TRUE /\ redis' = TRUE /\ Sampled
    /\ s' = IF rec = NoRec THEN NoSession
            ELSE [rec.s EXCEPT !.state = IF Live(rec.s) /\ Anchored(rec) THEN "starting" ELSE "stopped"]
    /\ UNCHANGED <<t, skew, boot, fault, rec, end, boots>>

Tick == t < MaxT /\ t' = t + 1 /\ UNCHANGED <<skew, boot, fault, failed, up, s, rec, redis, end, boots>>
Jump == \E k \in Skews \ {skew} : skew' = k /\ UNCHANGED <<t, boot, fault, failed, up, s, rec, redis, end, boots>>
ClockFault == fault' = ~fault /\ UNCHANGED <<t, skew, boot, failed, up, s, rec, redis, end, boots>>
RedisLost == redis /\ redis' = FALSE /\ UNCHANGED <<t, skew, boot, fault, failed, up, s, rec, end, boots>>

Next ==
    \/ \E c \in BOOLEAN, x \in 1 .. MaxExpiry, d \in 0 .. 1 : Start(c, x, d)
    \/ \E x \in 1 .. MaxExpiry, d \in 0 .. 1 : Renew(x, d)
    \/ Sweep \/ Stop \/ Crash \/ Reboot \/ Restore \/ Tick \/ Jump \/ ClockFault \/ RedisLost

Spec == Init /\ [][Next]_vars

-----------------------------------------------------------------------------
(* Properties.                                                             *)

States == {"none", "starting", "active", "stopped"}
Leases == [state : States, camera : BOOLEAN, issuer : 0 .. MaxExpiry, deadline : Nat]

\* Every variable stays in its set; no deadline lies before the boot.
TypeOK ==
    /\ t \in 0 .. MaxT /\ skew \in Skews /\ boot \in [id : Nat, at : 0 .. MaxT]
    /\ fault \in BOOLEAN /\ failed \in BOOLEAN /\ up \in BOOLEAN /\ redis \in BOOLEAN
    /\ s \in Leases /\ rec \in [s : Leases, boot : Nat]
    /\ end \in Nat /\ boots \in 0 .. MaxBoots

\* The server never lets a camera lease run longer, in real time, than its issuer
\* granted it: not through rounding, the delay between two samples, a jump of the
\* time of day, a renewal, a restart of the process, a lost save or a reboot
\* (media_v3_receipt_deadline, media_v3_renew_deadline, mv_restore_deadline).
WithinGrant == up /\ Live(s) /\ s.camera => boot.at + 2 * s.deadline <= end

=============================================================================
