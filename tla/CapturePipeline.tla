---------------------------- MODULE CapturePipeline ----------------------------
(***************************************************************************)
(* The frame path of l4capture: one slot of run (main.c) takes a frame     *)
(* from Desktop Duplication or GDI, converts it, encodes it with a         *)
(* hardware transform or OpenH264 and sends the access unit.  The backends *)
(* replace each other on failure: dxgi_capture.c and gdi_capture.c,        *)
(* mf_encoder.c and openh264_encoder.c, the refresh capture of             *)
(* idle_refresh.h, and the sender of rtp_sender.c.                         *)
(*                                                                         *)
(* Pixels are left out.  An access unit is its frame type and the time its *)
(* picture was given to the encoder; the receiver (rx) is whether it can   *)
(* decode what comes next.  Whether l4c_safety_take_idr grants a request   *)
(* is an input here: CaptureGate models it.                                *)
(***************************************************************************)
EXTENDS Integers, Sequences

CONSTANTS
    Coalesce,    \* ticks of the 500 ms within which IDR requests are merged
    Cadence,     \* ticks of the 2000 ms IDR watchdog
    Hang,        \* ticks after which a silent transform is given up (500 ms)
    Offsets,     \* offsets_ms of the bootstrap refreshes, in ticks
    BootWindow,  \* ticks of the 10 s in which they may happen
    IdleMs,      \* idle_refresh_interval_ms in ticks, 0 = off (the default)
    Overflow,    \* an OpenH264 access unit may exceed L4C_MAX_AU_SIZE
    Timely,      \* the loop goes round at least once in every tick
    MaxTime,     \* bound: ticks of a behaviour
    MaxFaults    \* bound: device, allocation and socket failures

\* What the constants satisfy
PipelineAssumption ==
    /\ {Coalesce, Cadence, Hang} \subseteq Nat \ {0}
    /\ {BootWindow, IdleMs, MaxTime, MaxFaults} \subseteq Nat
    /\ {Overflow, Timely} \subseteq BOOLEAN
    /\ Offsets \in Seq(Nat)

VARIABLES
    now,     \* l4c_now_monotonic_ms
    desk,    \* the input desktop can be opened
    pc,      \* the point the main loop has reached
    ps,      \* l4c_pipeline_state_t: backends in force, requests, refresh state
    cap,     \* ps.capture
    enc,     \* ps.encoder
    dev,     \* pictures the hardware transform has accepted and not returned
    hung,    \* the hardware transform has stopped answering
    fr,      \* the frame of the slot: its owner, bootstrap, force_idr
    au,      \* the access unit on its way to the sender
    rx,      \* what the receiver can decode, and the history of the stream
    faults

vars == <<now, desk, pc, ps, cap, enc, dev, hung, fr, au, rx, faults>>

None == -1
Spend == faults < MaxFaults /\ faults' = faults + 1
Free  == UNCHANGED faults

-----------------------------------------------------------------------------
(* Backends.                                                               *)

NoCap == [kind |-> "none", ready |-> FALSE, held |-> FALSE, tries |-> 0]
Capture(kind, ok) == [NoCap EXCEPT !.kind = kind, !.ready = ok]

NoEnc == [kind |-> "none", ready |-> FALSE, first |-> TRUE, lastIdr |-> 0, lastForce |-> None,
          told |-> FALSE, pend |-> FALSE, pending |-> FALSE, since |-> 0, wait |-> None]

\* oh264_init, mf_init: the first picture of a new encoder is an IDR
Encoder(kind, ok) == [NoEnc EXCEPT !.kind = kind, !.ready = ok, !.told = TRUE]

NoFrame == [owner |-> "none", boot |-> FALSE, force |-> FALSE]
NoAu == [idr |-> FALSE, at |-> 0, first |-> FALSE]

\* gdi_capture.c release_frame does nothing; dxgi_release unmaps and releases
Released(c) == IF fr.owner = "cap" THEN [c EXCEPT !.held = FALSE] ELSE c

\* the end of a slot: the frame, if any, goes back to its owner
EndSlot ==
    /\ pc' = "top" /\ cap' = Released(cap) /\ fr' = NoFrame /\ au' = NoAu

-----------------------------------------------------------------------------
(* The start of the pipeline.                                              *)

Init ==
    /\ now = 0 /\ desk = TRUE /\ pc = "start" /\ faults = 0
    /\ ps = [active |-> "none", encActive |-> "none", refresh |-> "none", force |-> TRUE,
             boots |-> 0, lastDxgi |-> None, lastRefresh |-> None, turn |-> FALSE, gen |-> 1]
    /\ cap = NoCap /\ enc = NoEnc /\ dev = <<>> /\ hung = FALSE
    /\ fr = NoFrame /\ au = NoAu
    /\ rx = [state |-> "none", at |-> 0, idrAt |-> None, mute |-> None, still |-> None]

\* pipeline_start, capture: Desktop Duplication if it can be had, otherwise GDI
StartCapture(c) == ps' = [ps EXCEPT !.active = c] /\ cap' = Capture(c, TRUE)

\* pipeline_start: a backend that cannot be had at all ends the process
Start ==
    /\ pc = "start"
    /\ \/ \E c \in {"dxgi", "gdi"} : StartCapture(c)
          /\ pc' = "encoder"
       \/ Spend /\ pc' = "stopped" /\ UNCHANGED <<ps, cap>>
    /\ (pc' = "encoder") => Free
    /\ UNCHANGED <<now, desk, enc, dev, hung, fr, au, rx>>

\* pipeline_start, encoder: l4c_mf_encoder_is_supported and init, else OpenH264
StartEncoder ==
    /\ pc = "encoder"
    /\ \/ \E k \in {"mf", "oh"} :
              /\ enc' = Encoder(k, TRUE) /\ ps' = [ps EXCEPT !.encActive = k]
              /\ pc' = "top" /\ Free
       \/ Spend /\ pc' = "stopped" /\ UNCHANGED <<ps, enc>>
    /\ UNCHANGED <<now, desk, cap, dev, hung, fr, au, rx>>

-----------------------------------------------------------------------------
(* Capture.                                                                *)

\* l4c_bootstrap_refresh_due, since the start of the stream at 0
BootstrapDue ==
    /\ ps.boots < Len(Offsets) /\ now <= BootWindow
    /\ now >= Offsets[ps.boots + 1]

\* l4c_idle_refresh_due
IdleDue ==
    /\ IdleMs # 0 /\ ps.lastDxgi # None /\ now - ps.lastDxgi >= IdleMs
    /\ ps.lastRefresh = None \/ now - ps.lastRefresh >= IdleMs

\* last_dxgi_frame_ms: read by the idle refresh alone
Seen == IF IdleMs = 0 THEN None ELSE now

\* AcquireNextFrame timed out: the screen has not changed
Timeout ==
    /\ pc' = IF BootstrapDue \/ IdleDue THEN "refresh" ELSE "top"
    /\ Free /\ UNCHANGED <<cap, fr>>

\* a frame of ps.capture
Frame(c) ==
    /\ cap' = [c EXCEPT !.held = c.kind = "dxgi", !.tries = 0]
    /\ fr' = [NoFrame EXCEPT !.owner = "cap"] /\ pc' = "frame"

\* dxgi_acquire: a frame, a timeout, an error after the acquire (released
\* there), a lost access (the desktop is looked at first), another failure
AcquireDxgi ==
    /\ pc = "top" /\ cap.kind = "dxgi"
    /\ \/ Frame(cap) /\ Free /\ ps' = [ps EXCEPT !.lastDxgi = Seen, !.turn = Timely]
       \/ Timeout /\ ps' = [ps EXCEPT !.turn = Timely]
       \/ /\ Spend /\ UNCHANGED <<cap, fr>> /\ ps' = [ps EXCEPT !.turn = Timely]
          /\ \/ pc' = "top"
             \/ pc' = IF desk THEN "reinit" ELSE "stopped"
             \/ pc' = "fallback"
    /\ UNCHANGED <<now, desk, enc, dev, hung, au, rx>>

\* the reinitialisation of dxgi_acquire: three attempts after plain Sleeps,
\* the desktop looked at before each
Reinit ==
    /\ pc = "reinit" /\ Free
    /\ \E t \in {now, now + 1} : t <= MaxTime /\ now' = t
    /\ \/ ~desk /\ pc' = "stopped" /\ UNCHANGED cap
       \/ desk /\ pc' = "reacquire" /\ UNCHANGED cap
       \/ desk /\ cap' = [cap EXCEPT !.tries = @ + 1]
          /\ pc' = IF cap.tries = 2 THEN "fallback" ELSE "reinit"
    /\ UNCHANGED <<desk, ps, enc, dev, hung, fr, au, rx>>

\* dxgi_acquire after a successful reinitialisation: no second one is tried
Reacquire ==
    /\ pc = "reacquire"
    /\ \/ Frame(cap) /\ Free /\ ps' = [ps EXCEPT !.lastDxgi = Seen]
       \/ Timeout /\ UNCHANGED ps
       \/ Spend /\ pc' = "fallback" /\ UNCHANGED <<cap, fr, ps>>
    /\ UNCHANGED <<now, desk, enc, dev, hung, au, rx>>

\* gdi_acquire: refuses without its device contexts or the input desktop
AcquireGdi ==
    /\ pc = "top" /\ cap.kind = "gdi"
    /\ ps' = [ps EXCEPT !.turn = Timely]
    /\ \/ ~cap.ready /\ pc' = "top" /\ Free /\ UNCHANGED <<cap, fr>>
       \/ cap.ready /\ ~desk /\ pc' = "stopped" /\ Free /\ UNCHANGED <<cap, fr>>
       \/ cap.ready /\ desk /\ Frame(cap) /\ Free
       \/ cap.ready /\ desk /\ Spend /\ pc' = "top" /\ UNCHANGED <<cap, fr>>
    /\ UNCHANGED <<now, desk, enc, dev, hung, au, rx>>

\* the call through ps.capture when a failed fallback has left it NULL
AcquireNull ==
    /\ pc = "top" /\ cap.kind = "none" /\ pc' = "crashed"
    /\ UNCHANGED <<now, desk, ps, cap, enc, dev, hung, fr, au, rx, faults>>

\* run: an idle screen is read through a second, GDI, capture
Refresh ==
    /\ pc = "refresh"
    /\ LET boot == BootstrapDue
           p    == [ps EXCEPT !.boots = @ + (IF boot THEN 1 ELSE 0), !.lastRefresh = Seen]
       IN  \/ /\ desk /\ Free /\ pc' = "frame"
              /\ ps' = [p EXCEPT !.refresh = "gdi"]
              /\ fr' = [NoFrame EXCEPT !.owner = "refresh", !.boot = boot]
           \/ ~desk /\ Free /\ pc' = "stopped" /\ ps' = [p EXCEPT !.refresh = "gdi"] /\ UNCHANGED fr
           \/ Spend /\ pc' = "top" /\ UNCHANGED fr
              /\ \/ ps.refresh = "none" /\ ps' = p          \* create or init failed
                 \/ ps' = [p EXCEPT !.refresh = "gdi"]      \* BitBlt failed
    /\ UNCHANGED <<now, desk, cap, enc, dev, hung, au, rx>>

\* run: what the fallback to GDI leaves in ps
FallbackState(p, ok) == [p EXCEPT !.refresh = "none", !.active = IF ok THEN "gdi" ELSE @]

\* run: Desktop Duplication is destroyed before GDI is tried; a GDI capture
\* that cannot be created or initialised leaves the pipeline without one
CaptureFallback ==
    /\ pc = "fallback"
    /\ \/ /\ Spend /\ pc' = "top" /\ ps' = FallbackState(ps, FALSE) /\ UNCHANGED fr
          /\ cap' \in {NoCap, Capture("gdi", FALSE)}
       \/ /\ Free /\ ps' = FallbackState(ps, TRUE)
          /\ IF desk THEN Frame(Capture("gdi", TRUE))
             ELSE pc' = "top" /\ cap' = Capture("gdi", TRUE) /\ UNCHANGED fr
       \/ Spend /\ ps' = FallbackState(ps, TRUE) /\ cap' = Capture("gdi", TRUE)
          /\ pc' = "top" /\ UNCHANGED fr
    /\ UNCHANGED <<now, desk, enc, dev, hung, au, rx>>

-----------------------------------------------------------------------------
(* Conversion and encoding.                                                *)

\* run: a frame that cannot be scaled or converted goes back to its owner
ConvertFailed == EndSlot

\* run: scale, rebase the clock, convert, collect the requests for an IDR
Convert ==
    /\ pc = "frame"
    /\ \/ Spend /\ ConvertFailed /\ UNCHANGED ps
       \/ /\ Free
          /\ \E asked \in BOOLEAN :
                 fr' = [fr EXCEPT !.force = ps.force \/ fr.boot \/ asked]
          /\ ps' = [ps EXCEPT !.force = FALSE]
          /\ pc' = IF enc.kind = "none" THEN "crashed" ELSE "encode"
          /\ UNCHANGED <<cap, au>>
    /\ UNCHANGED <<now, desk, enc, dev, hung, rx>>

\* mf_force_idr: a request soon after an IDR is ignored
MfForce(e) == ~(~e.first /\ now - e.lastIdr < Coalesce)

\* oh264_force_idr: a request soon after a request is ignored
OhForce(e) == e.lastForce = None \/ now - e.lastForce >= Coalesce

\* Mutant: the watchdog counts from the last access unit of any kind
Emitted_AnyAu(e, idr) == [e EXCEPT !.lastIdr = now, !.first = FALSE]

\* the end of mf_encode and oh264_encode: the watchdog counts from an IDR
Emitted(e, idr) ==
    [e EXCEPT !.lastIdr = IF idr \/ (e.kind = "oh" /\ e.first) THEN now ELSE @,
              !.first = @ /\ e.kind = "mf" /\ ~idr]

NoOutput == EndSlot /\ UNCHANGED dev

\* history: the transform has been asked and did not answer
Silent == rx' = [rx EXCEPT !.mute = IF @ = None THEN now ELSE @, !.still = now]
Answers == rx' = [rx EXCEPT !.mute = None, !.still = None]

\* mf_encode, first half: the requests reach the transform, then the picture,
\* unless an earlier picture is still inside (this one is discarded)
MfAsk == [enc EXCEPT !.told = @ \/ (fr.force /\ MfForce(enc))
                                \/ (~enc.first /\ now - enc.lastIdr >= Cadence)]

\* mf_encode: the first unanswered wait for NeedInput starts the 500 ms
WaitStart(e) == IF e.wait = None THEN now ELSE e.wait

MfInput ==
    /\ pc = "encode" /\ enc.kind = "mf"
    /\ LET e == MfAsk
       IN  \/ /\ e.pending /\ enc' = e /\ pc' = "output"
              /\ Free /\ UNCHANGED <<dev, cap, fr, au, rx>>
           \/ /\ ~e.pending /\ hung /\ Free
              /\ IF now - WaitStart(e) >= Hang
                 THEN pc' = "lost" /\ enc' = e /\ UNCHANGED <<dev, cap, fr, au, rx>>
                 ELSE enc' = [e EXCEPT !.wait = WaitStart(e)] /\ NoOutput /\ Silent
           \/ /\ ~e.pending /\ ~hung /\ Len(dev) < 2 /\ Free
              /\ \E own \in BOOLEAN :
                     dev' = Append(dev, [idr |-> e.told \/ own, at |-> now])
              /\ enc' = [e EXCEPT !.told = FALSE, !.pending = TRUE, !.since = now, !.wait = None]
              /\ pc' = "output" /\ Answers /\ UNCHANGED <<cap, fr, au>>
           \/ /\ ~e.pending /\ ~hung /\ Spend /\ enc' = e
              /\ \/ NoOutput /\ UNCHANGED rx                      \* MF_E_NOTACCEPTING, out of memory
                 \/ pc' = "lost" /\ UNCHANGED <<dev, cap, fr, au, rx>>
    /\ UNCHANGED <<now, desk, ps, hung>>

\* mf_encode: an access unit with an IDR slice, and the first one in any case
IsIdr(h) == h.idr \/ enc.first

\* mf_encode, second half: wait for HaveOutput, ProcessOutput
MfOutput ==
    /\ pc = "output"
    /\ \/ /\ hung /\ Free /\ UNCHANGED enc
          /\ IF now - enc.since >= Hang
             THEN pc' = "lost" /\ UNCHANGED <<dev, cap, fr, au, rx>>
             ELSE NoOutput /\ Silent
       \/ /\ ~hung /\ Len(dev) < 2 /\ Free             \* NEED_MORE_INPUT
          /\ enc' = [enc EXCEPT !.pending = FALSE] /\ NoOutput /\ Answers
       \/ /\ ~hung /\ Spend /\ pc' = "lost" /\ UNCHANGED <<dev, enc, cap, fr, au, rx>>
       \/ /\ ~hung /\ Free
          /\ LET h   == Head(dev)
                 idr == IsIdr(h)
             IN  /\ au' = [idr |-> idr, at |-> h.at, first |-> enc.first]
                 /\ enc' = [Emitted(enc, idr) EXCEPT !.pending = FALSE]
          /\ dev' = Tail(dev) /\ pc' = "send" /\ Answers /\ UNCHANGED <<cap, fr>>
    /\ UNCHANGED <<now, desk, ps, hung>>

\* the receiver has lost an access unit the later ones refer to
Broken == [rx EXCEPT !.state = "broken", !.at = now]

\* oh264_encode: an IDR on request or by the watchdog; a skipped frame is no
\* error, an access unit above the limit is dropped
OhEncode ==
    /\ pc = "encode" /\ enc.kind = "oh"
    /\ LET ask == ~enc.first /\ (now - enc.lastIdr >= Cadence \/ enc.pend \/ fr.force)
           e   == [enc EXCEPT !.told = @ \/ ask, !.pend = @ /\ ~ask]
       IN  \/ ~enc.ready /\ Free /\ EndSlot /\ UNCHANGED <<enc, rx>>
           \/ enc.ready /\ Free /\ enc' = e /\ EndSlot /\ UNCHANGED rx       \* skip
           \/ enc.ready /\ Spend /\ enc' = e /\ EndSlot /\ UNCHANGED rx      \* EncodeFrame failed
           \/ /\ enc.ready /\ Overflow /\ Spend
              /\ enc' = [e EXCEPT !.told = FALSE] /\ EndSlot /\ rx' = Broken
           \/ /\ enc.ready /\ Free
              /\ \E own \in BOOLEAN :
                     LET idr == e.told \/ own
                     IN  /\ au' = [idr |-> idr, at |-> now, first |-> e.first]
                         /\ enc' = [Emitted(e, idr) EXCEPT !.told = FALSE]
              /\ pc' = "send" /\ UNCHANGED <<cap, fr, rx>>
    /\ UNCHANGED <<now, desk, ps, dev, hung>>

\* run: the transform is destroyed before OpenH264 is tried, and the frame is
\* converted and encoded again
EncoderFallback ==
    /\ pc = "lost" /\ dev' = <<>> /\ hung' = FALSE
    /\ rx' = [rx EXCEPT !.mute = None, !.still = None]
    /\ \/ Spend /\ enc' \in {NoEnc, Encoder("oh", FALSE)} /\ EndSlot /\ UNCHANGED ps
       \/ Spend /\ enc' = Encoder("oh", TRUE) /\ ps' = [ps EXCEPT !.encActive = "oh"] /\ EndSlot
       \/ /\ Free /\ enc' = Encoder("oh", TRUE) /\ ps' = [ps EXCEPT !.encActive = "oh"]
          /\ fr' = [fr EXCEPT !.force = TRUE] /\ pc' = "encode" /\ UNCHANGED <<cap, au>>
    /\ UNCHANGED <<now, desk>>

-----------------------------------------------------------------------------
(* Sending.                                                                *)

\* rtp_packet_send_cb: a packet that cannot be sent drops the rest of the
\* access unit and asks the encoder for an IDR
Dropped(e) ==
    CASE e.kind = "mf" -> [e EXCEPT !.told = @ \/ MfForce(e)]
      [] e.kind = "oh" /\ OhForce(e) -> [e EXCEPT !.pend = TRUE, !.lastForce = now]
      [] OTHER -> e

\* history: an IDR heals the receiver (its time is kept only where it is used)
Sent == IF au.idr THEN [rx EXCEPT !.state = "ok", !.at = 0, !.idrAt = IF Timely THEN now ELSE @]
        ELSE rx

\* run and l4c_rtp_send_au: the desktop is looked at again before the send
Send ==
    /\ pc = "send"
    /\ \/ desk /\ Free /\ rx' = Sent /\ UNCHANGED enc
       \/ desk /\ Spend /\ rx' = Broken /\ enc' = Dropped(enc)
       \/ ~desk /\ Free /\ rx' = Broken /\ UNCHANGED enc
    /\ EndSlot
    /\ UNCHANGED <<now, desk, ps, dev, hung>>

\* pipeline_reconfigure_raster, between two frames: a new encoder of the same
\* kind, OpenH264 if the transform refuses, a stop if that fails too
Reconfigure ==
    /\ pc = "top" /\ ps.gen = 1 /\ dev' = <<>> /\ hung' = FALSE
    /\ rx' = [rx EXCEPT !.mute = None, !.still = None]
    /\ \/ /\ Free /\ enc' = Encoder(ps.encActive, TRUE) /\ UNCHANGED pc
          /\ ps' = [ps EXCEPT !.force = TRUE, !.gen = 2]
       \/ /\ Spend /\ ps.encActive = "mf" /\ enc' = Encoder("oh", TRUE) /\ UNCHANGED pc
          /\ ps' = [ps EXCEPT !.force = TRUE, !.gen = 2, !.encActive = "oh"]
       \/ Spend /\ pc' = "stopped" /\ enc' = NoEnc /\ UNCHANGED ps
    /\ UNCHANGED <<now, desk, cap, fr, au>>

-----------------------------------------------------------------------------
(* The surroundings.                                                       *)

\* l4c_safety_check at the top of the loop
SessionLost ==
    /\ pc = "top" /\ ~desk /\ pc' = "stopped"
    /\ UNCHANGED <<now, desk, ps, cap, enc, dev, hung, fr, au, rx, faults>>

DesktopLost ==
    /\ desk /\ Spend /\ desk' = FALSE
    /\ UNCHANGED <<now, pc, ps, cap, enc, dev, hung, fr, au, rx>>

DriverHangs ==
    /\ enc.kind = "mf" /\ ~hung /\ Spend /\ hung' = TRUE
    /\ UNCHANGED <<now, desk, pc, ps, cap, enc, dev, fr, au, rx>>

Tick ==
    /\ pc = "top" /\ now < MaxTime /\ (Timely => ps.turn)
    /\ now' = now + 1 /\ ps' = [ps EXCEPT !.turn = FALSE]
    /\ UNCHANGED <<desk, pc, cap, enc, dev, hung, fr, au, rx, faults>>

Next ==
    \/ Start \/ StartEncoder
    \/ AcquireDxgi \/ Reinit \/ Reacquire \/ AcquireGdi \/ AcquireNull \/ Refresh \/ CaptureFallback
    \/ Convert \/ MfInput \/ MfOutput \/ OhEncode \/ EncoderFallback
    \/ Send \/ Reconfigure \/ SessionLost \/ DesktopLost \/ DriverHangs \/ Tick

Spec == Init /\ [][Next]_vars

-----------------------------------------------------------------------------
(* Properties.                                                             *)

PCs == {"start", "encoder", "top", "reinit", "reacquire", "refresh", "fallback", "frame",
        "encode", "output", "lost", "send", "stopped", "crashed"}

\* The types; and a refresh capture exists only beside Desktop Duplication:
\* the fallback to GDI destroys it.
TypeOK ==
    /\ now \in 0..MaxTime /\ faults \in 0..MaxFaults /\ {desk, hung} \subseteq BOOLEAN
    /\ pc \in PCs /\ Len(dev) <= 2
    /\ cap.kind \in {"none", "dxgi", "gdi"} /\ enc.kind \in {"none", "mf", "oh"}
    /\ rx.state \in {"none", "ok", "broken"}
    /\ ps.refresh = "gdi" => ps.active = "dxgi"

\* A receiver that lost an access unit is healed at the latest by the 2 s
\* watchdog: a dependent picture is never sent to it that was given to the
\* encoder a full cadence after the loss, whichever requests were merged or
\* ignored and whichever encoder replaced another in between.
HealsByCadence ==
    (pc = "send" /\ ~au.idr /\ rx.state = "broken") => au.at < rx.at + Cadence

=============================================================================
