----------------------------- MODULE MCCapture -----------------------------
(***************************************************************************)
(* The capture program for TLC: the safety gate with its writer, the       *)
(* degradation ladder, the capture and encoding pipeline, and the RTP      *)
(* sender. A behaviour is about one of them.                               *)
(***************************************************************************)
EXTENDS CaptureGate, CaptureDegrade

Cmd(type, seq, deadline) == [type |-> type, seq |-> seq, deadline |-> deadline]
\* a start, a renewal, an older one that would shorten the lease, an IDR
\* request, a stop and two commands the checks refuse
AllCommands == {Cmd("start", 1, 2), Cmd("renew", 2, 4), Cmd("renew", 3, 1),
                Cmd("idr", 4, 0), Cmd("stop", 5, 0), Cmd("bad", 0, 0), Cmd("alien", 0, 0)}

Nobody == [passed |-> 0, dropped |-> 0]
Fine == [passed |-> 4, dropped |-> 1]
Lossy == [passed |-> 3, dropped |-> 1]
Samples(n, slow) == [i \in 1..n |-> IF i <= slow THEN 90 ELSE 20]
Win(raw, tr, s) == [raw |-> raw, encoder |-> Nobody, transport |-> tr, samples |-> s]
\* nothing, exactly 20 percent, over it, 19 slow samples (too few), one slow
\* of 20 (under the 95th percentile), two slow of 20 (over it above 11 fps)
AllWindows == {Win(Nobody, Nobody, << >>), Win(Fine, Nobody, << >>), Win(Fine, Lossy, << >>),
               Win(Fine, Nobody, Samples(19, 19)), Win(Fine, Nobody, Samples(20, 1)),
               Win(Fine, Nobody, Samples(20, 2))}
Screens == {<<0, 0>>, <<1921, 1081>>, <<800, 600>>, <<3000, 2000>>, <<1080, 1920>>}
SomeInis == {[width |-> 0, target |-> 0, peak |-> 0], [width |-> 1366, target |-> 1600, peak |-> 1650],
             [width |-> 1280, target |-> 1000, peak |-> 1200]}

\* NAL lengths around the limits of a payload of 8: an aggregate of one (6), of
\* two (1), one that fits alone only as a single NAL unit (8), two and three
\* fragments; one to three units, an empty one only before the last
Lengths == {1, 6, 8, 9, 14}
SmallUnits ==
    {<<a>> : a \in Lengths} \cup {<<a, b>> : a \in Lengths \cup {0}, b \in Lengths}
        \cup {<<a, b, c>> : a \in {1, 6, 9}, b \in {0, 1, 8}, c \in {1, 8, 9}}

VARIABLE scene   \* the component this behaviour is about

\* CapturePipeline
VARIABLES pipe_now, pipe_desk, pipe_pc, pipe_ps, cap, enc, dev, hung, fr, au, rx,
          faults
pipelineVars == <<pipe_now, pipe_desk, pipe_pc, pipe_ps, cap, enc, dev, hung, fr,
                  au, rx, faults>>

\* RtpSender
VARIABLES rtp_now, s, wire, last
rtpVars == <<rtp_now, s, wire, last>>

Pipeline == INSTANCE CapturePipeline WITH
    Coalesce <- 2, Cadence <- 3, Hang <- 2, Offsets <- <<1, 3>>, BootWindow <- 4,
    IdleMs <- 1, Overflow <- FALSE, Timely <- FALSE, MaxTime <- 4, MaxFaults <- 2,
    now <- pipe_now, desk <- pipe_desk, pc <- pipe_pc, ps <- pipe_ps
Rtp == INSTANCE RtpSender WITH
    MaxPayload <- 8, SeqSpace <- 16, SrInterval <- 1, PliMin <- 1,
    AccessUnits <- SmallUnits, MaxTime <- 1, MaxAus <- 2, now <- rtp_now

ASSUME Pipeline!PipelineAssumption
ASSUME Rtp!RtpAssumption

CaptureInit ==
    /\ scene \in {"gate", "overload", "pipeline", "rtp"}
    /\ Init
    /\ LadderInit
    /\ Pipeline!Init
    /\ Rtp!Init
    /\ scene # "rtp" => s.seq = 0

GateStep == scene = "gate" /\ Next /\ UNCHANGED <<scene, ladderVars, pipelineVars, rtpVars>>
OverloadStep == scene = "overload" /\ LadderNext /\ UNCHANGED <<scene, vars, pipelineVars, rtpVars>>
PipelineStep == scene = "pipeline" /\ Pipeline!Next /\ UNCHANGED <<scene, vars, ladderVars, rtpVars>>
RtpStep == scene = "rtp" /\ Rtp!Next /\ UNCHANGED <<scene, vars, ladderVars, pipelineVars>>
CaptureNext == GateStep \/ OverloadStep \/ PipelineStep \/ RtpStep
CaptureSpec == CaptureInit /\ [][CaptureNext]_<<scene, vars, ladderVars, pipelineVars, rtpVars>>

\* A receiver that lost the stream decodes again by the cadence (CapturePipeline)
HealsByCadence == Pipeline!HealsByCadence
\* What was sent for an access unit is that access unit (RtpSender)
Reassembles == Rtp!Reassembles
=============================================================================
