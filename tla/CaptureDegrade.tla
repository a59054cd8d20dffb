---------------------------- MODULE CaptureDegrade ----------------------------
(***************************************************************************)
(* The overload ladder of l4capture: the profile and raster that a START   *)
(* resolves to (video_profile.c, quality_raster.h, pipeline_start), the    *)
(* detector windows the main loop closes (main.c), the controller that     *)
(* turns bad windows into one step of the ladder (degrade_controller.c)    *)
(* and the application of that step to the pipeline                        *)
(* (apply_degrade_action, pipeline_reconfigure_raster).                    *)
(*                                                                         *)
(* Time is counted in ticks, WindowMs of them to a detector window.  The   *)
(* frames of a window are abstracted to the aggregate the window is closed *)
(* with, any member of Windows: the accumulators are zeroed at every       *)
(* close, so a window's aggregate depends on no earlier one.               *)
(***************************************************************************)
EXTENDS Integers, Sequences, FiniteSets

CONSTANTS
    WindowMs,       \* L4C_DEGRADE_WINDOW_MS
    HoldOffMs,      \* L4C_DEGRADE_HOLD_OFF_MS
    FloorBad,       \* L4C_DEGRADE_FLOOR_BAD_WINDOWS
    P95MinSamples,  \* L4C_DEGRADE_P95_MIN_SAMPLES
    Windows,        \* the aggregates a window may be closed with
    Requests,       \* wire profile ids of CMD_START
    Sources,        \* <<width, height>> of the source rectangle
    Inis,           \* [width, target, peak]: idle_refresh.ini, 0 = not set
    MaxLate,        \* a loop iteration comes at most so many ticks late
    MaxLadderTime         \* bound: ticks of one behaviour

\* What the constants satisfy
ASSUME DegradeAssumption ==
    /\ WindowMs \in Nat \ {0} /\ HoldOffMs \in Nat /\ FloorBad \in Nat \ {0}
    /\ MaxLate \in Nat /\ MaxLadderTime \in Nat

VARIABLES
    ladderNow,     \* the main loop's clock
    pstate,      \* l4c_pipeline_state_t: the configuration in force and its window
    ctl,     \* l4c_degrade_controller_t
    up,      \* "idle", "active" or "stopped" (the safety gate's stop event)
    past    \* what the properties remember of the past

ladderVars == <<ladderNow, pstate, ctl, up, past>>

-----------------------------------------------------------------------------
(* Profiles and rasters.                                                   *)

\* k_profiles: 1 = 480p, 2 = 540p, 3 = 720p
Profiles == <<
    [w |->  854, h |-> 480, min |->  650, target |-> 1300, max |-> 1650],
    [w |->  960, h |-> 540, min |->  750, target |-> 1100, max |-> 1400],
    [w |-> 1280, h |-> 720, min |-> 1200, target |-> 2100, max |-> 2600] >>

Low == 1
Default == 3

Lower(a, b) == IF a < b THEN a ELSE b
Even(n) == n - (n % 2)

\* l4c_profile_parse_request: the 540p wire id starts the default profile
ParseRequest(wire) == IF wire = Low THEN Low ELSE Default

\* l4c_profile_resolve
Resolve(request, win7, mft, oh264) ==
    LET basic(refused) == [id |-> 1, fps |-> 15, refused |-> refused, win7 |-> win7]
    IN  CASE request = Low \/ win7 -> basic(FALSE)
          [] ~(request = Low \/ win7) /\ mft ->
                [id |-> 3, fps |-> 25, refused |-> FALSE, win7 |-> FALSE]
          [] ~(request = Low \/ win7) /\ ~mft /\ oh264 ->
                [id |-> 3, fps |-> 15, refused |-> FALSE, win7 |-> FALSE]
          [] OTHER -> basic(TRUE)

\* l4c_quality_fit_raster: the whole source in an even raster, never larger
FitRaster(r, w, h) ==
    LET fit == IF r[1] * h > r[2] * w THEN <<w, (r[2] * w) \div r[1]>>
                                      ELSE <<(r[1] * h) \div r[2], h>>
        s   == IF r[1] > w \/ r[2] > h THEN fit ELSE r
    IN  <<Even(s[1]), Even(s[2])>>

\* l4c_profile_rate_for_raster: the bitrates a raster of this size deserves
RateForRaster(request, r, target, max) ==
    LET px  == r[1] * r[2]
        cap == CASE px <= 800 * 600 -> IF request = Low THEN <<900, 1200>> ELSE <<1100, 1400>>
                 [] px > 800 * 600 /\ request = Default /\ px <= 1280 * 720 -> <<1800, 2300>>
                 [] OTHER -> <<target, max>>
    IN  <<Lower(target, cap[1]), Lower(max, cap[2])>>

\* pipeline_start: the largest raster the request may be encoded in
StartBounds(request, res, ini) ==
    LET p == Profiles[res.id]
        b == IF res.win7 \/ res.refused THEN <<p.w, p.h>>
             ELSE IF request = Low THEN <<1280, 960>> ELSE <<1920, 1080>>
    IN  <<IF ini.width # 0 THEN Lower(ini.width, b[1]) ELSE b[1], b[2]>>

\* pipeline_start: the bitrates, with what idle_refresh.ini may raise for Low
StartRates(request, raster, p, ini) ==
    LET r1 == RateForRaster(request, raster, p.target, p.max)
        t2 == IF ini.target > r1[1] /\ ini.target <= 1300 THEN ini.target ELSE r1[1]
        m2 == IF ini.peak > r1[2] /\ ini.peak <= 1650 THEN ini.peak ELSE r1[2]
        r3 == RateForRaster(request, raster, t2, m2)
    IN  IF request = Low THEN <<r3[1], IF r3[2] < r3[1] THEN r3[1] ELSE r3[2]>> ELSE r1

\* The source rectangle pipeline_start keeps: even, at least 320 x 240
SourceOf(s) == IF Even(s[1]) >= 320 /\ Even(s[2]) >= 240 THEN <<Even(s[1]), Even(s[2])>> ELSE <<0, 0>>

-----------------------------------------------------------------------------
(* Windows.                                                                *)

\* l4c_degrade_class_over_threshold: strictly more than 20 percent dropped
OverThreshold(c) == c.dropped * 5 > c.passed + c.dropped

\* l4c_degrade_p95_from_samples: the sample of rank ceil(0.95 n)
P95(s) ==
    LET rank == (Len(s) * 95 + 99) \div 100
        upto(v) == Cardinality({i \in DOMAIN s : s[i] <= v})
    IN  CHOOSE v \in {s[i] : i \in DOMAIN s} :
            /\ upto(v) >= rank
            /\ \A u \in {s[i] : i \in DOMAIN s} : upto(u) >= rank => v <= u

\* window_is_nodata
NoData(w) == \A c \in {"raw", "encoder", "transport"} :
                w[c].passed = 0 /\ w[c].dropped = 0 /\ w.samples = << >>

\* window_is_bad
Bad(w, fps) ==
    \/ \E c \in {"raw", "encoder", "transport"} : OverThreshold(w[c])
    \/ Len(w.samples) >= P95MinSamples /\ P95(w.samples) * fps > 1000

-----------------------------------------------------------------------------
(* The controller.                                                         *)

\* reset_window_history
ResetHistory(c, t) == [c EXCEPT !.start = t, !.bad = 0]

\* l4c_degrade_init (it refuses the 540p profile, which Resolve never yields)
DegradeInit(id, fps, t) ==
    [id |-> id, fps |-> fps, d0 |-> FALSE, d1 |-> fps <= 10, d2 |-> id # 3, d3 |-> id # 3,
     floor |-> id = 1, floorBad |-> 0, start |-> t, bad |-> 0, hold |-> 0]

\* l4c_degrade_notify_applied
NotifyApplied(c, id, fps, t) ==
    LET f == Lower(fps, c.fps)
    IN  ResetHistory([c EXCEPT !.id = id, !.fps = f, !.d1 = @ \/ f <= 10,
                               !.floorBad = IF id = 1 /\ ~c.floor THEN 0 ELSE @,
                               !.floor = @ \/ id = 1], t)

\* choose_ladder_step; a step that cannot apply is marked done on the way
LadderStep(c) ==
    CASE ~c.d0 -> "d0"
      [] c.d0 /\ ~c.d1 -> "d1"
      [] c.d0 /\ c.d1 /\ ~c.d2 /\ c.id = 3 -> "d2"
      [] c.d0 /\ c.d1 /\ (c.d2 \/ c.id # 3) /\ ~c.d3 /\ c.id = 2 -> "d3"
      [] OTHER -> "none"

\* mark_action_taken
MarkTaken(c, act, t) ==
    ResetHistory([c EXCEPT !.d0 = @ \/ act = "d0", !.d1 = @ \/ act = "d1",
                           !.d2 = @ \/ act = "d2", !.d3 = @ \/ act = "d3",
                           !.floorBad = IF act \in {"d0", "d3"} THEN 0 ELSE @,
                           !.floor = @ \/ act = "d3" \/ (act = "d0" /\ c.id = 1),
                           !.hold = t + HoldOffMs], t)

\* l4c_degrade_on_window: the window joins or ends the streaks of bad ones
Count(c, w) ==
    IF Bad(w, c.fps)
    THEN [c EXCEPT !.bad = @ + 1, !.floorBad = IF c.floor THEN @ + 1 ELSE @]
    ELSE [c EXCEPT !.bad = 0, !.floorBad = 0]

\* Mutant: one bad window is enough for a step
OnWindow_One(c, end, w) ==
    LET n    == Count(c, w)
        step == LadderStep(n)
    IN  CASE end - c.start # WindowMs -> [act |-> "none", ctl |-> c]
          [] end - c.start = WindowMs /\ NoData(w) ->
                [act |-> "none", ctl |-> ResetHistory([c EXCEPT !.floorBad = 0], end)]
          [] end - c.start = WindowMs /\ ~NoData(w) ->
                IF n.floor /\ (n.d0 \/ n.d3) /\ n.floorBad >= FloorBad
                THEN [act |-> "stop", ctl |-> ResetHistory(n, end)]
                ELSE IF n.bad >= 1 /\ end >= n.hold /\ step # "none"
                THEN [act |-> step, ctl |-> MarkTaken(n, step, end)]
                ELSE [act |-> "none", ctl |-> [n EXCEPT !.start = end]]

\* l4c_degrade_on_window: the action and the controller after it.  A window
\* that is not exactly the controller's next one is rejected.
OnWindow(c, end, w) ==
    LET n    == Count(c, w)
        step == LadderStep(n)
    IN  CASE end - c.start # WindowMs -> [act |-> "none", ctl |-> c]
          [] end - c.start = WindowMs /\ NoData(w) ->
                [act |-> "none", ctl |-> ResetHistory([c EXCEPT !.floorBad = 0], end)]
          [] end - c.start = WindowMs /\ ~NoData(w) ->
                IF n.floor /\ (n.d0 \/ n.d3) /\ n.floorBad >= FloorBad
                THEN [act |-> "stop", ctl |-> ResetHistory(n, end)]
                ELSE IF n.bad >= 2 /\ end >= n.hold /\ step # "none"
                THEN [act |-> step, ctl |-> MarkTaken(n, step, end)]
                ELSE [act |-> "none", ctl |-> [n EXCEPT !.start = end]]

-----------------------------------------------------------------------------
(* The pipeline.                                                           *)

\* pipeline_reconfigure_raster: the new raster, never a higher bitrate, the
\* window restarted now, a new generation that begins with SPS/PPS and an IDR
Reconfigured(p, id, t) ==
    LET q  == Profiles[id]
        r  == FitRaster(IF p.source # <<0, 0>> THEN p.source ELSE p.raster, q.w, q.h)
        br == RateForRaster(p.request, r, Lower(p.target, q.target), Lower(p.max, q.max))
    IN  [p EXCEPT !.id = id, !.raster = r, !.target = br[1], !.max = br[2], !.win = t, !.gen = @ + 1]

NoPipeline == [id |-> 0, request |-> 0, fps |-> 0, source |-> <<0, 0>>, raster |-> <<0, 0>>,
               target |-> 0, max |-> 0, win |-> 0, gen |-> 0]

LadderInit ==
    /\ ladderNow = 0 /\ pstate = NoPipeline /\ up = "idle"
    /\ ctl = DegradeInit(1, 15, 0)
    /\ past = [act |-> "none", acts |-> 0, at |-> -HoldOffMs, run |-> 0, seen |-> 0]

\* The profile a request resolves to on this terminal
Resolved(wire, win7, mft) ==
    LET request == ParseRequest(wire)
    IN  Resolve(request, win7, mft /\ request = Default, request = Default)

\* pipeline_start: the configuration it puts in force
Configured(wire, res, src, ini) ==
    LET request == ParseRequest(wire)
        p       == Profiles[res.id]
        source  == SourceOf(src)
        b       == StartBounds(request, res, ini)
        raster  == FitRaster(IF source # <<0, 0>> THEN source ELSE <<p.w, p.h>>, b[1], b[2])
        br      == StartRates(request, raster, p, ini)
    IN  [id |-> res.id, request |-> request, fps |-> res.fps, source |-> source,
         raster |-> raster, target |-> br[1], max |-> br[2], win |-> ladderNow, gen |-> 1]

\* pipeline_start and the initialisation that follows it in the main loop
Start ==
    /\ up = "idle"
    /\ \E wire \in Requests, win7, mft \in BOOLEAN, src \in Sources, ini \in Inis :
          LET res == Resolved(wire, win7, mft)
          IN  /\ pstate' = Configured(wire, res, src, ini)
              /\ ctl' = DegradeInit(res.id, res.fps, ladderNow)
    /\ up' = "active"
    /\ UNCHANGED <<ladderNow, past>>

\* What the properties remember of a closed window: consecutive bad windows at
\* the 480p floor since the last step of the ladder that counts from it, and
\* consecutive bad windows since the last step
Remember(w, act) ==
    LET bad == pstate.id = 1 /\ ctl.d0 /\ Bad(w, pstate.fps)
    IN  [act  |-> act, acts |-> IF act = "none" THEN past.acts ELSE past.acts + 1,
         at   |-> IF act = "none" THEN past.at ELSE pstate.win + WindowMs,
         run  |-> IF bad /\ act \notin {"d0", "d3"} THEN past.run + 1 ELSE 0,
         seen |-> CASE past.act # "none" -> IF Bad(w, pstate.fps) THEN 1 ELSE 0
                    [] past.act = "none" -> IF Bad(w, pstate.fps) THEN past.seen + 1 ELSE 0]

\* The main loop closes a window that is over and applies the action.  The
\* window ends where it should have, however late the loop comes; a failed
\* change of raster stops the gate with L4C_ERR_FATAL, as does the last step.
CloseWindow ==
    /\ up = "active" /\ ladderNow - pstate.win >= WindowMs
    /\ \E w \in Windows :
          LET end == pstate.win + WindowMs
              r   == OnWindow(ctl, end, w)
              p   == [pstate EXCEPT !.win = end]
          IN  /\ past' = Remember(w, r.act)
              /\ \/ /\ r.act \in {"none", "d0"}
                    /\ pstate' = p /\ ctl' = r.ctl /\ up' = up
                 \/ /\ r.act = "d1"
                    /\ pstate' = [p EXCEPT !.fps = 10]
                    /\ ctl' = NotifyApplied(r.ctl, p.id, 10, ladderNow)
                    /\ up' = up
                 \/ /\ r.act \in {"d2", "d3"}
                    /\ LET id == IF r.act = "d2" THEN 2 ELSE 1
                       IN  /\ pstate' = Reconfigured(p, id, ladderNow)
                           /\ ctl' = NotifyApplied(r.ctl, id, p.fps, ladderNow)
                    /\ up' = up
                 \/ /\ r.act \in {"d2", "d3", "stop"}
                    /\ pstate' = p /\ ctl' = r.ctl /\ up' = "stopped"
    /\ UNCHANGED ladderNow

\* The loop comes round: a window is closed at most MaxLate ticks late
LoopTick ==
    /\ up # "stopped" /\ ladderNow < MaxLadderTime
    /\ up = "active" => ladderNow - pstate.win < WindowMs + MaxLate
    /\ ladderNow' = ladderNow + 1
    /\ UNCHANGED <<pstate, ctl, up, past>>

LadderNext == Start \/ CloseWindow \/ LoopTick

LadderSpec == LadderInit /\ [][LadderNext]_ladderVars

-----------------------------------------------------------------------------
(* Properties.                                                             *)

LadderTypeOK ==
    /\ ladderNow \in 0..MaxLadderTime /\ up \in {"idle", "active", "stopped"}
    /\ pstate.id \in 0..3 /\ pstate.fps \in {0, 10, 15, 25} /\ pstate.gen \in 0..3
    /\ ctl.bad \in Nat /\ ctl.floorBad \in 0..FloorBad /\ ctl.hold \in Nat
    /\ past.act \in {"none", "d0", "d1", "d2", "d3", "stop"}

\* A step of the ladder is earned: the windows since the step before it ended
\* with two bad ones in a row, and the two steps are a hold-off apart, whatever
\* the lateness of the loop.
StepEarned ==
    [][ past'.acts > past.acts /\ past'.act # "stop" =>
            past'.seen >= 2 /\ past'.at - past.at >= HoldOffMs ]_ladderVars

=============================================================================
