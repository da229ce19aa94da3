---- MODULE RatePi ----
(***************************************************************************)
(* run_pi(): rate = capacity * margin * k, k a PI controller on the air    *)
(* side delay, with trims on radio disturbances, focus mode (ROI) and      *)
(* frame-rate stages below the floor.  k is in tenths, the delay's error a *)
(* small integer; a target is kept in thousandths of the rate unit, so the *)
(* comparisons the code makes in doubles are exact.                        *)
(***************************************************************************)
EXTENDS RateCommon

CONSTANTS
    FpsDivMax,               \* cfg->fps_div_max
    FpsRecovery,             \* cfg->fps_recovery_ms
    KMin, KMax,              \* cfg->pi_k_min, pi_k_max
    KpUp, KpDown, KiUp, KiDown,
    SevereK,                 \* cfg->pi_severe_k
    MildTrim,                \* cfg->pi_mild_trim, percent
    RecoverStep,             \* cfg->pi_recover_per_s
    SlewUp,                  \* cfg->pi_slew_up, percent
    PiRetxSevere,            \* cfg->pi_retx_severe_events
    DisturbHold,             \* PI_DISTURB_HOLD_MS
    Quiet,                   \* a second without disturbance
    FocusRetry,              \* PI_FOCUS_RETRY_MS
    MinUpStep, MinDownStep,  \* PI_MIN_UP_STEP, PI_MIN_DOWN_STEP, percent
    Due                      \* a second since the last apply

FpsRestore == 125            \* PI_FPS_RESTORE, percent
Unknown == -1

\* pi_delay_set_ms minus the delay.
Err(i) == CASE i.delay = "low" -> 1 [] i.delay = "high" -> -1 [] i.delay = "congested" -> -2

\* The locals of run_pi().  above and divUp are ages of the two "since" times, or None.
None == -1

PiInit ==
    [applied |-> 0, floor |-> MinKbps, cap |-> 0, ki |-> 10, k |-> 10,
     gen |-> 0, focus |-> Unknown, above |-> None,
     divMax |-> FpsDivMax, div |-> IF FpsDivMax > 1 THEN Unknown ELSE 1, divUp |-> None,
     why |-> FALSE, hist |-> [i \in 0..(RetxWindow - 1) |-> 0],
     faults |-> 0,
     poll |-> PollInterval, apply |-> Due, ldpc |-> ShortInterval,
     disturb |-> Longer(DisturbHold, Quiet), severe |-> CongestedHold,
     backlog |-> RingCutHoldoff, focusTry |-> FocusRetry, divTry |-> FocusRetry]

Since(a, bound) == IF a = None THEN None ELSE Cap(a + 1, bound)

PiAge(c) ==
    [c EXCEPT !.why = FALSE, !.hist = AgeRetx(@), !.poll = Cap(@ + 1, PollInterval), !.apply = Cap(@ + 1, Due),
              !.ldpc = Cap(@ + 1, ShortInterval), !.disturb = Cap(@ + 1, Longer(DisturbHold, Quiet)),
              !.severe = Cap(@ + 1, CongestedHold), !.backlog = Cap(@ + 1, RingCutHoldoff),
              !.focusTry = Cap(@ + 1, FocusRetry), !.divTry = Cap(@ + 1, FocusRetry),
              !.above = Since(@, RoiRecovery), !.divUp = Since(@, FpsRecovery)]

Result(c, e) == [ctl |-> c, enc |-> e]

\* The encoder restarted: forget what was applied.
Restart(c) ==
    IF gen = c.gen THEN c
    ELSE [c EXCEPT !.gen = gen, !.applied = 0, !.focus = Unknown,
                   !.divMax = FpsDivMax, !.div = 1, !.divUp = None]

\* send_fps_div(): divisor and rate in one request.  "none": this encoder has no divisor.
SendDiv(c, e, div, kbps) ==
    LET refusal == IF ~e.divs THEN "none" ELSE IF Refuses(kbps, div) THEN "refused" ELSE "ok"
    IN  {[status |-> IF r = "ok" THEN refusal ELSE r, ctl |-> Fault(c, r),
          enc |-> IF refusal # "ok" THEN e
                  ELSE Took(e, r, {"rate", "div"}, [e EXCEPT !.rate = kbps, !.div = div])]
         : r \in Replies(c)}

\* At start the divisor of a previous tx may still be in force: back to every frame.
DivReset(c, e) ==
    IF c.div # Unknown \/ c.divTry < FocusRetry THEN {Result(c, e)}
    ELSE {LET d == [r.ctl EXCEPT !.divTry = 0]
          IN  Result(CASE r.status = "none" -> [d EXCEPT !.div = 1, !.divMax = 1]
                       [] r.status = "ok" -> [d EXCEPT !.div = 1]
                       [] OTHER -> d, r.enc)
          : r \in SendDiv(c, e, 1, c.floor)}

CurDiv(c) == IF c.div > 0 THEN c.div ELSE 1

\* The capacity: polled on a timer or a hint, kept when the read fails.
Capacity(c, i) ==
    IF c.cap > 0 /\ ~i.woken /\ c.poll < PollInterval THEN c
    ELSE [c EXCEPT !.poll = 0, !.cap = IF i.link > 0 THEN i.link ELSE @]

\* Disturbances: a severe one clamps the integrator, a mild one trims it.
Disturb(c, i) ==
    LET read == LdpcLevels # {} /\ c.ldpc >= ShortInterval
        d == [c EXCEPT !.hist = CountRetx(@, i.retx), !.ldpc = IF read THEN 0 ELSE @]
        severe == \/ read /\ i.ratio = "severe"
                  \/ PiRetxSevere > 0 /\ Recent(d.hist) >= PiRetxSevere
        mild == ((read /\ i.ratio # "low") \/ i.retx > 0) /\ d.disturb >= DisturbHold
    IN  IF severe
        THEN [d EXCEPT !.ki = IF @ > SevereK THEN SevereK ELSE @, !.why = d.ki > SevereK,
                       !.severe = 0, !.disturb = 0]
        ELSE IF mild THEN [d EXCEPT !.ki = Pct(@, MildTrim), !.disturb = 0, !.why = TRUE]
        ELSE d

\* Ring backlog, the hard backstop.
Backstop(c, i) ==
    IF ~Backlog(i) \/ c.backlog < RingCutHoldoff THEN c
    ELSE [c EXCEPT !.ki = Pct(IF c.k < @ THEN c.k ELSE @, RingBackoff), !.backlog = 0, !.why = TRUE]

\* pi_focus(): on below RoiMaxKbps, off after RoiRecovery at or above it.
Focus(c, e) ==
    LET below == c.applied < RoiMaxKbps
        d == [c EXCEPT !.above = IF below THEN None ELSE IF @ = None THEN 0 ELSE @]
        want == IF below \/ (d.focus = 1 /\ d.above < RoiRecovery) THEN 1 ELSE 0
    IN  IF RoiMaxKbps = 0 \/ c.applied = 0 THEN {Result(c, e)}
        ELSE IF want = d.focus \/ d.focusTry < FocusRetry THEN {Result(d, e)}
        ELSE {Result([r.ctl EXCEPT !.focusTry = 0, !.focus = IF r.done THEN want ELSE @], r.enc)
              : r \in SendRoi(d, e, want = 1)}

\* The PI step, with its anti-windup.
PiStep(c, i) ==
    LET err == Err(i)
        atFloor == c.applied > 0 /\ c.applied <= c.floor \div CurDiv(c) /\ CurDiv(c) >= c.divMax
        heldUp == c.applied > 0 /\ c.applied * 10000 < c.cap * Margin * c.k * 9
        integrate == (err > 0 /\ ~heldUp /\ c.applied < MaxKbps) \/ (err < 0 /\ ~atFloor)
        i1 == IF integrate THEN c.ki + err * (IF err < 0 THEN KiDown ELSE KiUp) ELSE c.ki
        i2 == IF RecoverStep > 0 /\ err > 0 /\ ~heldUp /\ i1 < 10 /\ c.disturb >= Quiet
              THEN i1 + RecoverStep ELSE i1
        kMin == KMin \div c.divMax
        ki == Clamp(i2, kMin, KMax)
    IN  [c EXCEPT !.ki = ki, !.k = Clamp(ki + err * (IF err < 0 THEN KpDown ELSE KpUp), kMin, KMax)]

Wanted(c) == c.cap * Margin * c.k

\* The frame-rate stage: down as soon as less than the floor is wanted, up once enough for
\* the next stage's floor has been wanted for FpsRecovery.
Stage(c) ==
    LET cur == CurDiv(c)
        down == Wanted(c) * cur < c.floor * 1000 /\ cur * 2 <= c.divMax
        up == cur > 1 /\ Wanted(c) * (cur \div 2) * 100 >= c.floor * FpsRestore * 1000
        since == IF up /\ ~down THEN (IF c.divUp = None THEN 0 ELSE c.divUp) ELSE None
    IN  IF c.div = Unknown \/ c.divMax = 1 THEN [want |-> cur, since |-> c.divUp]
        ELSE [want |-> IF down THEN cur * 2
                       ELSE IF since # None /\ since >= FpsRecovery THEN cur \div 2 ELSE cur,
              since |-> since]

\* The rate to send: slewed upward, not below the floor of the frame rate it is sent with.
PiTarget(c, want) ==
    LET slewed == IF c.applied > 0 /\ Wanted(c) > c.applied * 10 * (100 + SlewUp)
                  THEN c.applied * 10 * (100 + SlewUp) ELSE Wanted(c)
        floored == IF slewed * want < c.floor * 1000 THEN (c.floor * 1000) \div want ELSE slewed
    IN  (IF floored > MaxKbps * 1000 THEN MaxKbps * 1000 ELSE floored) \div 1000

\* Another frame rate and its bitrate, in one request.
ChangeStage(c, e, want, t) ==
    {Result(CASE r.status = "none" -> [r.ctl EXCEPT !.divMax = 1]
              [] r.status = "refused" -> [r.ctl EXCEPT !.floor = LearnFloor(@, c.applied, t * want)]
              [] r.status = "ok" -> [r.ctl EXCEPT !.div = want, !.divUp = None, !.applied = t, !.apply = 0]
              [] OTHER -> r.ctl, r.enc)
     : r \in SendDiv(c, e, want, t)}

TooSmallWhenever(c, t) ==
    IF t > c.applied THEN (t - c.applied) * 100 < c.applied * MinUpStep
    ELSE t = c.applied \/ ((c.applied - t) * 100 < c.applied * MinDownStep /\ ~c.why)

\* Too small a change to send.
TooSmall(c, t) ==
    IF t > c.applied THEN (t - c.applied) * 100 < c.applied * MinUpStep /\ c.apply < Due
    ELSE t = c.applied \/ ((c.applied - t) * 100 < c.applied * MinDownStep /\ ~c.why)

PiSend(c, e, t) ==
    IF c.applied > 0 /\ TooSmall(c, t) THEN {Result(c, e)}
    ELSE {Result(IF r.done > 0 THEN [r.ctl EXCEPT !.applied = r.done, !.apply = 0] ELSE r.ctl, r.enc)
          : r \in IF c.applied > 0 /\ t < c.applied
                  THEN ApplyCut(c, e, t, c.applied, CurDiv(c))
                  ELSE SendRate(c, e, t)}

Drive(c, e) ==
    LET s == Stage(c)
        d == [c EXCEPT !.divUp = s.since]
        t == PiTarget(d, s.want)
    IN  IF s.want # CurDiv(c) THEN ChangeStage(d, e, s.want, t) ELSE PiSend(d, e, t)

\* One iteration of run_pi(); without a capacity it ends early.
PiIteration(i) ==
    UNION {LET c == Capacity(a.ctl, i)
           IN  IF c.cap = 0 THEN {[ctl |-> PiAge(c), enc |-> a.enc, mark |-> FALSE]}
               ELSE UNION {LET p == PiStep(f.ctl, i)
                           IN  {[ctl |-> PiAge(r.ctl), enc |-> r.enc,
                                 mark |-> i.delay = "congested" \/ p.severe < CongestedHold]
                                : r \in Drive(p, f.enc)}
                           : f \in Focus(Backstop(Disturb(c, i), i), a.enc)}
           : a \in DivReset(Restart(Missed(ctl, i)), enc)}
====
