---- MODULE RateRules ----
(***************************************************************************)
(* run_rules(): the rule-based controller.  An iteration checks the ring,  *)
(* the LDPC error ratio and the retx events, each of which may cut the     *)
(* rate, and then polls the MCS throughput, the only signal that may also  *)
(* raise it.                                                               *)
(***************************************************************************)
EXTENDS RateCommon

CONSTANTS
    Hysteresis,       \* cfg->hysteresis, percent
    MinInterval,      \* cfg->min_interval_ms
    FastCutHoldoff,   \* FAST_CUT_HOLDOFF_MS
    RampSettle,       \* cfg->ramp_settle_ms
    RampStep,         \* cfg->ramp_step, percent
    UnstableWindow,   \* cfg->unstable_window_ms
    UnstableStep,     \* cfg->unstable_ramp_step, percent
    ProbeFrac,        \* cfg->probe_ceiling_frac, percent
    ProbeHold,        \* cfg->probe_hold_ms
    RoiAbort,         \* ROI_BACKLOG_ABORT_MS
    LdpcBackoff, RetxBackoff, SevereBackoff,  \* percent
    RetxSevere        \* cfg->retx_severe_events

JumpRatio == 2     \* RECOVERY_JUMP_RATIO
JumpFrac == 60     \* RECOVERY_JUMP_FRAC, percent
SwingPct == 150    \* LINK_SWING_FACTOR, percent

\* The locals of run_rules().  applied = 0 stands for !have_applied.
RulesInit ==
    [applied |-> 0, floor |-> MinKbps, prevLink |-> 0,
     roiOn |-> FALSE, banned |-> FALSE,
     ceiling |-> 0, ceilingLeft |-> 0,
     hist |-> [i \in 0..(RetxWindow - 1) |-> 0], unseen |-> FALSE,
     faults |-> 0,
     apply |-> ShortInterval, urgent |-> RingCutHoldoff, backlog |-> Longer(RampSettle, RoiRecovery),
     roi |-> RoiAbort, roiTry |-> ShortInterval, ldpc |-> ShortInterval, retx |-> ShortInterval,
     cut |-> Longer(FastCutHoldoff, RampSettle), mcsCut |-> ShortInterval, inc |-> MinInterval,
     poll |-> PollInterval, rise |-> UnstableWindow, swing |-> UnstableWindow]

\* By the next iteration everything is older; a probe ceiling whose time is up
\* is dropped, and the age of a ROI that is off is not kept.
RulesAge(c) ==
    [c EXCEPT !.hist = AgeRetx(@), !.apply = Cap(@ + 1, ShortInterval), !.urgent = Cap(@ + 1, RingCutHoldoff),
              !.backlog = Cap(@ + 1, Longer(RampSettle, RoiRecovery)), !.roi = IF c.roiOn THEN Cap(@ + 1, RoiAbort) ELSE RoiAbort,
              !.roiTry = Cap(@ + 1, ShortInterval), !.ldpc = Cap(@ + 1, ShortInterval),
              !.retx = Cap(@ + 1, ShortInterval), !.cut = Cap(@ + 1, Longer(FastCutHoldoff, RampSettle)),
              !.mcsCut = Cap(@ + 1, ShortInterval), !.inc = Cap(@ + 1, MinInterval),
              !.poll = Cap(@ + 1, PollInterval), !.rise = Cap(@ + 1, UnstableWindow),
              !.swing = Cap(@ + 1, UnstableWindow),
              !.ceiling = IF c.ceilingLeft <= 1 THEN 0 ELSE @,
              !.ceilingLeft = IF @ = 0 THEN 0 ELSE @ - 1]

\* A stage's result: the controller, the encoder, and whether the link was marked congested.
Out(c, e, mark) == [ctl |-> c, enc |-> e, mark |-> mark]

\* A cut that was carried out, from any path but the ring's.
CutDone(c, kbps) == [c EXCEPT !.applied = kbps, !.apply = 0, !.cut = 0]

RoiSafetyNetRearmed(c, e) ==
    IF c.roiOn /\ c.roi >= RoiAbort
    THEN {Out(IF r.done THEN [r.ctl EXCEPT !.roiOn = FALSE] ELSE r.ctl, r.enc, TRUE)
          : r \in SendRoi(c, e, FALSE)}
    ELSE {Out(c, e, TRUE)}

\* ROI on and still a backlog after RoiAbort: off, and never on again.
RoiSafetyNet(c, e) ==
    IF c.roiOn /\ c.roi >= RoiAbort
    THEN {Out(IF r.done THEN [r.ctl EXCEPT !.roiOn = FALSE, !.banned = TRUE] ELSE r.ctl, r.enc, TRUE)
          : r \in SendRoi(c, e, FALSE)}
    ELSE {Out(c, e, TRUE)}

\* The urgent request: the cut, ROI on, or both in one; a refusal teaches the floor.
UrgentCut(c, e, target, cut, roiOn) ==
    IF cut /\ Refuses(target, e.div)
    THEN {Out(IF r = "ok" THEN [c EXCEPT !.floor = LearnFloor(@, c.applied, target)] ELSE Fault(c, r), e, TRUE)
          : r \in Replies(c)}
    ELSE {LET done == [c EXCEPT
                  !.ceiling = IF cut /\ ProbeFrac > 0 THEN Pct(c.applied, ProbeFrac) ELSE @,
                  !.ceilingLeft = IF cut /\ ProbeFrac > 0 THEN ProbeHold ELSE @,
                  !.applied = IF cut THEN target ELSE @,
                  !.apply = IF cut THEN 0 ELSE @, !.urgent = IF cut THEN 0 ELSE @,
                  !.cut = IF cut THEN 0 ELSE @,
                  !.roiOn = @ \/ roiOn, !.roi = IF roiOn THEN 0 ELSE @]
              what == (IF cut THEN {"rate"} ELSE {}) \cup (IF roiOn THEN {"roi"} ELSE {})
              took == [e EXCEPT !.rate = IF cut THEN target ELSE @, !.roi = @ \/ roiOn]
          IN  Out(Fault(IF r = "ok" THEN done ELSE c, r), Took(e, r, what, took), TRUE)
          : r \in Replies(c)}

\* A standing backlog.
RingBacklogged(c, e) ==
    UNION {LET target == Clamp(Pct(c.applied, RingBackoff), n.ctl.floor, MaxKbps)
               cut == target < c.applied /\ c.urgent >= RingCutHoldoff
               roiOn == ~n.ctl.banned /\ c.applied < RoiMaxKbps /\ ~n.ctl.roiOn
           IN  IF cut \/ roiOn THEN UrgentCut(n.ctl, n.enc, target, cut, roiOn) ELSE {n}
           : n \in RoiSafetyNet([c EXCEPT !.backlog = 0], e)}

\* No backlog for long enough at a comfortable rate: ROI off.
RoiRecovers(c, e) ==
    IF c.roiOn /\ c.applied >= RoiMaxKbps /\ c.backlog >= RoiRecovery /\ c.roiTry >= ShortInterval
    THEN {Out([r.ctl EXCEPT !.roiTry = 0, !.roiOn = ~r.done], r.enc, FALSE) : r \in SendRoi(c, e, FALSE)}
    ELSE {Out(c, e, FALSE)}

RingStage(c, e, i) ==
    IF ~ring \/ c.applied = 0 \/ c.apply < ShortInterval THEN {Out(c, e, FALSE)}
    ELSE IF Backlog(i) THEN RingBacklogged(c, e) ELSE RoiRecovers(c, e)

\* A multiplicative cut of one of the fast paths.
FastCut(c, e, factor) ==
    LET target == Clamp(Pct(c.applied, factor), c.floor, MaxKbps)
    IN  IF target >= c.applied THEN {Out(c, e, FALSE)}
        ELSE {Out(IF r.done > 0 THEN CutDone(r.ctl, r.done) ELSE r.ctl, r.enc, r.done > 0)
              : r \in ApplyCut(c, e, target, c.applied, 1)}

\* LDPC error ratio: the attempt is timed whether or not the ratio is high.
LdpcStage(c, e, i) ==
    IF LdpcLevels = {} \/ c.applied = 0 \/ c.ldpc < ShortInterval \/ c.cut < FastCutHoldoff
    THEN {Out(c, e, FALSE)}
    ELSE LET d == [c EXCEPT !.ldpc = 0]
         IN  IF i.ratio = "low" THEN {Out(d, e, FALSE)}
             ELSE FastCut(d, e, IF i.ratio = "severe" THEN SevereBackoff ELSE LdpcBackoff)

\* The retx events: timestamped whatever happens, acted on when the gates are open.
RetxStage(c, e, i) ==
    LET d == [c EXCEPT !.hist = CountRetx(@, i.retx), !.unseen = @ \/ i.retx > 0]
    IN  IF c.applied = 0 \/ c.retx < ShortInterval \/ c.cut < FastCutHoldoff \/ ~d.unseen
        THEN {Out(d, e, FALSE)}
        ELSE FastCut([d EXCEPT !.unseen = FALSE, !.retx = 0], e,
                     IF RetxSevere > 0 /\ Recent(d.hist) >= RetxSevere THEN SevereBackoff ELSE RetxBackoff)

-----------------------------------------------------------------------------
\* The MCS-derived target

\* The link rose, or fell back soon after a rise: a swing.
SwingSeen(c, link) ==
    [c EXCEPT !.prevLink = link,
              !.rise = IF c.prevLink > 0 /\ link * 100 >= c.prevLink * SwingPct THEN 0 ELSE @,
              !.swing = IF /\ c.prevLink > 0 /\ link * 100 < c.prevLink * SwingPct
                           /\ link * SwingPct <= c.prevLink * 100 /\ c.rise < UnstableWindow
                        THEN 0 ELSE @]

\* One step up: ramped, or a jump after a fade, under the probe ceiling.
StepUp(c, target) ==
    LET unstable == c.swing < UnstableWindow
        step == IF unstable /\ UnstableStep > 0 THEN UnstableStep ELSE RampStep
        ramp == Pct(c.applied, 100 + step)
        jump == IF ~unstable /\ target >= c.applied * JumpRatio THEN Pct(target, JumpFrac) ELSE 0
        reach == IF jump > ramp THEN jump ELSE ramp
        cap == IF reach <= c.applied THEN c.applied + 1 ELSE reach
        stepped == IF step > 0 /\ target > cap THEN cap ELSE target
    IN  IF c.ceiling > 0 /\ c.ceilingLeft > 0 /\ stepped > c.ceiling THEN c.ceiling ELSE stepped

\* The share of the throughput to use, within the limits.
McsTarget(c, link) == Clamp(Pct(link, Margin), c.floor, MaxKbps)

\* Inside the hysteresis of the applied rate.
Settled(applied, target) ==
    LET d == IF target > applied THEN target - applied ELSE applied - target
    IN  d * 100 < applied * Hysteresis

McsCutUnmarked(c, e, target) ==
    IF c.mcsCut < ShortInterval THEN {Out(c, e, FALSE)}
    ELSE {Out(IF r.done > 0 THEN [CutDone(r.ctl, r.done) EXCEPT !.mcsCut = 0] ELSE r.ctl, r.enc, FALSE)
          : r \in ApplyCut(c, e, target, c.applied, 1)}

\* A fall of the target is applied at once, on a leash of its own.
McsCut(c, e, target) ==
    IF c.mcsCut < ShortInterval THEN {Out(c, e, FALSE)}
    ELSE {Out(IF r.done > 0 THEN [CutDone(r.ctl, r.done) EXCEPT !.mcsCut = 0] ELSE r.ctl, r.enc, r.done > 0)
          : r \in ApplyCut(c, e, target, c.applied, 1)}

\* The first rate, and every increase.
McsSend(c, e, kbps) ==
    {Out(IF r.done > 0 THEN [r.ctl EXCEPT !.applied = r.done, !.apply = 0, !.inc = 0] ELSE r.ctl,
         r.enc, FALSE) : r \in SendRate(c, e, kbps)}

\* A rise waits for min_interval_ms, and for ramp_settle_ms without backlog or cut.
McsRaise(c, e, target) ==
    IF c.inc < MinInterval \/ c.backlog < RampSettle \/ c.cut < RampSettle \/ StepUp(c, target) <= c.applied
    THEN {Out(c, e, FALSE)}
    ELSE McsSend(c, e, StepUp(c, target))

McsStage(c, e, i) ==
    IF c.applied > 0 /\ ~i.woken /\ c.poll < PollInterval THEN {Out(c, e, FALSE)}
    ELSE IF i.link = 0 THEN {Out([c EXCEPT !.poll = 0], e, FALSE)}
    ELSE LET d == SwingSeen([c EXCEPT !.poll = 0], i.link)
             target == McsTarget(d, i.link)
         IN  IF d.applied = 0 THEN McsSend(d, e, target)
             ELSE IF Settled(d.applied, target) THEN {Out(d, e, FALSE)}
             ELSE IF target < d.applied THEN McsCut(d, e, target)
             ELSE McsRaise(d, e, target)

\* One iteration of run_rules().
RulesIteration(i) ==
    UNION {UNION {UNION {{Out(RulesAge(m.ctl), m.enc, a.mark \/ l.mark \/ r.mark \/ m.mark)
                          : m \in McsStage(r.ctl, r.enc, i)}
                  : r \in RetxStage(l.ctl, l.enc, i)}
           : l \in LdpcStage(a.ctl, a.enc, i)}
    : a \in RingStage(Missed(ctl, i), enc, i)}
====
