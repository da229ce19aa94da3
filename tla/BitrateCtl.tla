---- MODULE BitrateCtl ----
(***************************************************************************)
(* bitrate_ctl_run(): the controller thread in one of its two modes,       *)
(* beside the send loop, the event callbacks and the encoder.              *)
(***************************************************************************)
EXTENDS RateRules, RatePi

Init ==
    /\ mode \in {"rules", "pi"}
    /\ ctl = IF mode = "rules" THEN RulesInit ELSE PiInit
    /\ enc \in [rate : {Configured}, roi : {FALSE}, div : IF mode = "pi" THEN {1, FpsDivMax} ELSE {1},
               divs : IF mode = "pi" THEN BOOLEAN ELSE {FALSE}, unheard : {{}}]
    /\ enc.div > 1 => enc.divs
    /\ seen = "noisy"
    /\ flush = FlushSettle /\ ring = TRUE /\ gen = 0 /\ congest = 0 /\ odd = FALSE

\* An iteration on readings i: the controller's stages and mark_congested().
Iterated(i, outcomes) ==
    /\ \E o \in outcomes :
        /\ ctl' = o.ctl /\ enc' = o.enc
        /\ congest' = IF o.mark THEN CongestedHold ELSE IF congest > 0 THEN congest - 1 ELSE 0
    /\ seen' = CASE i.low = "flushed" -> "flushed"
                 [] i.delay = "low" /\ i.ratio = "low" /\ i.retx = 0 /\ i.low = "clear" -> "calm"
                 [] OTHER -> "noisy"
    /\ flush' = Cap(flush + 1, FlushSettle) /\ odd' = ~odd
    /\ UNCHANGED <<mode, ring, gen>>

RulesIterate ==
    /\ mode = "rules"
    /\ \E i \in Readings(flush) :
          i.delay = "low" /\ Iterated(i, RulesIteration(i))

PiIterate ==
    /\ mode = "pi"
    /\ \E i \in Readings(flush) : Iterated(i, PiIteration(i))

Next == RulesIterate \/ PiIterate \/ FlushRing \/ Detach \/ Attach

Spec == Init /\ [][Next]_vars

\* The thread iterates until tx stops, whatever it reads: an iteration is always enabled,
\* so this is its weak fairness.  And the send loop reattaches.
FairSpec == Spec /\ []<><<odd' # odd>>_odd /\ WF_vars(Attach)

-----------------------------------------------------------------------------
Rates == 0..MaxKbps

\* The controller's record and its surroundings are well formed.
TypeOK ==
    /\ mode \in {"rules", "pi"}
    /\ ctl.applied \in Rates /\ ctl.floor \in 1..(MaxKbps + 1) /\ ctl.faults \in 0..MaxMishaps
    /\ mode = "rules" => ctl.ceiling \in Rates /\ ctl.ceilingLeft \in 0..ProbeHold
    /\ mode = "pi" => ctl.div \in {Unknown} \cup 1..FpsDivMax /\ ctl.ki \in 0..KMax /\ ctl.k \in 0..KMax
    /\ enc.rate \in Rates /\ enc.div \in 1..FpsDivMax
    /\ seen \in {"calm", "noisy", "flushed"}
    /\ flush \in 1..FlushSettle /\ gen \in 0..MaxMishaps /\ congest \in 0..CongestedHold

\* The controller and the encoder mean the same encoder run: no restart the controller has
\* still to learn of (the rules mode never learns of one).
InStep == ring /\ gen = IF mode = "pi" THEN ctl.gen ELSE 0

\* learn_floor() and apply_cut(): the floor learned from refusals never exceeds the
\* encoder's own (or min_kbps), in the units of the full frame rate, as long as the encoder
\* has not restarted and every divisor it took was heard of.
FloorSound == gen = 0 /\ ring /\ "floor" \notin enc.unheard => ctl.floor <= Longer(MinKbps, WaybeamFloor)

\* Whatever a cut had to be bisected to, and whichever of the requests failed on the way, the
\* encoder never runs faster than the rate the controller works from, and its focus mode is
\* the believed one; so is its divisor until a first restart.  The exception is a setting the
\* encoder changed on a request whose answer was lost, until the next answered one for it.
NeverOutruns ==
    LET heard(x) == x \notin enc.unheard
    IN  InStep /\ ctl.applied > 0 =>
            /\ heard("rate") => enc.rate <= ctl.applied
            /\ mode = "rules" /\ heard("rate") => enc.rate = ctl.applied
            /\ mode = "rules" /\ heard("roi") => enc.roi = ctl.roiOn
            /\ mode = "pi" /\ heard("div") /\ ctl.div # Unknown /\ gen = 0 => enc.div = ctl.div
            /\ mode = "pi" /\ heard("roi") /\ ctl.focus # Unknown => enc.roi = (ctl.focus = 1)

\* What the controller believes of the encoder is true of it (learn_floor(), apply_cut()).
BeliefsTrue == FloorSound /\ NeverOutruns

\* ring_low_water(): a mark that still describes flushed frames is never taken for a backlog.
FlushedIsNoBacklog == seen' = "flushed" /\ ctl' # ctl => ctl'.backlog > 1

\* bitrate_ctl_congested(): a cut or a backlog the rules see marks the link congested, and
\* the mark outlives neither by more than CongestedHold.
CongestedIsRecent ==
    mode = "rules" /\ ctl' # ctl =>
        /\ ctl.applied > 0 /\ (ctl'.applied < ctl.applied \/ ctl'.backlog = 1) => congest' = CongestedHold
        /\ congest' > 0 /\ congest = 0 => ctl'.backlog = 1 \/ ctl'.cut = 1

\* The two signs of congestion mean what they say, in every iteration.
SignalsTrue == [][FlushedIsNoBacklog /\ CongestedIsRecent]_vars

\* The throughput last read.
Link == IF mode = "rules" THEN ctl.prevLink ELSE ctl.cap

\* What the link carries, as far as the encoder goes down.
Carried(l) == Longer(Clamp(Pct(l, Margin), MinKbps, MaxKbps), WaybeamFloor)

OnLink(l) == Link = l /\ ctl.applied > 0
CameDown(l) == ctl.applied <= Carried(l) \/ Settled(ctl.applied, Carried(l))
CameUp(l) == ctl.applied >= Carried(l) \/ (ctl.applied > 0 /\ Settled(ctl.applied, Carried(l)))

\* run_rules(): once the link stays at a throughput the rate comes down to what it carries,
\* however many fast cuts, backlogs and failed requests come in between.
RateFollowsLink ==
    \A l \in LinkRates : <>[](mode = "rules" /\ OnLink(l)) => <>[]CameDown(l)

\* Once the link stays good and nothing disturbs it any more, the rate climbs back to what it
\* carries: no hold-off, ceiling, learned floor or anti-windup keeps it down, and a
\* PI controller finds back after any number of encoder restarts.
RateRecovers ==
    \A l \in {r \in LinkRates : Pct(r, Margin) >= WaybeamFloor} :
        <>[](Link = l /\ seen = "calm") => <>[]CameUp(l)

\* The ROI safety net of run_rules() and pi_focus(): focus mode is not kept on by the backlog
\* it causes, nor by a rate that has recovered.
FocusReleased ==
    /\ <>[](mode = "rules" /\ ctl.backlog = 1) => <>[](mode = "rules" /\ ~ctl.roiOn)
    /\ <>[](mode = "pi" /\ ctl.applied >= RoiMaxKbps) => <>[](mode = "pi" /\ ctl.focus = 0)

\* run_rules() and run_pi() settle: down to what the link carries, up again when it is calm,
\* and out of focus mode.
RateSettles == RateFollowsLink /\ RateRecovers /\ FocusReleased
====
