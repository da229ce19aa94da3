---- MODULE RateCommon ----
(***************************************************************************)
(* What the two bitrate controllers of tx/bitrate_ctl.c share: the encoder *)
(* they drive over HTTP, the radio and ring signals they read, the learned *)
(* floor and the bisecting cut.  The controllers are RateRules (run_rules) *)
(* and RatePi (run_pi); BitrateCtl chooses between them.                    *)
(*                                                                         *)
(* A controller's locals are one record, ctl.  An iteration of its loop is *)
(* a chain of stages, each an operator from a record to the set of records *)
(* it may leave: the set has more than one member where the encoder's      *)
(* answer is open.  Rates are in a coarse unit, percentages are integers   *)
(* and Pct truncates as the casts to uint32_t do.  Time is in loop         *)
(* iterations; "now - last_x" is the age x will have in the next iteration *)
(* (1 when it was set in the last one); it stops counting at the largest   *)
(* interval the code compares it with.                                     *)
(***************************************************************************)
EXTENDS Integers, FiniteSets

CONSTANTS
    MinKbps, MaxKbps,  \* cfg->min_kbps, cfg->max_kbps
    Margin,            \* cfg->margin, percent
    RingBackoff,       \* cfg->ring_backoff, percent
    RoiMaxKbps,        \* cfg->roi_max_kbps
    RoiRecovery,       \* cfg->roi_recovery_ms
    ShortInterval,     \* the 250 ms limits of the fast paths
    RingCutHoldoff,    \* RING_CUT_HOLDOFF_MS
    PollInterval,      \* cfg->poll_interval_ms
    CongestedHold,     \* CONGESTED_HOLD_MS
    FlushSettle,       \* RING_FLUSH_SETTLE_MS, two of the encoder's windows
    RetxWindow,        \* RETX_SEVERE_WINDOW_MS
    RetxHistory,       \* RETX_EVENT_HISTORY
    Near,              \* apply_cut(): a refused rate this close is given up
    MaxAttempts,       \* apply_cut(): requests of one cut
    LinkRates,         \* throughputs BB_GET_MCS reports; 0 stands for a failed read
    Delays,            \* delays against the setpoint: subset of {"low", "high", "congested"}
    LdpcLevels,        \* error ratios read: subset of {"low", "high", "severe"}
    WaybeamFloor,      \* external: the encoder refuses less than this over its divisor
    Configured,        \* external: the rate the encoder starts with
    MaxEvents,         \* bound: retx events between two iterations
    MaxMishaps         \* bound: requests and reads that fail and encoder restarts,
                       \* after which the data socket is not reopened either

ASSUME RateAssumption ==
    /\ MinKbps \in Nat \ {0} /\ MaxKbps \in Nat /\ MinKbps <= MaxKbps
    /\ WaybeamFloor \in Nat \ {0} /\ WaybeamFloor <= MaxKbps
    /\ Configured \in WaybeamFloor..MaxKbps
    /\ Near \in Nat /\ MaxAttempts \in Nat \ {0}
    /\ FlushSettle \in Nat /\ FlushSettle > 1

VARIABLES
    mode,     \* cfg->mode: "rules" or "pi"
    ctl,      \* the running controller's locals and the answers it counts on
    enc,      \* external: the encoder's rate, roi, div, and whether it has a divisor (divs);
              \* unheard: the settings it last changed on a request whose answer was lost
    seen,     \* the last iteration's readings: a mark of flushed frames ("flushed"), nothing
              \* wrong ("calm"), or anything else ("noisy")
    flush,    \* age of cfg->ring_flushed_ms in the next iteration
    ring,     \* cfg->ring is not NULL
    gen,      \* cfg->ring_generation
    congest,  \* what is left of g_congested_until_ms
    odd       \* the parity of the iteration: one that changes nothing else is a step, too

vars == <<mode, ctl, enc, seen, flush, ring, gen, congest, odd>>

Pct(x, p) == (x * p) \div 100
Clamp(v, lo, hi) == IF v < lo THEN lo ELSE IF v > hi THEN hi ELSE v
Longer(a, b) == IF a > b THEN a ELSE b
Cap(a, bound) == IF a > bound THEN bound ELSE a

-----------------------------------------------------------------------------
\* The encoder's HTTP interface

\* http_get_status(): a request is answered, fails on the way to the encoder, or is carried
\* out and its answer is lost or late; the last two are both -1 to the caller.
Replies(c) == {"ok"} \cup IF c.faults + gen < MaxMishaps THEN {"failed", "unheard"} ELSE {}
Lost(c) == Replies(c) \ {"ok"}

Fault(c, reply) == IF reply = "ok" THEN c ELSE [c EXCEPT !.faults = @ + 1]

\* The encoder e after a request for the settings what, which makes it new when it arrives.
\* From an unheard divisor on, floors may have been learned in the wrong units ("floor").
Took(e, reply, what, new) ==
    CASE reply = "ok" -> [new EXCEPT !.unheard = @ \ what]
      [] reply = "unheard" -> [new EXCEPT !.unheard = @ \cup what \cup IF "div" \in what THEN {"floor"} ELSE {}]
      [] OTHER -> e

\* The encoder's own check of a rate, at a divisor: below the floor it answers 409.
Refuses(kbps, div) == kbps < WaybeamFloor \div div

LearnFloorFromCurrent(floor, current, rejected) == IF current > floor THEN current ELSE floor

\* learn_floor(): a refusal proves that the floor is above the refused rate.
LearnFloor(floor, current, rejected) == IF rejected + 1 > floor THEN rejected + 1 ELSE floor

\* The rate apply_cut() asks for at each attempt, halving the distance to the current one.
Asked(kbps, current) ==
    LET ask[n \in 0..MaxAttempts] ==
            IF n = 0 THEN kbps ELSE ask[n - 1] + (current - ask[n - 1]) \div 2
    IN  ask

\* The attempt a cut ends with when every request is answered.
LastAttempt(kbps, current, div) ==
    LET ask == Asked(kbps, current)
        ends == {n \in 0..(MaxAttempts - 1) :
                    \/ ~Refuses(ask[n], div)
                    \/ ask[n] >= current \/ current - ask[n] <= Near
                    \/ n = MaxAttempts - 1}
    IN  CHOOSE n \in ends : \A m \in ends : n <= m

\* The floor after the refusals of the attempts before n.
FloorAfter(c, ask, current, n, div) ==
    LET known[i \in 0..MaxAttempts] ==
            IF i = 0 THEN c.floor ELSE LearnFloor(known[i - 1], current, ask[i - 1] * div)
    IN  known[n]

\* A cut that ends with the unanswered request n, which the encoder refused.
CutUnanswered(c, e, ask, current, n, div) ==
    {[done |-> 0, enc |-> e, ctl |-> Fault([c EXCEPT !.floor = FloorAfter(c, ask, current, n, div)], r)]
     : r \in Lost(c)}

\* A cut that ends with attempt n, of which the controller records kbps.
CutAnswered(c, e, ask, current, n, div, kbps) ==
    IF Refuses(ask[n], e.div)
    THEN {[done |-> 0, enc |-> e, ctl |-> [c EXCEPT !.floor = FloorAfter(c, ask, current, n + 1, div)]]}
    ELSE {[done |-> IF r = "ok" THEN kbps ELSE 0,
           enc |-> Took(e, r, {"rate"}, [e EXCEPT !.rate = ask[n]]),
           ctl |-> Fault([c EXCEPT !.floor = FloorAfter(c, ask, current, n, div)], r)]
          : r \in Replies(c)}

ApplyCutFirst(c, e, kbps, current, div) ==
    LET ask == Asked(kbps, current)
        last == LastAttempt(kbps, current, e.div)
    IN  CutAnswered(c, e, ask, current, last, div, kbps)

\* apply_cut(), with the divisor the controller counts on: a floor is learned from every
\* refusal, and the first request that is not answered with one ends it.  Result: what the
\* controller records on success (0 without success), what the encoder runs at, and the
\* controller's record.
ApplyCut(c, e, kbps, current, div) ==
    LET ask == Asked(kbps, current)
        last == LastAttempt(kbps, current, e.div)
    IN  CutAnswered(c, e, ask, current, last, div, ask[last])
        \cup UNION {CutUnanswered(c, e, ask, current, n, div) : n \in {m \in 0..last : Refuses(ask[m], e.div)}}

\* One plain request for a rate, as increases and first rates are sent: no floor is learned.
SendRate(c, e, kbps) ==
    IF Refuses(kbps, e.div) THEN {[done |-> 0, enc |-> e, ctl |-> c]}
    ELSE {[done |-> IF r = "ok" THEN kbps ELSE 0,
           enc |-> Took(e, r, {"rate"}, [e EXCEPT !.rate = kbps]),
           ctl |-> Fault(c, r)] : r \in Replies(c)}

\* One request for fpv.roiEnabled.
SendRoi(c, e, on) ==
    {[done |-> r = "ok", enc |-> Took(e, r, {"roi"}, [e EXCEPT !.roi = on]),
      ctl |-> Fault(c, r)] : r \in Replies(c)}

-----------------------------------------------------------------------------
\* The signals.  What an iteration reads is a record i: the throughput of BB_GET_MCS (0 when
\* the read fails), the ring's published low-water mark, the delay the send loop published,
\* the LDPC error ratio, whether a link event came, and the retx events counted since.

\* A low-water window is one iteration long here.  The one open at a flush still describes
\* flushed frames when it closes, the next one no longer.
LowMarks(age) == {"clear", "backlog"} \cup IF age < 2 THEN {"flushed"} ELSE {}

\* A link event only makes the next poll come sooner.
Hints == IF PollInterval > 1 THEN BOOLEAN ELSE {FALSE}

Readings(age) ==
    [link : LinkRates \cup IF ctl.faults + gen < MaxMishaps THEN {0} ELSE {}, low : LowMarks(age), delay : Delays,
     ratio : LdpcLevels \cup {"low"}, woken : Hints, retx : 0..MaxEvents, flush : {age}]

\* A failed read of the throughput counts as a mishap.
Missed(c, i) == IF i.link = 0 THEN [c EXCEPT !.faults = @ + 1] ELSE c

BacklogOneWindow(i) == ring /\ i.low # "clear" /\ i.flush >= FlushSettle \div 2

\* ring_low_water() against ring_backlog_high_slots: nothing while the published figure may
\* still describe flushed frames.
Backlog(i) == ring /\ i.low # "clear" /\ i.flush >= FlushSettle

\* flush_ring(), after the data socket has been reopened.
FlushRing ==
    /\ ring /\ gen + ctl.faults < MaxMishaps
    /\ flush' = 1
    /\ UNCHANGED <<mode, ctl, enc, seen, ring, gen, congest, odd>>

\* The encoder restarts: the send loop takes the ring away from the controller.
Detach ==
    /\ ring /\ gen + ctl.faults < MaxMishaps
    /\ ring' = FALSE /\ enc' = [enc EXCEPT !.rate = Configured, !.roi = FALSE, !.div = 1, !.unheard = {}]
    /\ UNCHANGED <<mode, ctl, seen, flush, gen, congest, odd>>

\* It has reattached: the new ring, then the new generation.
Attach ==
    /\ ~ring
    /\ ring' = TRUE /\ gen' = gen + 1
    /\ UNCHANGED <<mode, ctl, enc, seen, flush, congest, odd>>

\* The retx_event_ms ring: the events counted now, and those of the iterations before.
CountRetx(hist, n) == [hist EXCEPT ![0] = n]

AgeRetx(hist) == [j \in DOMAIN hist |-> IF j = 0 THEN 0 ELSE hist[j - 1]]

Recent(hist) ==
    LET sum[j \in 0..RetxWindow] == IF j = 0 THEN 0 ELSE sum[j - 1] + hist[j - 1]
    IN  Cap(sum[RetxWindow], RetxHistory)
====
