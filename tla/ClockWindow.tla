---- MODULE ClockWindow ----
(***************************************************************************)
(* rx/clock_sync.c: the window of clock samples.  A sample is known by what *)
(* the code's arithmetic makes of the delays of its exchange: with up the   *)
(* time from t1 to t2 and down that from t3 to t4, both in ground time, rtt *)
(* is up + down and the offset is the true one plus (up - down) / 2.  err   *)
(* is twice that error; epoch is the air unit's boot, each Jump later than  *)
(* the one before.  The division by two is exact here.                     *)
(***************************************************************************)
EXTENDS Integers, Sequences

CONSTANTS
    Window,   \* CLOCK_SYNC_WINDOW
    MaxRtt,   \* CLOCK_SYNC_MAX_RTT_US
    Slack,    \* 5000
    Jump      \* how far a reboot moves the air unit's clock

ASSUME ClockAssumption ==
    /\ Window \in Nat \ {0} /\ MaxRtt \in Nat /\ Slack \in Nat
    /\ Jump \in Nat /\ Jump > 3 * MaxRtt + Slack

\* The sample a reply makes, with what is known of its probe beside it.
Sample(r) == [err |-> r.up - r.down, rtt |-> r.up + r.down, epoch |-> r.epoch, behind |-> r.behind]

Abs(i) == IF i < 0 THEN -i ELSE i

\* Twice the distance of two offsets.
Apart(s, t) == Abs(s.err - t.err + 2 * Jump * (s.epoch - t.epoch))

JumpedAny(s, t) == Apart(s, t) > 2 * Slack

\* No round trip explains this distance: the air clock itself jumped.
Jumped(s, t) == Apart(s, t) > 2 * (s.rtt + t.rtt + Slack)

KeptWhole(win, s) == win

\* What of the window stands beside a new sample.
Kept(win, s) == IF \E i \in DOMAIN win : Jumped(s, win[i]) THEN <<>> ELSE win

\* The new sample overwrites the oldest of a full ring.
Add(win, s) == LET w == Append(Kept(win, s), s) IN IF Len(w) > Window THEN Tail(w) ELSE w

\* clock_sync_get(): a sample of the smallest round trip.
Best(win) == CHOOSE s \in {win[i] : i \in DOMAIN win} : \A i \in DOMAIN win : s.rtt <= win[i].rtt
====
