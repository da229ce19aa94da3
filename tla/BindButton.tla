---- MODULE BindButton ----
(***************************************************************************)
(* lifecycle_bind_thread_main(): the physical bind button.  A press counts  *)
(* on its release and pairs; held for LongPress seconds it runs the        *)
(* longpress hook instead, while it is still held.  What a read of the     *)
(* GPIO gives is open at every read; one that fails reads as released.     *)
(***************************************************************************)
EXTENDS Naturals

CONSTANTS
    LongPress,     \* LC_BIND_LONGPRESS_S
    TicksPerSec    \* reads of the button per second

ASSUME ButtonAssumption == LongPress \in Nat \ {0} /\ TicksPerSec \in Nat \ {0}

VARIABLES
    button,   \* the thread: at, the time of the press within its second (t0), the reads since
              \* (held), longpress (long), and the hooks and pairings it caused (acts)
    stop      \* g_shutdown_requested

MaxHeld == LongPress * TicksPerSec    \* the count of held stops here

ButtonAt(at) == [button EXCEPT !.at = at]

\* The thread goes on to another state, this press being over.
PressOver(at) == [at |-> at, t0 |-> 0, held |-> 0, long |-> FALSE, acts |-> 0]

ButtonInit == button = PressOver("poll")

\* The loop's condition, before a sleep and a read.
Poll ==
    /\ button.at = "poll" /\ stop
    /\ button' = ButtonAt("gone")

\* A read, and another after the debounce: still pressed, so not a glitch.
Debounce ==
    /\ button.at = "poll" /\ ~stop
    /\ \E t0 \in 0..(TicksPerSec - 1) : button' = [PressOver("held") EXCEPT !.t0 = t0]

\* Whole seconds on the clock since the one of the press.
Elapsed(b) == (b.t0 + b.held) \div TicksPerSec

\* Still held after another sleep; the threshold is tested on whole seconds.
Reached(b) == ~b.long /\ Elapsed(b) >= LongPress

HoldOn ==
    /\ button.at = "held" /\ ~stop
    /\ LET b == [button EXCEPT !.held = IF @ < MaxHeld THEN @ + 1 ELSE @]
       IN  button' = IF Reached(b) THEN [b EXCEPT !.long = TRUE, !.acts = @ + 1] ELSE b

\* hooks.d/longpress runs in this step.
LongPressFires == button.at = "held" /\ button'.at = "held" /\ button'.long /\ ~button.long

\* The button reads released: a long press has had its hook, a short one pairs.
ReleasePairsAlways ==
    /\ button.at = "held" /\ ~stop
    /\ button' = [button EXCEPT !.at = "pair", !.acts = @ + 1]

Release ==
    /\ button.at = "held" /\ ~stop
    /\ button' = IF button.long THEN PressOver("lock") ELSE [button EXCEPT !.at = "pair", !.acts = @ + 1]

\* Shutdown while the button is held ends the thread.
HeldAtStop ==
    /\ button.at = "held" /\ stop
    /\ button' = PressOver("gone")

\* The lockout is over.
LockoutEnds ==
    /\ button.at = "lock"
    /\ button' = PressOver("poll")

ButtonStep == Poll \/ Debounce \/ HoldOn \/ Release \/ HeldAtStop \/ LockoutEnds

-----------------------------------------------------------------------------
\* lifecycle_bind.c: "held for LC_BIND_LONGPRESS_S or longer, it runs hooks.d/longpress instead
\* of pairing": a press causes one of the two and never both, a hold of that long is never taken
\* for a short one, and none shorter by a whole second for a long one.
OnePressOneAction ==
    /\ button.acts <= 1
    /\ button.at = "pair" => ~button.long /\ button.held < LongPress * TicksPerSec
    /\ button.long => button.held > (LongPress - 1) * TicksPerSec
====
