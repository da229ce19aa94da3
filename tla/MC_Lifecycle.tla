---------------------------- MODULE MC_Lifecycle ----------------------------
(***************************************************************************)
(* Small instances of Lifecycle for TLC: two bandwidths, of which the chip *)
(* may fall back to either or to none, a power and a retx setting to ask   *)
(* for.                                                                    *)
(***************************************************************************)
EXTENDS Lifecycle

TwoBws   == {20, 40}
OneBw    == {20}
OnePower == {"mW25"}
OneRetx  == {"win12"}
None     == {}

=============================================================================
