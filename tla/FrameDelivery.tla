--------------------------- MODULE FrameDelivery ---------------------------
(***************************************************************************)
(* What the video path promises to the viewer, without its mechanism: the  *)
(* pictures that come out are pictures that went in, in the order of their *)
(* capture and each at most once.  Any of them may be missing: freshness   *)
(* over completeness (common/reassembly.h).                                *)
(***************************************************************************)
EXTENDS Naturals

VARIABLES
    captured,   \* pictures the encoder has started, numbered from 1
    shown,      \* the picture delivered last, 0 before the first one
    delivered   \* how many pictures were delivered

Init == captured = 0 /\ shown = 0 /\ delivered = 0

Capture == captured' = captured + 1 /\ UNCHANGED <<shown, delivered>>

\* Every delivery brings a picture younger than all before it.
Deliver ==
    /\ shown' \in (shown + 1)..captured
    /\ delivered' = delivered + 1
    /\ UNCHANGED captured

Next == Capture \/ Deliver

Spec == Init /\ [][Next]_<<captured, shown, delivered>>

=============================================================================
