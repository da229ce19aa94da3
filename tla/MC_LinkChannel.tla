--------------------------- MODULE MC_LinkChannel ---------------------------
(***************************************************************************)
(* Small instances of LinkChannel for TLC: a table of three channels with  *)
(* two equally near neighbours in the middle, and an index beyond it.      *)
(***************************************************************************)
EXTENDS LinkChannel

ThreeChannels == [c \in 0..2 |-> 5700 + 20 * c]

SomeRequests == {0, 3, ChanAuto}

=============================================================================
