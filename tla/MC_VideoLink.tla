---------------------------- MODULE MC_VideoLink ----------------------------
(***************************************************************************)
(* Small instances of VideoLink for TLC.  A slicing lists the entries the  *)
(* encoder publishes for one frame; with ChunkPayload = 1 a length is also *)
(* a number of chunks.                                                     *)
(***************************************************************************)
EXTENDS VideoLink

Vcl(n)    == [len |-> n, vcl |-> TRUE]
NonVcl(n) == [len |-> n, vcl |-> FALSE]

\* a whole frame of one chunk, and streamed ones: parameter sets with a slice, and two slices of three chunks
MixedSlicings == {<<Vcl(1)>>, <<NonVcl(1), Vcl(1)>>, <<Vcl(1), Vcl(2)>>}

\* one too long for the buffer, one that fits, one too long for the chunker
OversizeSlicings == {<<Vcl(2), Vcl(1)>>, <<Vcl(1), Vcl(1)>>, <<Vcl(4)>>}

=============================================================================
