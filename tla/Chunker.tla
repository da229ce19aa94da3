------------------------------ MODULE Chunker ------------------------------
(***************************************************************************)
(* How the air side cuts video data into chunks (common/chunker.c, with    *)
(* the header of common/ar8030_chunk.h).                                   *)
(*                                                                         *)
(* Bytes are abstracted to pieces.  A piece names the bytes it stands for: *)
(* off .. off+len-1 of the source frame src; end says that they are the    *)
(* last bytes of that frame, vcl that they belong to a coded slice.  The   *)
(* fields epoch, no and idx are history: the tx process run, the number of *)
(* the frame in that run and the chunk index under which tx sent the       *)
(* piece.  No decision below reads them.                                   *)
(***************************************************************************)
EXTENDS Integers, Sequences

CONSTANTS
    ChunkPayload,   \* bytes of payload per chunk, tx option -c
    MaxChunkIdx     \* 0xFFFF: chunk_idx and chunk_count are uint16_t

ASSUME ChunkerAssumption ==
    /\ ChunkPayload \in Nat \ {0}
    /\ MaxChunkIdx \in Nat \ {0}

Flags == {"none", "slice_end", "frame_end"}

Piece == [src: Nat, off: Nat, len: Nat, end: BOOLEAN, vcl: BOOLEAN,
          epoch: Nat, no: Nat, idx: Nat]

Chunk == [codec: {"h265", "aux"}, frame_seq: Nat, chunk_idx: Nat, chunk_count: Nat,
          flag: Flags, frame_pts: Nat, piece: Piece]

\* One ring entry as tx reads it: a whole frame, or one slice of a frame.
Entry == [pts: Nat, off: Nat, len: Nat, partial: BOOLEAN, vcl: BOOLEAN]

\* Chunks that len bytes need; an empty frame still takes one.
ChunkCount(len) ==
    IF len = 0 THEN 1 ELSE (len + ChunkPayload - 1) \div ChunkPayload

\* The payload of chunk number i (from 0) of the n chunks of entry e.
PieceAt(e, i, n, id, idx) ==
    LET rest == e.len - i * ChunkPayload
    IN  [src |-> e.pts, off |-> e.off + i * ChunkPayload,
         len |-> IF rest > ChunkPayload THEN ChunkPayload ELSE rest,
         end |-> ~e.partial /\ i + 1 = n, vcl |-> e.vcl,
         epoch |-> id.epoch, no |-> id.no, idx |-> idx]

(***************************************************************************)
(* The chunks of one entry, numbered from first on.  Every chunk carries   *)
(* total as its chunk_count, except that with frame_end the last one       *)
(* carries the frame's real count and FRAME_END; a part that does not end  *)
(* its frame has SLICE_END on its last chunk.                              *)
(***************************************************************************)
chunk_run(seq, e, first, total, frame_end, part, id) ==
    LET n == ChunkCount(e.len)
    IN  [j \in 1..n |->
            [codec |-> "h265", frame_seq |-> seq, chunk_idx |-> first + j - 1,
             chunk_count |-> IF frame_end /\ j = n THEN first + n ELSE total,
             flag |-> IF j # n THEN "none"
                      ELSE IF frame_end THEN "frame_end"
                      ELSE IF part THEN "slice_end" ELSE "none",
             frame_pts |-> e.pts,
             piece |-> PieceAt(e, j - 1, n, id, first + j - 1)]]

\* Refused (return -1) before anything is sent or out_chunk_count is set.
TooManyChunks(e, first) == first + ChunkCount(e.len) > MaxChunkIdx

\* A frame sent whole: the real chunk_count everywhere, no end flags.
chunk_frame(seq, e, id) ==
    chunk_run(seq, e, 0, ChunkCount(e.len), FALSE, FALSE, id)

\* One slice of a frame sent while it is still being encoded.
chunk_part(seq, e, first, last, id) == chunk_run(seq, e, first, 0, last, TRUE, id)

=============================================================================
