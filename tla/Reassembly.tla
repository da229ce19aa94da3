----------------------------- MODULE Reassembly -----------------------------
(***************************************************************************)
(* The ground's frame reassembler (common/reassembly.c) as operators on    *)
(* its state record.  The buffer is the sequence of pieces appended to it, *)
(* each with the position it was copied to; write_off is the number of     *)
(* bytes they hold.                                                        *)
(***************************************************************************)
EXTENDS Chunker

CONSTANT ReasmCap   \* capacity of the reassembly buffer, rx option -b

ASSUME ReassemblyAssumption == ReasmCap \in Nat

\* A piece in the reassembly buffer, and the byte position it starts at.
Placed == [at: Nat, piece: Piece]

Reasm == [active: BOOLEAN, done: BOOLEAN, frame_seq: Nat, chunk_count: Nat,
          next_chunk_idx: Nat, frame_pts: Nat, buf: Seq(Placed), write_off: Nat,
          completed_frames: Nat, dropped_frames: Nat,
          last_bad_seq: Nat, have_last_bad_seq: BOOLEAN]

reassembly_init ==
    [active |-> FALSE, done |-> FALSE, frame_seq |-> 0, chunk_count |-> 0,
     next_chunk_idx |-> 0, frame_pts |-> 0, buf |-> << >>, write_off |-> 0,
     completed_frames |-> 0, dropped_frames |-> 0,
     last_bad_seq |-> 0, have_last_bad_seq |-> FALSE]

\* Mutant: the reset after a completed or refused frame is forgotten.
reset_Forgotten(r) == r

reassembly_reset(r) ==
    [r EXCEPT !.active = FALSE, !.done = FALSE, !.buf = << >>, !.write_off = 0,
              !.next_chunk_idx = 0]

\* Mutant: every stray chunk counts.
note_dropped_EveryChunk(r, seq) == [r EXCEPT !.dropped_frames = @ + 1]

\* Counts a dropped frame, once for a run of chunks with the same frame_seq.
note_dropped(r, seq) ==
    IF r.have_last_bad_seq /\ r.last_bad_seq = seq
    THEN r
    ELSE [r EXCEPT !.dropped_frames = @ + 1, !.last_bad_seq = seq,
                   !.have_last_bad_seq = TRUE]

\* Mutant: frame_seq is not looked at while a frame is in progress.
IsNewFrame_SeqIgnored(r, c) == ~r.active

IsNewFrame(r, c) == ~r.active \/ c.frame_seq # r.frame_seq

\* Mutant: a streamed frame without its end goes uncounted.
GiveUpStreamed_Silent(r, c) == r

\* A streamed frame whose end never came is counted when the next one starts.
GiveUpStreamed(r, c) ==
    IF IsNewFrame(r, c) /\ r.active /\ ~r.done /\ r.chunk_count = 0
    THEN note_dropped(r, r.frame_seq)
    ELSE r

StartFrame(r, c) ==
    [r EXCEPT !.active = TRUE, !.done = FALSE, !.frame_seq = c.frame_seq,
              !.chunk_count = IF c.flag = "frame_end" THEN 0 ELSE c.chunk_count,
              !.frame_pts = c.frame_pts, !.buf = << >>, !.write_off = 0,
              !.next_chunk_idx = 0]

\* Mutant: off by one in the count that ends a streamed frame.
EndsStreamed_OffByOne(r, c) ==
    r.chunk_count = 0 /\ c.flag = "frame_end" /\ c.chunk_count = c.chunk_idx

\* The chunk that ends a streamed frame brings its real chunk_count.
EndsStreamed(r, c) ==
    r.chunk_count = 0 /\ c.flag = "frame_end" /\ c.chunk_count = c.chunk_idx + 1

\* Mutant: a gap in chunk_idx goes unnoticed.
Extends_GapIgnored(r, c) ==
    /\ EndsStreamed(r, c) \/ c.chunk_count = r.chunk_count
    /\ r.write_off + c.piece.len <= ReasmCap

\* Does chunk c extend the frame in progress?
Extends(r, c) ==
    /\ c.chunk_idx = r.next_chunk_idx
    /\ EndsStreamed(r, c) \/ c.chunk_count = r.chunk_count
    /\ r.write_off + c.piece.len <= ReasmCap

AppendPiece(r, c) ==
    LET complete == EndsStreamed(r, c) \/ r.next_chunk_idx + 1 = r.chunk_count
    IN  [r EXCEPT !.buf = Append(@, [at |-> r.write_off, piece |-> c.piece]),
                  !.write_off = @ + c.piece.len,
                  !.next_chunk_idx = @ + 1, !.done = complete \/ @,
                  !.completed_frames = IF complete THEN @ + 1 ELSE @]

\* The state the frame's chunk finds: the frame in progress, or a new one.
BeforeAppend(r, c) ==
    IF IsNewFrame(r, c) THEN StartFrame(GiveUpStreamed(r, c), c) ELSE r

reassembly_feed(r, c) ==
    LET r1 == GiveUpStreamed(r, c)
        r2 == BeforeAppend(r, c)
    IN  IF IsNewFrame(r, c) /\ c.chunk_idx # 0
        THEN reassembly_reset(note_dropped(r1, c.frame_seq))
        ELSE IF ~Extends(r2, c)
        THEN reassembly_reset(note_dropped(r2, c.frame_seq))
        ELSE AppendPiece(r2, c)

=============================================================================
