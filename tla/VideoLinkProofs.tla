-------------------------- MODULE VideoLinkProofs --------------------------
(***************************************************************************)
(* Safety of VideoLink for every value of its constants.  First what the   *)
(* chunker and the reassembler do to one chunk or one call, for every      *)
(* payload size and buffer capacity, and the arithmetic modulo the wrap of *)
(* the 16-bit frame_seq (common/ar8030_chunk.h); then type correctness     *)
(* with one lemma per operation of the tx loop, the socket and the rx      *)
(* loop; NoMixing along the inductive invariant MixInv; FwdWithinBuffer;   *)
(* TxBalance along SliceInv; and DeliveryInOrder and MarkerExact along     *)
(* OrderInv.                                                               *)
(*                                                                         *)
(* Then what a frame the receiver completes holds.  ContentInv follows the *)
(* bytes: the entries of the ring are cut without a hole, and the chunks   *)
(* of a frame go on where the previous one ended, from the chunker through *)
(* the socket to the buffer.  It gives PictureIntegrity.  DropInv follows  *)
(* the chunks: those of a frame in flight are in order, behind the ones    *)
(* seen, all stating how it ends, and the buffer holds the frame heard     *)
(* last as far as it came in.  It gives NoFalseDrop.  Together they are    *)
(* CompletesExactly.  StartOnce and SentInv follow what rx sends on: the   *)
(* start of a source frame goes by once, and what went out under a         *)
(* timestamp is the buffer up to fwd_off.  They give OutputFaithful.       *)
(* OverInv says when a frame is over, and CounterInv follows the frames    *)
(* seen and completed beside the counters of rx.  It gives CountersExact.  *)
(***************************************************************************)
EXTENDS VideoLink, FiniteSetTheorems, TLAPS

-----------------------------------------------------------------------------
(* Arithmetic modulo M *)

\* Quotient and remainder, in the form the frame_seq lemmas use.
LEMMA DivMod ==
  ASSUME NEW a \in Nat, NEW M \in Nat \ {0}
  PROVE  /\ a % M \in 0..(M-1)
         /\ \E q \in Nat : a = M * q + (a % M)
<1>1. a \div M \in Nat /\ a % M \in 0..(M-1) /\ a = M * (a \div M) + (a % M)
  OBVIOUS
<1> QED BY <1>1, Zenon

\* A larger quotient is larger by a whole modulus at least.
LEMMA TimesMono ==
  ASSUME NEW M \in Nat \ {0}, NEW p \in Nat, NEW q \in Nat, p < q
  PROVE  M * p + M <= M * q
<1>1. PICK d \in Nat : q = p + 1 + d
  <2>1. q - p - 1 \in Nat OBVIOUS
  <2> QED BY <2>1
<1>2. M * q = M * p + M + M * d
  BY <1>1
<1>3. M * d \in Nat OBVIOUS
<1> QED BY <1>2, <1>3

\* The remainder is the only number below M that fits: how NextSeq is computed.
LEMMA ModUnique ==
  ASSUME NEW a \in Nat, NEW M \in Nat \ {0}, NEW q \in Nat, NEW x \in 0..(M-1),
         a = M * q + x
  PROVE  a % M = x
<1>1. PICK p \in Nat : a = M * p + (a % M)  BY DivMod
<1>2. a % M \in 0..(M-1)  BY DivMod
<1>3. M * p \in Nat /\ M * q \in Nat OBVIOUS
<1>4. ~(p < q)  BY <1>1, <1>2, <1>3, TimesMono
<1>5. ~(q < p)  BY <1>1, <1>2, <1>3, TimesMono
<1>6. p = q BY <1>4, <1>5
<1> QED BY <1>1, <1>2, <1>3, <1>6

\* Two frame numbers less than a wrap apart with one frame_seq are the same: what
\* makes comparing 16-bit frame_seq in reassembly.c enough.
LEMMA ModSame ==
  ASSUME NEW a \in Nat, NEW b \in Nat, NEW M \in Nat \ {0}, a <= b, b - a < M, a % M = b % M
  PROVE  a = b
<1>1. PICK p \in Nat : a = M * p + (a % M)  BY DivMod
<1>2. PICK q \in Nat : b = M * q + (b % M)  BY DivMod
<1>3. M * p \in Nat /\ M * q \in Nat /\ a % M \in Nat BY DivMod
<1>4. ~(p < q)  BY <1>1, <1>2, <1>3, TimesMono
<1>5. ~(q < p)  BY <1>1, <1>2, <1>3, TimesMono
<1>6. p = q BY <1>4, <1>5
<1> QED BY <1>1, <1>2, <1>6

\* Incrementing the wrapped number is wrapping the incremented one (uint16_t ++).
LEMMA ModSucc ==
  ASSUME NEW a \in Nat, NEW M \in Nat \ {0}
  PROVE  ((a % M) + 1) % M = (a + 1) % M
<1>1. PICK p \in Nat : a = M * p + (a % M)  BY DivMod
<1>2. PICK x \in 0..(M-1) : x = a % M  BY DivMod
<1>3. CASE x + 1 < M
  <2>1. (x + 1) % M = x + 1
    <3>1. x + 1 \in 0..(M-1) /\ x + 1 \in Nat /\ x + 1 = M * 0 + (x + 1) BY <1>3
    <3> QED BY <3>1, ModUnique
  <2>2. a + 1 = M * p + (x + 1) /\ x + 1 \in 0..(M-1) /\ a + 1 \in Nat
    BY <1>1, <1>2, <1>3
  <2>3. (a + 1) % M = x + 1 BY <2>2, ModUnique
  <2> QED BY <1>2, <2>1, <2>3
<1>4. CASE x + 1 = M
  <2>1. M % M = 0
    <3>1. 0 \in 0..(M-1) /\ 1 \in Nat /\ M \in Nat /\ M = M * 1 + 0 OBVIOUS
    <3> QED BY <3>1, ModUnique
  <2>2. a + 1 = M * (p + 1) + 0 /\ p + 1 \in Nat /\ 0 \in 0..(M-1) /\ a + 1 \in Nat
    BY <1>1, <1>2, <1>4
  <2>3. (a + 1) % M = 0 BY <2>2, ModUnique
  <2> QED BY <1>2, <1>4, <2>1, <2>3
<1> QED BY <1>3, <1>4

-----------------------------------------------------------------------------
(* Chunks and buffers *)

\* chunker.c:23-27: at least one chunk per entry, and every chunk but the first
\* starts inside the entry (i * payload never passes its length).
LEMMA ChunkCountFacts ==
  ASSUME NEW len \in Nat
  PROVE  /\ ChunkCount(len) \in Nat \ {0}
         /\ \A i \in Nat : i < ChunkCount(len) => i * ChunkPayload <= len
<1> USE ChunkerAssumption
<1>1. CASE len = 0
  BY <1>1 DEF ChunkCount
<1>2. CASE len # 0
  <2> DEFINE a == len + ChunkPayload - 1
             n == a \div ChunkPayload
  <2>1. a \in Nat /\ a >= ChunkPayload  BY <1>2
  <2>2. n \in Nat /\ ChunkPayload * n <= a /\ a < ChunkPayload * n + ChunkPayload
    <3> HIDE DEF a
    <3> QED BY <2>1
  <2>3. ChunkCount(len) = n  BY <1>2 DEF ChunkCount
  <2> HIDE DEF n
  <2>4. n # 0  BY <2>1, <2>2
  <2>5. ASSUME NEW i \in Nat, i < n PROVE i * ChunkPayload <= len
    <3>1. ChunkPayload * i + ChunkPayload <= ChunkPayload * n  BY <2>2, <2>5, TimesMono
    <3>2. ChunkPayload * i \in Nat /\ ChunkPayload * n \in Nat /\ i * ChunkPayload = ChunkPayload * i
      BY <2>2
    <3> QED BY <2>2, <3>1, <3>2
  <2> QED BY <2>2, <2>3, <2>4, <2>5
<1> QED BY <1>1, <1>2

\* The payload pointer and length of a chunk (chunker.c:46-52) are inside the entry,
\* and the history fields are the ones given.
LEMMA PieceType ==
  ASSUME NEW e \in Entry, NEW i \in Nat, i < ChunkCount(e.len), NEW n \in Nat,
         NEW id \in [epoch: Nat, no: Nat], NEW idx \in Nat
  PROVE  /\ PieceAt(e, i, n, id, idx) \in Piece
         /\ PieceAt(e, i, n, id, idx).epoch = id.epoch
         /\ PieceAt(e, i, n, id, idx).no = id.no
         /\ PieceAt(e, i, n, id, idx).idx = idx
<1> USE ChunkerAssumption
<1>1. e.len \in Nat /\ e.off \in Nat /\ e.pts \in Nat /\ e.vcl \in BOOLEAN /\ e.partial \in BOOLEAN
  BY DEF Entry
<1>2. i * ChunkPayload <= e.len /\ i * ChunkPayload \in Nat  BY <1>1, ChunkCountFacts
<1>3. e.off + i * ChunkPayload \in Nat /\ e.len - i * ChunkPayload \in Nat  BY <1>1, <1>2
<1> HIDE ChunkerAssumption
<1> QED BY ChunkerAssumption, <1>1, <1>3 DEF PieceAt, Piece

\* The headers of run s carry frame_seq seq and agree with their pieces, which
\* are of frame id.
RunStamped(s, seq, id) ==
    \A i \in DOMAIN s :
        /\ s[i].codec = "h265" /\ s[i].frame_seq = seq
        /\ s[i].chunk_idx = s[i].piece.idx
        /\ s[i].piece.epoch = id.epoch /\ s[i].piece.no = id.no

\* chunk_run() emits well-formed chunks of one frame_seq.
LEMMA RunType ==
  ASSUME NEW seq \in Nat, NEW e \in Entry, NEW first \in Nat, NEW total \in Nat,
         NEW frame_end \in BOOLEAN, NEW part \in BOOLEAN, NEW id \in [epoch: Nat, no: Nat]
  PROVE  /\ chunk_run(seq, e, first, total, frame_end, part, id) \in Seq(Chunk)
         /\ RunStamped(chunk_run(seq, e, first, total, frame_end, part, id), seq, id)
<1> DEFINE n == ChunkCount(e.len)
           run == chunk_run(seq, e, first, total, frame_end, part, id)
<1>1. e.len \in Nat /\ e.pts \in Nat  BY DEF Entry
<1>2. n \in Nat \ {0}  BY <1>1, ChunkCountFacts
<1>3. run = [j \in 1..n |-> run[j]]  BY DEF chunk_run
<1>4. ASSUME NEW j \in 1..n
      PROVE  /\ run[j] \in Chunk
             /\ run[j].codec = "h265" /\ run[j].frame_seq = seq
             /\ run[j].chunk_idx = run[j].piece.idx
             /\ run[j].piece.epoch = id.epoch /\ run[j].piece.no = id.no
  <2> DEFINE p == PieceAt(e, j - 1, n, id, first + j - 1)
  <2>1. j - 1 \in Nat /\ j - 1 < n /\ first + j - 1 \in Nat /\ first + n \in Nat  BY <1>2
  <2>2. p \in Piece /\ p.epoch = id.epoch /\ p.no = id.no /\ p.idx = first + j - 1
    BY <1>2, <2>1, PieceType
  <2>3. run[j] = [codec |-> "h265", frame_seq |-> seq, chunk_idx |-> first + j - 1,
             chunk_count |-> IF frame_end /\ j = n THEN first + n ELSE total,
             flag |-> IF j # n THEN "none"
                      ELSE IF frame_end THEN "frame_end"
                      ELSE IF part THEN "slice_end" ELSE "none",
             frame_pts |-> e.pts, piece |-> p]
    BY DEF chunk_run
  <2> HIDE DEF p, run, n
  <2> QED BY <1>1, <2>1, <2>2, <2>3 DEF Chunk, Flags
<1> HIDE DEF run, n
<1>5. run \in Seq(Chunk)
  BY <1>2, <1>3, <1>4
<1>6. DOMAIN run = 1..n  BY <1>3
<1> QED BY <1>4, <1>5, <1>6 DEF run, RunStamped

\* ar8030_chunk_part() emits well-formed chunks of one frame_seq.
LEMMA PartFacts ==
  ASSUME NEW seq \in Nat, NEW e \in Entry, NEW first \in Nat, NEW last \in BOOLEAN,
         NEW id \in [epoch: Nat, no: Nat]
  PROVE  /\ chunk_part(seq, e, first, last, id) \in Seq(Chunk)
         /\ RunStamped(chunk_part(seq, e, first, last, id), seq, id)
  BY RunType DEF chunk_part

\* ar8030_chunk_frame() emits well-formed chunks of one frame_seq.
LEMMA FrameFacts ==
  ASSUME NEW seq \in Nat, NEW e \in Entry, NEW id \in [epoch: Nat, no: Nat]
  PROVE  /\ chunk_frame(seq, e, id) \in Seq(Chunk)
         /\ RunStamped(chunk_frame(seq, e, id), seq, id)
<1>1. ChunkCount(e.len) \in Nat  BY ChunkCountFacts DEF Entry
<1> QED BY <1>1, RunType DEF chunk_frame

\* note_dropped() touches the drop statistics only.
LEMMA NoteDroppedFacts ==
  ASSUME NEW q \in Reasm, NEW seq \in Nat
  PROVE  /\ note_dropped(q, seq) \in Reasm
         /\ note_dropped(q, seq).completed_frames = q.completed_frames
<1> DEFINE p == [q EXCEPT !.dropped_frames = q.dropped_frames + 1, !.last_bad_seq = seq,
                          !.have_last_bad_seq = TRUE]
<1>1. note_dropped(q, seq) \in {q, p}  BY DEF note_dropped
<1>2. q.dropped_frames + 1 \in Nat  BY DEF Reasm
<1>3. p \in Reasm /\ p.completed_frames = q.completed_frames  BY <1>2 DEF Reasm
<1> HIDE DEF p
<1> QED BY <1>1, <1>3

\* reassembly_reset() leaves no frame in progress and keeps the counters.
LEMMA ResetFacts ==
  ASSUME NEW q \in Reasm
  PROVE  /\ reassembly_reset(q) \in Reasm
         /\ ~reassembly_reset(q).active
         /\ reassembly_reset(q).completed_frames = q.completed_frames
<1>1. << >> \in Seq(Placed)  OBVIOUS
<1> QED BY <1>1 DEF reassembly_reset, Reasm

\* Giving up a streamed frame completes nothing.
LEMMA GiveUpFacts ==
  ASSUME NEW q \in Reasm, NEW c \in Chunk
  PROVE  /\ GiveUpStreamed(q, c) \in Reasm
         /\ GiveUpStreamed(q, c).completed_frames = q.completed_frames
<1>1. q.frame_seq \in Nat  BY DEF Reasm
<1> QED BY <1>1, NoteDroppedFacts DEF GiveUpStreamed

\* Starting a frame (reassembly.c:55-65) empties the buffer and takes the chunk's
\* frame_seq.
LEMMA StartFrameFacts ==
  ASSUME NEW q \in Reasm, NEW c \in Chunk
  PROVE  /\ StartFrame(q, c) \in Reasm
         /\ StartFrame(q, c).completed_frames = q.completed_frames
         /\ StartFrame(q, c).active /\ StartFrame(q, c).frame_seq = c.frame_seq
         /\ StartFrame(q, c).buf = << >> /\ StartFrame(q, c).write_off = 0
         /\ StartFrame(q, c).next_chunk_idx = 0
<1>1. << >> \in Seq(Placed)  OBVIOUS
<1>2. c.frame_seq \in Nat /\ c.chunk_count \in Nat /\ c.frame_pts \in Nat  BY DEF Chunk
<1>3. (IF c.flag = "frame_end" THEN 0 ELSE c.chunk_count) \in Nat  BY <1>2
<1> QED BY <1>1, <1>2, <1>3 DEF StartFrame, Reasm

\* Appending (reassembly.c:93-101) adds exactly the chunk's payload at write_off and
\* completes at most one frame.
LEMMA AppendFacts ==
  ASSUME NEW q \in Reasm, NEW c \in Chunk
  PROVE  LET p == AppendPiece(q, c)
         IN  /\ p \in Reasm
             /\ p.completed_frames \in {q.completed_frames, q.completed_frames + 1}
             /\ p.active = q.active /\ p.frame_seq = q.frame_seq
             /\ p.next_chunk_idx = q.next_chunk_idx + 1
             /\ p.write_off = q.write_off + c.piece.len
             /\ p.buf = Append(q.buf, [at |-> q.write_off, piece |-> c.piece])
<1>1. c.piece \in Piece /\ c.piece.len \in Nat  BY DEF Chunk, Piece
<1>2. q.write_off \in Nat /\ q.buf \in Seq(Placed) /\ q.next_chunk_idx \in Nat
      /\ q.completed_frames \in Nat /\ q.done \in BOOLEAN
  BY DEF Reasm
<1>3. [at |-> q.write_off, piece |-> c.piece] \in Placed  BY <1>1, <1>2 DEF Placed
<1> DEFINE b == Append(q.buf, [at |-> q.write_off, piece |-> c.piece])
           w == q.write_off + c.piece.len
           x == q.next_chunk_idx + 1
           complete == EndsStreamed(q, c) \/ q.next_chunk_idx + 1 = q.chunk_count
           d == complete \/ q.done
           f == IF complete THEN q.completed_frames + 1 ELSE q.completed_frames
<1>4. b \in Seq(Placed) /\ w \in Nat /\ x \in Nat /\ d \in BOOLEAN /\ f \in Nat
      /\ f \in {q.completed_frames, q.completed_frames + 1}
  <2>1. complete \in BOOLEAN  BY DEF EndsStreamed
  <2> HIDE DEF complete
  <2> QED BY <1>1, <1>2, <1>3, <2>1
<1>5. AppendPiece(q, c) = [q EXCEPT !.buf = b, !.write_off = w, !.next_chunk_idx = x,
                                    !.done = d, !.completed_frames = f]
  BY DEF AppendPiece
<1> HIDE DEF b, w, x, d, f, complete
<1>6. AppendPiece(q, c) \in Reasm  BY <1>4, <1>5 DEF Reasm
<1>7. /\ AppendPiece(q, c).completed_frames = f /\ AppendPiece(q, c).active = q.active
      /\ AppendPiece(q, c).frame_seq = q.frame_seq /\ AppendPiece(q, c).next_chunk_idx = x
      /\ AppendPiece(q, c).write_off = w /\ AppendPiece(q, c).buf = b
  BY <1>5 DEF Reasm
<1> QED BY <1>4, <1>6, <1>7 DEF b, w, x

(***************************************************************************)
(* What feeding a chunk can do: refuse it, leaving nothing in progress;    *)
(* start a frame with it; or extend the frame in progress by it.           *)
(***************************************************************************)
Refuses(q, p) == ~p.active /\ p.completed_frames = q.completed_frames
Takes(q, c, p) ==
    /\ p.active /\ p.frame_seq = c.frame_seq /\ p.next_chunk_idx = c.chunk_idx + 1
    /\ \/ /\ c.chunk_idx = 0
          /\ p.buf = <<[at |-> 0, piece |-> c.piece]>>
       \/ /\ q.active /\ q.frame_seq = c.frame_seq /\ q.next_chunk_idx = c.chunk_idx
          /\ p.buf = Append(q.buf, [at |-> q.write_off, piece |-> c.piece])
          /\ p.write_off = q.write_off + c.piece.len

\* reassembly_feed() either refuses the chunk and leaves nothing in progress, or takes
\* it as chunk 0 of an empty buffer or as the very next chunk of the frame in progress.
THEOREM FeedFacts ==
  ASSUME NEW q \in Reasm, NEW c \in Chunk
  PROVE  LET p == reassembly_feed(q, c)
         IN  /\ p \in Reasm
             /\ p.completed_frames \in {q.completed_frames, q.completed_frames + 1}
             /\ Refuses(q, p) \/ Takes(q, c, p)
<1> DEFINE r1 == GiveUpStreamed(q, c)
           r2 == BeforeAppend(q, c)
           p  == reassembly_feed(q, c)
<1>1. c.frame_seq \in Nat /\ c.chunk_idx \in Nat  BY DEF Chunk
<1>2. r1 \in Reasm /\ r1.completed_frames = q.completed_frames  BY GiveUpFacts
<1>3. r2 \in Reasm /\ r2.completed_frames = q.completed_frames
  BY <1>2, StartFrameFacts DEF BeforeAppend
<1>4. CASE IsNewFrame(q, c) /\ c.chunk_idx # 0
  <2>1. p = reassembly_reset(note_dropped(r1, c.frame_seq))
    BY <1>4 DEF reassembly_feed
  <2> HIDE DEF p, r1
  <2> QED BY <1>1, <1>2, <2>1, NoteDroppedFacts, ResetFacts DEF Refuses, p
<1>5. CASE ~(IsNewFrame(q, c) /\ c.chunk_idx # 0) /\ ~Extends(r2, c)
  <2>1. p = reassembly_reset(note_dropped(r2, c.frame_seq))
    BY <1>5 DEF reassembly_feed
  <2> HIDE DEF p, r2
  <2> QED BY <1>1, <1>3, <2>1, NoteDroppedFacts, ResetFacts DEF Refuses, p
<1>6. CASE ~(IsNewFrame(q, c) /\ c.chunk_idx # 0) /\ Extends(r2, c)
  <2>1. p = AppendPiece(r2, c)
    BY <1>6 DEF reassembly_feed
  <2>2. r2.next_chunk_idx = c.chunk_idx  BY <1>6 DEF Extends
  <2>3. /\ p \in Reasm
        /\ p.completed_frames \in {q.completed_frames, q.completed_frames + 1}
        /\ p.active = r2.active /\ p.frame_seq = r2.frame_seq
        /\ p.next_chunk_idx = c.chunk_idx + 1
        /\ p.write_off = r2.write_off + c.piece.len
        /\ p.buf = Append(r2.buf, [at |-> r2.write_off, piece |-> c.piece])
    <3> HIDE DEF p, r2
    <3> QED BY <1>3, <2>1, <2>2, AppendFacts
  <2>4. CASE IsNewFrame(q, c)
    <3>1. r2 = StartFrame(r1, c)  BY <2>4 DEF BeforeAppend
    <3>2. r2.active /\ r2.frame_seq = c.frame_seq /\ r2.buf = << >> /\ r2.write_off = 0
      <4> HIDE DEF r1, r2
      <4> QED BY <1>2, <3>1, StartFrameFacts
    <3>3. p.buf = <<[at |-> 0, piece |-> c.piece]>>  
      <4> HIDE DEF p, r2
      <4> QED BY <2>3, <3>2
    <3> HIDE DEF p, r2
    <3> QED BY <1>6, <2>3, <2>4, <3>2, <3>3 DEF Takes, p
  <2>5. CASE ~IsNewFrame(q, c)
    <3>1. r2 = q  BY <2>5 DEF BeforeAppend
    <3>2. q.active /\ q.frame_seq = c.frame_seq  BY <2>5 DEF IsNewFrame
    <3> HIDE DEF p, r2
    <3> QED BY <2>2, <2>3, <3>1, <3>2 DEF Takes, p
  <2> QED BY <2>4, <2>5
<1> QED BY <1>4, <1>5, <1>6

-----------------------------------------------------------------------------
(* The operations of the two loops *)

\* Sequence facts the queue-like variables ring, link and call.run need.
LEMMA SeqFacts ==
  ASSUME NEW S, NEW s \in Seq(S)
  PROVE  /\ s # << >> => Head(s) \in S /\ Tail(s) \in Seq(S) /\ Len(s) \in Nat \ {0}
         /\ s # << >> => Len(Tail(s)) = Len(s) - 1
         /\ s # << >> => \A i \in 1..(Len(s) - 1) : Tail(s)[i] = s[i + 1]
         /\ s # << >> => Head(s) = s[1]
         /\ s = << >> <=> Len(s) = 0
         /\ \A i \in DOMAIN s : s[i] \in S
         /\ DOMAIN s = 1..Len(s)
         /\ \A e \in S : Append(s, e) \in Seq(S)
  OBVIOUS

\* stage_outq() puts well-formed chunks of another codec on the socket.
LEMMA AuxFacts ==
  ASSUME NEW n \in Nat
  PROVE  /\ AuxChunks(n) \in Seq(Chunk) /\ Len(AuxChunks(n)) = n
         /\ \A i \in 1..n : AuxChunks(n)[i].codec = "aux"
<1>1. AuxChunk \in Chunk /\ AuxChunk.codec = "aux"  BY DEF AuxChunk, Chunk, Piece, Flags
<1> HIDE DEF AuxChunk
<1> QED BY <1>1 DEF AuxChunks

\* The assumptions on the wrap, the outage and the SEI that the steps use.
LEMMA Constants ==
  /\ SeqMod \in Nat \ {0} /\ BackoffAfter \in Nat \ {0} /\ OutqDepth \in Nat \ {0}
  /\ MaxOutage \in Nat /\ MaxOutage < SeqMod /\ LossJump \in Nat /\ LossJump <= SeqMod /\ SeiLen \in Nat
  BY VideoLinkAssumption

\* frame_seq stays a uint16_t, and counts frames modulo its wrap.
LEMMA NextSeqFacts ==
  ASSUME NEW q \in Nat
  PROVE  /\ NextSeq(q) \in 0..(SeqMod - 1)
         /\ NextSeq(q % SeqMod) = (q + 1) % SeqMod
<1>1. q + 1 \in Nat /\ SeqMod \in Nat \ {0}  BY Constants
<1> QED BY <1>1, DivMod, ModSucc DEF NextSeq

\* Start-up establishes the types.
LEMMA InitType == Init => TypeOK
<1> USE Constants
<1> SUFFICES ASSUME Init PROVE TypeOK  OBVIOUS
<1>1. EncTypes  BY DEF Init, EncTypes
<1>2. TxTypes  BY DEF Init, TxTypes, NoFrame, NoCall
<1>3. RxTypes
  <2>1. << >> \in Seq(Placed) /\ << >> \in Seq(Piece)  OBVIOUS
  <2>2. reassembly_init \in Reasm  BY <2>1 DEF reassembly_init, Reasm
  <2> QED BY <2>1, <2>2 DEF Init, RxTypes
<1>4. HistTypes  BY DEF Init, HistTypes, Id
<1> QED BY <1>1, <1>2, <1>3, <1>4 DEF TypeOK

\* A ring write keeps the types, with room in the ring or without.
LEMMA PublishType ==
  ASSUME TypeOK, NEW pts \in Nat, NEW rest \in Seq([len: Nat, vcl: BOOLEAN]), rest # << >>,
         NEW off \in Nat, Publish(pts, rest, off)
  PROVE  TypeOK'
<1>1. EncTypes'
  <2>1. Head(rest) \in [len: Nat, vcl: BOOLEAN] /\ Tail(rest) \in Seq([len: Nat, vcl: BOOLEAN])
    BY SeqFacts
  <2> DEFINE e == [pts |-> pts, off |-> off, len |-> Head(rest).len,
                   partial |-> Len(rest) > 1, vcl |-> Head(rest).vcl]
  <2>2. e \in Entry  BY <2>1 DEF Entry
  <2>3. off + Head(rest).len \in Nat  BY <2>1
  <2>4. << >> \in Seq([len: Nat, vcl: BOOLEAN])  OBVIOUS
  <2>5. ring \in Seq(Entry) /\ enc_off \in Nat  BY DEF TypeOK, EncTypes
  <2>6. encoded' = pts BY DEF Publish
  <2>7. \/ ring' = Append(ring, e) /\ slices' = Tail(rest) /\ enc_off' = off + Head(rest).len
        \/ slices' = << >> /\ ring' = ring /\ enc_off' = enc_off
    BY DEF Publish
  <2> HIDE DEF e
  <2>8. Append(ring, e) \in Seq(Entry)  BY <2>2, <2>5
  <2> QED BY <2>1, <2>3, <2>4, <2>5, <2>6, <2>7, <2>8 DEF EncTypes
<1>2. TxTypes'  BY DEF TypeOK, Publish, TxTypes, txVars, auxVars
<1>3. RxTypes'  BY DEF TypeOK, Publish, RxTypes, rxVars
<1>4. HistTypes'  BY DEF TypeOK, Publish, HistTypes, histVars
<1> QED BY <1>1, <1>2, <1>3, <1>4 DEF TypeOK

\* Every step of the encoder and of the outq's producers keeps the types.
LEMMA EncoderType ==
  ASSUME TypeOK, EncodeFrame \/ EncodeSlice \/ EncoderRestart \/ OutqPush
  PROVE  TypeOK'
<1>1. CASE EncodeFrame
  <2>1. PICK s \in Slicings : Publish(encoded + 1, s, 0)  BY <1>1 DEF EncodeFrame
  <2>2. s \in Seq([len: Nat, vcl: BOOLEAN]) /\ s # << >>  BY VideoLinkAssumption
  <2>3. encoded + 1 \in Nat  BY DEF TypeOK, EncTypes
  <2> QED BY <2>1, <2>2, <2>3, PublishType
<1>2. CASE EncodeSlice
  BY <1>2, PublishType DEF EncodeSlice, TypeOK, EncTypes
<1>3. CASE EncoderRestart
  <2>1. EncTypes'
    <3>1. << >> \in Seq([len: Nat, vcl: BOOLEAN])  OBVIOUS
    <3> QED BY <1>3, <3>1 DEF EncoderRestart, TypeOK, EncTypes
  <2>2. TxTypes'  BY <1>3 DEF TypeOK, EncoderRestart, TxTypes, txVars, auxVars
  <2>3. RxTypes'  BY <1>3 DEF TypeOK, EncoderRestart, RxTypes, rxVars
  <2>4. HistTypes'  BY <1>3 DEF TypeOK, EncoderRestart, HistTypes, histVars
  <2> QED BY <2>1, <2>2, <2>3, <2>4 DEF TypeOK
<1>4. CASE OutqPush
  <2>1. EncTypes'  BY <1>4 DEF TypeOK, OutqPush, EncTypes, encVars
  <2>2. TxTypes'
    <3>1. outq' \in 0..OutqDepth /\ aux_pushed' \in Nat
      BY <1>4, Constants DEF TypeOK, OutqPush, TxTypes
    <3> QED BY <1>4, <3>1 DEF TypeOK, OutqPush, TxTypes, txVars
  <2>3. RxTypes'  BY <1>4 DEF TypeOK, OutqPush, RxTypes, rxVars
  <2>4. HistTypes'  BY <1>4 DEF TypeOK, OutqPush, HistTypes, histVars
  <2> QED BY <2>1, <2>2, <2>3, <2>4 DEF TypeOK
<1> QED BY <1>1, <1>2, <1>3, <1>4

(***************************************************************************)
(* The tx main loop.                                                       *)
(***************************************************************************)
\* Reading a ring entry (tx/main.c:1170-1244) keeps the types.
LEMMA TxReadType ==
  ASSUME TypeOK, TxRead
  PROVE  TypeOK'
<1> DEFINE e       == Head(ring)
           stale   == Overtakes(e)
           open    == sf.open /\ ~stale
           stream  == e.partial \/ open
           no      == IF stale THEN frame_no + 1 ELSE frame_no
           seq     == IF stale THEN NextSeq(frame_seq) ELSE frame_seq
           f       == IF open THEN sf
                      ELSE IF stream THEN [NoFrame EXCEPT !.open = TRUE, !.pts = e.pts]
                      ELSE [sf EXCEPT !.open = FALSE]
           first   == IF stream THEN f.next_idx ELSE 0
           run     == IF stream THEN chunk_part(seq, e, first, ~e.partial, Id(epoch, no))
                      ELSE chunk_frame(seq, e, Id(epoch, no))
<1>1. ring \in Seq(Entry) /\ ring # << >>  BY DEF TypeOK, EncTypes, TxRead
<1>2. e \in Entry /\ Tail(ring) \in Seq(Entry)  BY <1>1, SeqFacts
<1>3. e.pts \in Nat /\ e.len \in Nat /\ e.partial \in BOOLEAN  BY <1>2 DEF Entry
<1>4. sf \in [open: BOOLEAN, failed: BOOLEAN, pts: Nat, next_idx: Nat, sent: Nat]
      /\ epoch \in Nat /\ frame_no \in Nat /\ frame_seq \in 0..(SeqMod - 1)
  BY DEF TypeOK, TxTypes
<1>5. stale \in BOOLEAN /\ open \in BOOLEAN /\ stream \in BOOLEAN /\ (~e.partial) \in BOOLEAN
  BY <1>3, <1>4 DEF Overtakes
<1>6. no \in Nat  BY <1>4
<1>7. seq \in 0..(SeqMod - 1)
  <2>1. NextSeq(frame_seq) \in 0..(SeqMod - 1)
    <3>1. frame_seq \in Nat  BY <1>4, Constants
    <3> QED BY <3>1, NextSeqFacts
  <2> QED BY <1>4, <2>1
<1>8. f \in [open: BOOLEAN, failed: BOOLEAN, pts: Nat, next_idx: Nat, sent: Nat]
  BY <1>3, <1>4 DEF NoFrame
<1>9. first \in Nat  BY <1>8
<1>10. run \in Seq(Chunk)
  <2>1. Id(epoch, no) \in [epoch: Nat, no: Nat]  BY <1>4, <1>6 DEF Id
  <2>3. seq \in Nat  BY <1>7, Constants
  <2> HIDE DEF e, seq, no, first, stream
  <2>4. chunk_part(seq, e, first, ~e.partial, Id(epoch, no)) \in Seq(Chunk)
    BY <1>2, <1>5, <1>9, <2>1, <2>3, PartFacts
  <2>5. chunk_frame(seq, e, Id(epoch, no)) \in Seq(Chunk)
    BY <1>2, <2>1, <2>3, FrameFacts
  <2> QED BY <2>4, <2>5
<1>11. EncTypes'
  <2>1. ring' = Tail(ring) /\ UNCHANGED encVars  BY DEF TxRead
  <2> QED BY <1>2, <2>1 DEF EncTypes, TypeOK, encVars
<1>12. TxTypes'
  <2>1. /\ frame_no' = no /\ frame_seq' = seq /\ sf' = f
        /\ stats' = [stats EXCEPT !.incomplete = IF stale THEN @ + 1 ELSE @,
                                  !.in = IF open THEN @ ELSE @ + 1]
        /\ last_write_ret' = IF open THEN last_write_ret ELSE 0
        /\ UNCHANGED <<epoch, dead_writes, stalls, auxVars, reconnects, link>>
    BY DEF TxRead
  <2>2. call' \in [kind: {"none", "part", "frame"}, partial: BOOLEAN, run: Seq(Chunk),
                  n: Nat, s: Nat \cup {-1}]
    <3> DEFINE refused == TooManyChunks(e, first)
               none == (stream /\ f.failed) \/ refused
    <3>1. call' = [kind |-> IF stream THEN "part" ELSE "frame", partial |-> e.partial,
                   run |-> IF none THEN << >> ELSE run,
                   n |-> IF none THEN 0 ELSE ChunkCount(e.len),
                   s |-> IF refused /\ ~(stream /\ f.failed) THEN -1 ELSE 0]
      BY DEF TxRead
    <3>2. ChunkCount(e.len) \in Nat  BY <1>3, ChunkCountFacts
    <3>3. << >> \in Seq(Chunk)  OBVIOUS
    <3> HIDE DEF none, refused, run, stream, e
    <3> QED BY <1>3, <1>10, <3>1, <3>2, <3>3
  <2>3. stats' \in [in: Nat, complete: Nat, incomplete: Nat]
    <3>1. stats \in [in: Nat, complete: Nat, incomplete: Nat]  BY DEF TypeOK, TxTypes
    <3>2. stats.in \in Nat /\ stats.incomplete \in Nat  BY <3>1
    <3> DEFINE a == IF stale THEN stats.incomplete + 1 ELSE stats.incomplete
               b == IF open THEN stats.in ELSE stats.in + 1
    <3>3. a \in Nat /\ b \in Nat
      <4> HIDE DEF stale, open
      <4> QED BY <3>2
    <3>4. stats' = [stats EXCEPT !.incomplete = a, !.in = b]  BY <2>1
    <3> HIDE DEF a, b
    <3> QED BY <3>1, <3>3, <3>4
  <2>4. last_write_ret' \in {-1, 0}
    <3> HIDE DEF open
    <3> QED BY <2>1 DEF TypeOK, TxTypes
  <2> HIDE DEF f, no, seq
  <2> QED BY <1>6, <1>7, <1>8, <2>1, <2>2, <2>3, <2>4 DEF TypeOK, TxTypes, auxVars
<1>13. RxTypes'  BY DEF TypeOK, TxRead, RxTypes, rxVars
<1>14. HistTypes'  BY DEF TypeOK, TxRead, HistTypes, histVars
<1> QED BY <1>11, <1>12, <1>13, <1>14 DEF TypeOK

\* Writing to the socket (tx/main.c:418-536), with success or not, keeps the types.
LEMMA TxWriteType ==
  ASSUME TypeOK, TxWrite \/ TxWriteFails \/ TxTimeout
  PROVE  TypeOK'
<1>1. call.run \in Seq(Chunk) /\ link \in Seq(Chunk) /\ outq \in Nat /\ 0 \in 0..OutqDepth
  BY Constants DEF TypeOK, TxTypes
<1>2. \A j \in 0..outq : link \o AuxChunks(j) \in Seq(Chunk)
  <2> SUFFICES ASSUME NEW j \in 0..outq PROVE link \o AuxChunks(j) \in Seq(Chunk)  OBVIOUS
  <2>1. AuxChunks(j) \in Seq(Chunk)  BY <1>1, AuxFacts
  <2> QED BY <1>1, <2>1
<1>3. CASE TxWrite
  <2>1. /\ link' = link \o AuxChunks(outq) \o <<Head(call.run)>>
        /\ outq' = 0
        /\ call' = [call EXCEPT !.run = Tail(@), !.s = @ + 1]
        /\ call.run # << >>
    BY <1>3 DEF TxWrite
  <2>2. Head(call.run) \in Chunk /\ Tail(call.run) \in Seq(Chunk)  BY <1>1, <2>1, SeqFacts
  <2>3. AuxChunks(outq) \in Seq(Chunk)  BY <1>1, AuxFacts
  <2>4. link' \in Seq(Chunk)  BY <1>1, <2>1, <2>2, <2>3
  <2>5. call' \in [kind: {"none", "part", "frame"}, partial: BOOLEAN, run: Seq(Chunk),
                  n: Nat, s: Nat \cup {-1}]
    <3>1. call.s + 1 \in Nat  BY DEF TypeOK, TxTypes
    <3>2. call' = [call EXCEPT !.run = Tail(call.run), !.s = call.s + 1]  BY <2>1
    <3> QED BY <2>2, <3>1, <3>2 DEF TypeOK, TxTypes
  <2>6. TxTypes'
    BY <1>1, <1>3, <2>1, <2>4, <2>5 DEF TypeOK, TxTypes, TxWrite
  <2>7. EncTypes'  BY <1>3 DEF TypeOK, TxWrite, EncTypes, encVars
  <2>8. RxTypes'  BY <1>3 DEF TypeOK, TxWrite, RxTypes, rxVars
  <2>9. HistTypes'  BY <1>3 DEF TypeOK, TxWrite, HistTypes, histVars
  <2> QED BY <2>6, <2>7, <2>8, <2>9 DEF TypeOK
<1>4. CASE TxWriteFails
  <2>1. link' \in Seq(Chunk)  BY <1>2, <1>4 DEF TxWriteFails
  <2>2. call' = [call EXCEPT !.run = << >>] /\ outq' = 0 /\ last_write_ret' \in {-1, 0}
    BY <1>4 DEF TxWriteFails, StopRun
  <2>3. call' \in [kind: {"none", "part", "frame"}, partial: BOOLEAN, run: Seq(Chunk),
                  n: Nat, s: Nat \cup {-1}]
    <3>1. << >> \in Seq(Chunk)  OBVIOUS
    <3> QED BY <2>2, <3>1 DEF TypeOK, TxTypes
  <2>4. TxTypes'
    BY <1>1, <1>4, <2>1, <2>2, <2>3 DEF TypeOK, TxTypes, TxWriteFails
  <2>5. EncTypes'  BY <1>4 DEF TypeOK, TxWriteFails, EncTypes, encVars
  <2>6. RxTypes'  BY <1>4 DEF TypeOK, TxWriteFails, RxTypes, rxVars
  <2>7. HistTypes'  BY <1>4 DEF TypeOK, TxWriteFails, HistTypes, histVars
  <2> QED BY <2>4, <2>5, <2>6, <2>7 DEF TypeOK
<1>5. CASE TxTimeout
  <2>1. link' \in Seq(Chunk)  BY <1>2, <1>5 DEF TxTimeout
  <2>2. last_write_ret' \in {-1, 0} /\ outq' = 0  BY <1>5 DEF TxTimeout, TypeOK, TxTypes
  <2>3. TxTypes'
    BY <1>1, <1>5, <2>1, <2>2 DEF TypeOK, TxTypes, TxTimeout
  <2>4. EncTypes'  BY <1>5 DEF TypeOK, TxTimeout, EncTypes, encVars
  <2>5. RxTypes'  BY <1>5 DEF TypeOK, TxTimeout, RxTypes, rxVars
  <2>6. HistTypes'  BY <1>5 DEF TypeOK, TxTimeout, HistTypes, histVars
  <2> QED BY <2>3, <2>4, <2>5, <2>6 DEF TypeOK
<1> QED BY <1>3, <1>4, <1>5

\* The end-of-frame bookkeeping (tx/main.c:1298-1328) keeps the types.
LEMMA EndFrameType ==
  ASSUME TypeOK, NEW sent \in Nat \cup {-1}, NEW expected \in Nat, NEW whole \in BOOLEAN,
         EndFrame(sent, expected, whole)
  PROVE  /\ stats' \in [in: Nat, complete: Nat, incomplete: Nat]
         /\ frame_seq' \in 0..(SeqMod - 1) /\ frame_no' \in Nat
         /\ dead_writes' \in Nat /\ stalls' \in 0..(BackoffAfter - 1)
         /\ written' \subseteq [epoch: Nat, no: Nat, n: Nat]
<1>1. stats \in [in: Nat, complete: Nat, incomplete: Nat] /\ frame_no \in Nat /\ epoch \in Nat
      /\ dead_writes \in Nat /\ stalls \in 0..(BackoffAfter - 1) /\ frame_seq \in Nat
  BY Constants DEF TypeOK, TxTypes
<1>2. stats.complete + 1 \in Nat /\ stats.incomplete + 1 \in Nat  BY <1>1
<1>3. stats' \in [in: Nat, complete: Nat, incomplete: Nat]
  <2>1. \/ stats' = [stats EXCEPT !.complete = stats.complete + 1]
        \/ stats' = [stats EXCEPT !.incomplete = stats.incomplete + 1]
    BY DEF EndFrame, CountFrame
  <2> QED BY <1>1, <1>2, <2>1
<1>4. frame_seq' \in 0..(SeqMod - 1) /\ frame_no' \in Nat
  BY <1>1, NextSeqFacts DEF EndFrame
<1>5. dead_writes' \in Nat  BY <1>1 DEF EndFrame
<1>6. stalls' \in 0..(BackoffAfter - 1)  
  <2>1. stalls' = 0 \/ (stalls' = stalls + 1 /\ stalls + 1 < BackoffAfter)  BY DEF EndFrame
  <2> QED BY <1>1, <2>1, Constants
<1>7. written' \subseteq [epoch: Nat, no: Nat, n: Nat]
  <2>1. written \subseteq [epoch: Nat, no: Nat, n: Nat]  BY DEF TypeOK, HistTypes
  <2>2. CASE whole /\ sent = expected
    <3>1. [epoch |-> epoch, no |-> frame_no, n |-> sent] \in [epoch: Nat, no: Nat, n: Nat]
      BY <1>1, <2>2
    <3> QED BY <2>1, <2>2, <3>1 DEF EndFrame
  <2>3. CASE ~(whole /\ sent = expected)
    BY <2>1, <2>3 DEF EndFrame
  <2> QED BY <2>2, <2>3
<1> QED BY <1>3, <1>4, <1>5, <1>6, <1>7

\* The chunker's return keeps the types.
LEMMA TxReturnType ==
  ASSUME TypeOK, TxReturn
  PROVE  TypeOK'
<1> DEFINE FrameType == [open: BOOLEAN, failed: BOOLEAN, pts: Nat, next_idx: Nat, sent: Nat]
           failed == sf.failed \/ call.s < 0 \/ call.s # call.n
           sent   == IF call.s > 0 THEN sf.sent + call.s ELSE sf.sent
           next   == sf.next_idx + call.n
           f == [sf EXCEPT !.failed = failed, !.sent = sent, !.next_idx = next]
<1>1. call \in [kind: {"none", "part", "frame"}, partial: BOOLEAN, run: Seq(Chunk),
                n: Nat, s: Nat \cup {-1}] /\ sf \in FrameType
  BY DEF TypeOK, TxTypes
<1>2. call.n \in Nat /\ call.s \in Nat \cup {-1} /\ sf.sent \in Nat /\ sf.next_idx \in Nat
      /\ sf.failed \in BOOLEAN
  BY <1>1
<1>3. failed \in BOOLEAN /\ sent \in Nat /\ next \in Nat  BY <1>2
<1>4. f \in FrameType /\ f.failed = failed /\ f.sent = sent /\ f.next_idx = next
  <2> HIDE DEF failed, sent, next
  <2> QED BY <1>1, <1>3
<1>5. /\ call' = NoCall
      /\ UNCHANGED <<encVars, ring, epoch, last_write_ret, auxVars, reconnects, link,
                     rxVars, histVars, torn>>
      /\ \/ sf' = f /\ UNCHANGED <<stats, frame_seq, frame_no, dead_writes, stalls, written>>
         \/ sf' = [f EXCEPT !.open = FALSE] /\ EndFrame(f.sent, f.next_idx, ~f.failed)
         \/ sf' = sf /\ EndFrame(call.s, call.n, TRUE)
  BY DEF TxReturn
<1> HIDE DEF f, failed, sent, next
<1>6. sf' \in FrameType  BY <1>1, <1>4, <1>5
<1>7. /\ stats' \in [in: Nat, complete: Nat, incomplete: Nat]
      /\ frame_seq' \in 0..(SeqMod - 1) /\ frame_no' \in Nat
      /\ dead_writes' \in Nat /\ stalls' \in 0..(BackoffAfter - 1)
      /\ written' \subseteq [epoch: Nat, no: Nat, n: Nat]
  <2>1. CASE UNCHANGED <<stats, frame_seq, frame_no, dead_writes, stalls, written>>
    BY <2>1 DEF TypeOK, TxTypes, HistTypes
  <2>2. CASE EndFrame(f.sent, f.next_idx, ~f.failed)
    <3>1. f.sent \in Nat \cup {-1} /\ f.next_idx \in Nat /\ (~f.failed) \in BOOLEAN  BY <1>3, <1>4
    <3> QED BY <2>2, <3>1, EndFrameType
  <2>3. CASE EndFrame(call.s, call.n, TRUE)
    BY <1>2, <2>3, EndFrameType
  <2> QED BY <1>5, <2>1, <2>2, <2>3
<1>8. TxTypes'
  <2>1. << >> \in Seq(Chunk)  OBVIOUS
  <2>2. NoCall \in [kind: {"none", "part", "frame"}, partial: BOOLEAN, run: Seq(Chunk),
                   n: Nat, s: Nat \cup {-1}]
    BY <2>1 DEF NoCall
  <2> QED BY <1>5, <1>6, <1>7, <2>2 DEF TypeOK, TxTypes, auxVars
<1>9. EncTypes'  BY <1>5 DEF TypeOK, EncTypes, encVars
<1>10. RxTypes'  BY <1>5 DEF TypeOK, RxTypes, rxVars
<1>11. HistTypes'  BY <1>5, <1>7 DEF TypeOK, HistTypes, histVars
<1> QED BY <1>8, <1>9, <1>10, <1>11 DEF TypeOK

\* Reconnect and restart keep the types.
LEMMA TxReopenType ==
  ASSUME TypeOK, TxReconnect \/ TxRestart
  PROVE  TypeOK'
<1>1. << >> \in Seq(Entry) /\ << >> \in Seq(Chunk)  OBVIOUS
<1>2. {ring[i].pts : i \in DOMAIN ring} \subseteq Nat /\ torn \subseteq Nat /\ encoded \in Nat
      /\ sf.pts \in Nat
  <2>1. \A i \in DOMAIN ring : ring[i].pts \in Nat
    <3> SUFFICES ASSUME NEW i \in DOMAIN ring PROVE ring[i].pts \in Nat  OBVIOUS
    <3>1. ring[i] \in Entry  BY SeqFacts DEF TypeOK, EncTypes
    <3> QED BY <3>1 DEF Entry
  <2>2. {ring[i].pts : i \in DOMAIN ring} \subseteq Nat  BY <2>1
  <2>3. torn \subseteq Nat /\ encoded \in Nat  BY DEF TypeOK, EncTypes, HistTypes
  <2>4. sf.pts \in Nat  BY DEF TypeOK, TxTypes
  <2> QED BY <2>2, <2>3, <2>4
<1>3. CASE TxReconnect
  <2>1. EncTypes'  BY <1>1, <1>3 DEF TypeOK, TxReconnect, EncTypes, encVars
  <2>2. TxTypes'
    <3>1. reconnects' \in Nat  BY <1>3 DEF TypeOK, TxTypes, TxReconnect
    <3> QED BY <1>3, <3>1 DEF TypeOK, TxTypes, TxReconnect, auxVars
  <2>3. RxTypes'  BY <1>3 DEF TypeOK, TxReconnect, RxTypes, rxVars
  <2>4. HistTypes'
    <3>1. torn' \subseteq Nat  BY <1>2, <1>3 DEF TxReconnect
    <3> QED BY <1>3, <3>1 DEF TypeOK, TxReconnect, HistTypes, histVars
  <2> QED BY <2>1, <2>2, <2>3, <2>4 DEF TypeOK
<1>4. CASE TxRestart
  <2>1. EncTypes'  BY <1>1, <1>4 DEF TypeOK, TxRestart, EncTypes, encVars
  <2>2. TxTypes'
    <3>1. 0 \in 0..(SeqMod - 1) /\ 0 \in 0..(BackoffAfter - 1) /\ 0 \in 0..OutqDepth
      BY Constants
    <3>2. NoCall \in [kind: {"none", "part", "frame"}, partial: BOOLEAN, run: Seq(Chunk),
                     n: Nat, s: Nat \cup {-1}]
      BY <1>1 DEF NoCall
    <3>3. NoFrame \in [open: BOOLEAN, failed: BOOLEAN, pts: Nat, next_idx: Nat, sent: Nat]
      BY DEF NoFrame
    <3>4. epoch' \in Nat  BY <1>4 DEF TypeOK, TxTypes, TxRestart
    <3> QED BY <1>4, <3>1, <3>2, <3>3, <3>4 DEF TypeOK, TxTypes, TxRestart
  <2>3. RxTypes'  BY <1>4 DEF TypeOK, TxRestart, RxTypes, rxVars
  <2>4. HistTypes'
    <3>1. torn' \subseteq Nat  BY <1>2, <1>4 DEF TxRestart
    <3> QED BY <1>4, <3>1 DEF TypeOK, TxRestart, HistTypes, histVars
  <2> QED BY <2>1, <2>2, <2>3, <2>4 DEF TypeOK
<1> QED BY <1>3, <1>4

(***************************************************************************)
(* The rx main loop.                                                       *)
(***************************************************************************)
RtpType == [ts: Nat, items: Seq(Piece), marked: BOOLEAN,
            sei: {"none", "prefix", "suffix"}, sei_at: Nat]

\* The part of the buffer from fwd_off on (rx/main.c:602, :668) is a run of pieces.
LEMMA PiecesFromType ==
  ASSUME NEW q \in Reasm, NEW off \in Nat
  PROVE  PiecesFrom(q, off) \in Seq(Piece)
<1> DEFINE S == {i \in DOMAIN q.buf : q.buf[i].at < off}
           skip == Cardinality(S)
<1>1. q.buf \in Seq(Placed)  BY DEF Reasm
<1>2. DOMAIN q.buf = 1..Len(q.buf) /\ Len(q.buf) \in Nat /\ \A i \in 1..Len(q.buf) : q.buf[i] \in Placed
  BY <1>1, SeqFacts
<1>3. skip \in Nat /\ skip <= Len(q.buf)
  <2>1. S \in SUBSET (1..Len(q.buf))  BY <1>2
  <2>2. IsFiniteSet(1..Len(q.buf)) /\ Cardinality(1..Len(q.buf)) = Len(q.buf)
    BY <1>2, FS_Interval
  <2>3. IsFiniteSet(S) /\ Cardinality(S) <= Cardinality(1..Len(q.buf))
    <3> HIDE DEF S
    <3> QED BY <2>1, <2>2, FS_Subset
  <2>4. Cardinality(S) \in Nat
    <3> HIDE DEF S
    <3> QED BY <2>3, FS_CardinalityType
  <2> HIDE DEF S
  <2> QED BY <2>2, <2>3, <2>4 DEF skip
<1>4. PiecesFrom(q, off) = IF q.write_off <= off THEN << >>
        ELSE [i \in 1..(Len(q.buf) - skip) |-> q.buf[skip + i].piece]
  BY DEF PiecesFrom
<1> HIDE DEF skip
<1>5. \A i \in 1..(Len(q.buf) - skip) : q.buf[skip + i].piece \in Piece
  <2> SUFFICES ASSUME NEW i \in 1..(Len(q.buf) - skip) PROVE q.buf[skip + i].piece \in Piece
    OBVIOUS
  <2>1. skip + i \in 1..Len(q.buf)  BY <1>2, <1>3
  <2> QED BY <1>2, <2>1 DEF Placed
<1>6. Len(q.buf) - skip \in Nat  BY <1>2, <1>3
<1>7. [i \in 1..(Len(q.buf) - skip) |-> q.buf[skip + i].piece] \in Seq(Piece)
  BY <1>5, <1>6
<1>8. << >> \in Seq(Piece)  OBVIOUS
<1> QED BY <1>4, <1>7, <1>8

\* Sending NALs keeps the type of the RTP record.
LEMMA RtpSendType ==
  ASSUME NEW p \in RtpType, NEW ts \in Nat, NEW items \in Seq(Piece), NEW marker \in BOOLEAN
  PROVE  /\ RtpSend(p, ts, items, marker) \in RtpType
         /\ items # << >> => Len(RtpSend(p, ts, items, marker).items) - Len(items) \in Nat
<1>1. p.items \in Seq(Piece)  BY DEF RtpType
<1>2. p.items \o items \in Seq(Piece) /\ Len(p.items \o items) = Len(p.items) + Len(items)
      /\ Len(p.items) \in Nat /\ Len(items) \in Nat
  BY <1>1
<1>3. CASE items = << >>
  BY <1>3 DEF RtpSend
<1>4. CASE items # << >> /\ p.ts = ts
  <2> DEFINE b == p.items \o items
  <2>1. RtpSend(p, ts, items, marker) = [p EXCEPT !.items = b, !.marked = marker]
    BY <1>4 DEF RtpSend
  <2>2. b \in Seq(Piece) /\ Len(b) - Len(items) \in Nat  BY <1>2
  <2> HIDE DEF b
  <2> QED BY <2>1, <2>2 DEF RtpType
<1>5. CASE items # << >> /\ p.ts # ts
  <2>1. RtpSend(p, ts, items, marker)
          = [ts |-> ts, items |-> items, marked |-> marker, sei |-> "none", sei_at |-> 0]
    BY <1>5 DEF RtpSend
  <2> QED BY <1>2, <2>1 DEF RtpType
<1> QED BY <1>3, <1>4, <1>5

\* The SEI's position is a number.
LEMMA LeadingType ==
  ASSUME NEW items \in Seq(Piece)
  PROVE  Leading(items) \in Nat
<1> DEFINE S == {j \in DOMAIN items : \A i \in 1..j : ~items[i].vcl}
<1>1. S \in SUBSET (1..Len(items)) /\ Len(items) \in Nat  BY SeqFacts
<1>2. IsFiniteSet(1..Len(items))  BY <1>1, FS_Interval
<1>3. Leading(items) = Cardinality(S)  BY DEF Leading
<1> HIDE DEF S
<1> QED BY <1>1, <1>2, <1>3, FS_Subset, FS_CardinalityType

\* Forwarding a complete frame (rx/main.c:624-686) keeps the type of the RTP record.
LEMMA ForwardFrameType ==
  ASSUME NEW r1 \in Reasm, NEW off0 \in Nat, NEW vcl0 \in BOOLEAN, NEW sei \in BOOLEAN,
         rtp \in RtpType, ForwardFrame(r1, off0, vcl0, sei)
  PROVE  rtp' \in RtpType
<1> DEFINE rest == PiecesFrom(r1, off0)
           p    == IF sei THEN RtpSendSei(rtp, IF vcl0 THEN "suffix" ELSE "prefix",
                                          r1.write_off = off0)
                   ELSE rtp
<1>1. rest \in Seq(Piece)  BY PiecesFromType
<1>2. r1.frame_pts \in Nat  BY DEF Reasm
<1>3. p \in RtpType
  <2>1. Len(rtp.items) \in Nat  BY DEF RtpType
  <2> QED BY <2>1 DEF RtpSendSei, RtpType
<1>4. rtp' = IF off0 = 0
             THEN SendFrameWithSei(rtp, r1.frame_pts, rest, r1.write_off, sei)
             ELSE RtpSend(p, r1.frame_pts, rest, TRUE)
  BY DEF ForwardFrame
<1> HIDE DEF rest, p
<1>5. RtpSend(p, r1.frame_pts, rest, TRUE) \in RtpType  BY <1>1, <1>2, <1>3, RtpSendType
<1>6. SendFrameWithSei(rtp, r1.frame_pts, rest, r1.write_off, sei) \in RtpType
  <2> DEFINE q == RtpSend(rtp, r1.frame_pts, rest, TRUE)
             at == Len(q.items) - Len(rest) + Leading(rest)
  <2>1. q \in RtpType /\ (rest # << >> => Len(q.items) - Len(rest) \in Nat)
    BY <1>1, <1>2, RtpSendType
  <2>2. CASE sei /\ HasVcl(rest) /\ r1.write_off + SeiLen <= ReasmCap
    <3>1. rest # << >>  BY <1>1, <2>2, SeqFacts DEF HasVcl
    <3>2. Leading(rest) \in Nat  BY <1>1, LeadingType
    <3>3. at \in Nat
      <4> HIDE DEF q
      <4> QED BY <2>1, <3>1, <3>2
    <3>4. SendFrameWithSei(rtp, r1.frame_pts, rest, r1.write_off, sei)
            = [q EXCEPT !.sei = "prefix", !.sei_at = at]
      BY <2>2 DEF SendFrameWithSei
    <3> HIDE DEF q, at
    <3> QED BY <2>1, <3>3, <3>4 DEF RtpType
  <2>3. CASE ~(sei /\ HasVcl(rest) /\ r1.write_off + SeiLen <= ReasmCap)
    BY <2>1, <2>3 DEF SendFrameWithSei
  <2> QED BY <2>2, <2>3
<1> QED BY <1>4, <1>5, <1>6

\* The rx loop's handling of one video chunk (rx/main.c:585-700) keeps the types.
LEMMA RxVideoType ==
  ASSUME TypeOK, RxVideo
  PROVE  TypeOK'
<1> DEFINE c        == Head(link)
           r1       == reassembly_feed(r, c)
           complete == r1.completed_frames > r.completed_frames
           off0     == FwdOff(r1, c)
           vcl0     == FwdVcl(r1, c)
           id       == Id(c.piece.epoch, c.piece.no)
<1>1. link \in Seq(Chunk) /\ link # << >>  BY DEF TypeOK, TxTypes, RxVideo
<1>2. c \in Chunk /\ Tail(link) \in Seq(Chunk)  BY <1>1, SeqFacts
<1>3. c.chunk_idx \in Nat /\ id \in [epoch: Nat, no: Nat]
  BY <1>2 DEF Chunk, Piece, Id
<1>4. r1 \in Reasm
  <2>1. r \in Reasm  BY DEF TypeOK, RxTypes
  <2> HIDE DEF c
  <2> QED BY <1>2, <2>1, FeedFacts
<1>5. off0 \in Nat /\ vcl0 \in BOOLEAN  BY DEF TypeOK, RxTypes, FwdOff, FwdVcl
<1>6. /\ link' = Tail(link)
      /\ heard' = id
      /\ seen' = seen \cup {[epoch |-> id.epoch, no |-> id.no, idx |-> c.chunk_idx,
                             streamed |-> c.chunk_count = 0]}
      /\ UNCHANGED <<encVars, ring, txVars, auxVars, reconnects, written, torn>>
      /\ \/ /\ ~complete
            /\ r' = r1
            /\ ForwardSlice(r1, c, off0, vcl0)
            /\ UNCHANGED <<frames_lost, last_frame_seq, completed, got>>
         \/ /\ complete
            /\ frames_lost' = CountLost(r1.frame_seq)
            /\ last_frame_seq' = r1.frame_seq
            /\ \E sei \in BOOLEAN : ForwardFrame(r1, off0, vcl0, sei)
            /\ fwd_off' = 0 /\ fwd_vcl' = FALSE
            /\ r' = reassembly_reset(r1)
            /\ completed' = completed \cup {id}
            /\ got' = [i \in DOMAIN r1.buf |-> r1.buf[i].piece]
  BY DEF RxVideo
<1>7. rtp \in RtpType  BY DEF TypeOK, RxTypes, RtpType
<1> HIDE DEF c, r1, complete, off0, vcl0, id
<1>8. EncTypes'  BY <1>6 DEF TypeOK, EncTypes, encVars
<1>9. TxTypes'  BY <1>2, <1>6 DEF TypeOK, TxTypes, txVars, auxVars
<1>10. r1.write_off \in Nat /\ r1.frame_pts \in Nat /\ r1.frame_seq \in Nat /\ r1.buf \in Seq(Placed)
  BY <1>4 DEF Reasm
<1>11. seen' \subseteq [epoch: Nat, no: Nat, idx: Nat, streamed: BOOLEAN]
  <2>1. [epoch |-> id.epoch, no |-> id.no, idx |-> c.chunk_idx, streamed |-> c.chunk_count = 0]
          \in [epoch: Nat, no: Nat, idx: Nat, streamed: BOOLEAN]
    BY <1>3
  <2> QED BY <1>6, <2>1 DEF TypeOK, HistTypes
<1>12. CASE ~complete
  <2>1. RxTypes'
    <3>1. PiecesFrom(r1, off0) \in Seq(Piece)  BY <1>4, <1>5, PiecesFromType
    <3>2. RtpSend(rtp, r1.frame_pts, PiecesFrom(r1, off0), FALSE) \in RtpType
      BY <1>7, <1>10, <3>1, RtpSendType
    <3>3. rtp' \in RtpType /\ fwd_off' \in Nat
      BY <1>5, <1>6, <1>7, <1>10, <1>12, <3>2 DEF ForwardSlice
    <3>4. fwd_vcl' \in BOOLEAN
      <4>1. HasVcl(PiecesFrom(r1, off0)) \in BOOLEAN  BY DEF HasVcl
      <4> QED BY <1>5, <1>6, <1>12, <4>1, Zenon DEF ForwardSlice
    <3> QED BY <1>4, <1>6, <1>12, <3>3, <3>4 DEF TypeOK, RxTypes, RtpType
  <2>2. HistTypes'  BY <1>3, <1>6, <1>11, <1>12 DEF TypeOK, HistTypes
  <2> QED BY <1>8, <1>9, <2>1, <2>2 DEF TypeOK
<1>13. CASE complete
  <2>1. RxTypes'
    <3>1. rtp' \in RtpType  BY <1>4, <1>5, <1>6, <1>7, <1>13, ForwardFrameType
    <3>2. r' \in Reasm  BY <1>4, <1>6, <1>13, ResetFacts
    <3>3. frames_lost' \in Nat
      <4> DEFINE gap == (r1.frame_seq - last_frame_seq) % SeqMod
      <4>1. r1.frame_seq - last_frame_seq \in Int /\ frames_lost \in Nat
        BY <1>10 DEF TypeOK, RxTypes
      <4>2. gap \in Int  BY <4>1, Constants
      <4>3. frames_lost' = IF last_frame_seq # -1 /\ gap > 1 /\ gap < LossJump
                           THEN frames_lost + gap - 1 ELSE frames_lost
        BY <1>6, <1>13 DEF CountLost
      <4> HIDE DEF gap
      <4> QED BY <4>1, <4>2, <4>3
    <3>4. fwd_off' = 0 /\ fwd_vcl' = FALSE /\ last_frame_seq' \in Nat  BY <1>6, <1>10, <1>13
    <3> QED BY <3>1, <3>2, <3>3, <3>4 DEF RxTypes, RtpType
  <2>2. HistTypes'
    <3>1. got' \in Seq(Piece)
      <4>1. DOMAIN r1.buf = 1..Len(r1.buf) /\ Len(r1.buf) \in Nat
            /\ \A i \in 1..Len(r1.buf) : r1.buf[i].piece \in Piece
        <5>1. \A i \in 1..Len(r1.buf) : r1.buf[i] \in Placed  BY <1>10
        <5> QED BY <1>10, <5>1 DEF Placed
      <4>2. got' = [i \in 1..Len(r1.buf) |-> r1.buf[i].piece]  BY <1>6, <1>13, <4>1
      <4> QED BY <4>1, <4>2
    <3> QED BY <1>3, <1>6, <1>11, <1>13, <3>1 DEF TypeOK, HistTypes
  <2> QED BY <1>8, <1>9, <2>1, <2>2 DEF TypeOK
<1> QED BY <1>12, <1>13

\* Loss, and the rx loop's routing of non-video chunks, keep the types.
LEMMA LinkType ==
  ASSUME TypeOK, LinkLose \/ RxAux
  PROVE  TypeOK'
<1>1. /\ link # << >> /\ link' = Tail(link)
      /\ UNCHANGED <<encVars, ring, txVars, auxVars, reconnects, rxVars, histVars, written, torn>>
  BY DEF LinkLose, RxAux
<1>2. Tail(link) \in Seq(Chunk)  BY <1>1, SeqFacts DEF TypeOK, TxTypes
<1>3. EncTypes'  BY <1>1 DEF TypeOK, EncTypes, encVars
<1>4. TxTypes'  BY <1>1, <1>2 DEF TypeOK, TxTypes, txVars, auxVars
<1>5. RxTypes'  BY <1>1 DEF TypeOK, RxTypes, rxVars
<1>6. HistTypes'  BY <1>1 DEF TypeOK, HistTypes, histVars
<1> QED BY <1>3, <1>4, <1>5, <1>6 DEF TypeOK

\* A stuttering step keeps the types.
LEMMA StutterType ==
  ASSUME TypeOK, UNCHANGED vars
  PROVE  TypeOK'
<1>1. EncTypes'  BY DEF TypeOK, EncTypes, vars, encVars
<1>2. TxTypes'  BY DEF TypeOK, TxTypes, vars, txVars, auxVars
<1>3. RxTypes'  BY DEF TypeOK, RxTypes, vars, rxVars
<1>4. HistTypes'  BY DEF TypeOK, HistTypes, vars, histVars
<1> QED BY <1>1, <1>2, <1>3, <1>4 DEF TypeOK

\* Every variable of both loops keeps its C type for ever; frame_seq (uint16_t) wraps
\* and the outq never exceeds TX_OUTQ_DEPTH.
THEOREM TypeCorrect == Spec => []TypeOK
<1>1. Init => TypeOK  BY InitType
<1>2. TypeOK /\ [Next]_vars => TypeOK'
  BY EncoderType, TxReadType, TxWriteType, TxReturnType, TxReopenType, RxVideoType, LinkType,
     StutterType DEF Next, Tx, Rx
<1> QED BY <1>1, <1>2, PTL DEF Spec

-----------------------------------------------------------------------------
(* NoMixing *)

\* Nothing in flight and nothing in progress: the invariant behind NoMixing holds.
LEMMA InitMix == Init => MixInv
<1> SUFFICES ASSUME Init PROVE MixInv  OBVIOUS
<1>1. CallInv
  <2>1. 0 % SeqMod = 0
    <3>1. 0 \in Nat /\ 0 \in 0..(SeqMod - 1) /\ 0 = SeqMod * 0 + 0  BY Constants
    <3> QED BY <3>1, Constants, ModUnique
  <2> QED BY <2>1 DEF Init, CallInv, NoCall
<1>2. LinkInv  BY DEF Init, LinkInv, Leq, Id
<1>3. BufInv  BY DEF Init, BufInv, reassembly_init
<1>4. OneFrame(got)  BY DEF Init, OneFrame
<1> QED BY <1>1, <1>2, <1>3, <1>4 DEF MixInv

\* Sending order is transitive.
LEMMA LeqTrans ==
  ASSUME NEW a \in [epoch: Nat, no: Nat], NEW b \in [epoch: Nat, no: Nat],
         NEW c \in [epoch: Nat, no: Nat], Leq(a, b), Leq(b, c)
  PROVE  Leq(a, c)
  BY DEF Leq

\* A step that leaves the ground alone, appends only non-video chunks to the
\* link, and moves tx to the same frame or a later one.
LEMMA TxOnlyMix ==
  ASSUME TypeOK, TypeOK', MixInv, CallInv',
         UNCHANGED <<rxVars, histVars>>, link' = link,
         Leq(Id(epoch, frame_no), Id(epoch, frame_no)')
  PROVE  MixInv'
<1> DEFINE H == Id(epoch, frame_no)
<1>1. H \in [epoch: Nat, no: Nat] /\ H' \in [epoch: Nat, no: Nat]
  BY DEF TypeOK, TxTypes, Id
<1>2. heard \in [epoch: Nat, no: Nat] /\ heard' = heard  BY DEF TypeOK, HistTypes, histVars
<1>3. Leq(heard, H)'
  <2>1. Leq(heard, H)  BY DEF MixInv, LinkInv
  <2> HIDE DEF H
  <2> QED BY <1>1, <1>2, <2>1, LeqTrans DEF H
<1>4. LinkInv'
  <2>1. \A i \in DOMAIN link : link[i].codec = "h265" => Leq(IdOf(link[i]), H')
    <3> SUFFICES ASSUME NEW i \in DOMAIN link, link[i].codec = "h265"
                 PROVE  Leq(IdOf(link[i]), H')
      OBVIOUS
    <3>1. link[i] \in Chunk  BY SeqFacts DEF TypeOK, TxTypes
    <3>2. IdOf(link[i]) \in [epoch: Nat, no: Nat]  BY <3>1 DEF Chunk, Piece, IdOf, Id
    <3>3. Leq(IdOf(link[i]), H)  BY DEF MixInv, LinkInv
    <3> HIDE DEF H
    <3> QED BY <1>1, <3>2, <3>3, LeqTrans DEF H
  <2>2. LinkInv  BY DEF MixInv
  <2>3. heard' = heard  BY <1>2
  <2> QED BY <1>3, <2>1, <2>2, <2>3 DEF LinkInv, Stamped
<1>5. BufInv' /\ OneFrame(got)'
  BY DEF MixInv, BufInv, OneFrame, rxVars, histVars
<1> QED BY <1>4, <1>5 DEF MixInv

\* TxRead numbers the entry's chunks after the frame in hand, also when it closes a
\* streamed frame whose last slice never came.
LEMMA TxReadMix ==
  ASSUME TypeOK, TypeOK', MixInv, TxRead
  PROVE  MixInv'
<1> DEFINE e       == Head(ring)
           stale   == Overtakes(e)
           open    == sf.open /\ ~stale
           stream  == e.partial \/ open
           no      == IF stale THEN frame_no + 1 ELSE frame_no
           seq     == IF stale THEN NextSeq(frame_seq) ELSE frame_seq
           f       == IF open THEN sf
                      ELSE IF stream THEN [NoFrame EXCEPT !.open = TRUE, !.pts = e.pts]
                      ELSE [sf EXCEPT !.open = FALSE]
           first   == IF stream THEN f.next_idx ELSE 0
           run     == IF stream THEN chunk_part(seq, e, first, ~e.partial, Id(epoch, no))
                      ELSE chunk_frame(seq, e, Id(epoch, no))
           refused == TooManyChunks(e, first)
           none    == (stream /\ f.failed) \/ refused
<1>1. frame_no \in Nat /\ epoch \in Nat /\ frame_seq = frame_no % SeqMod
      /\ frame_no' = no /\ frame_seq' = seq /\ epoch' = epoch
  BY DEF TypeOK, TxTypes, MixInv, CallInv, TxRead
<1>2. no \in Nat /\ frame_no <= no  BY <1>1
<1>3. seq = no % SeqMod /\ seq \in Nat
  <2>1. NextSeq(frame_no % SeqMod) = (frame_no + 1) % SeqMod  BY <1>1, NextSeqFacts
  <2>2. no % SeqMod \in Nat  
    <3> HIDE DEF no
    <3>1. no % SeqMod \in 0..(SeqMod - 1)  BY <1>2, DivMod, Constants
    <3> QED BY <3>1, Constants
  <2> QED BY <1>1, <2>1, <2>2
<1>4. call'.run = IF none THEN << >> ELSE run  BY DEF TxRead
<1>5. \A i \in DOMAIN run : /\ run[i].codec = "h265" /\ Stamped(run[i])
                            /\ IdOf(run[i]) = Id(epoch, no)
  <2>1. e \in Entry  BY SeqFacts DEF TxRead, TypeOK, EncTypes
  <2>2. e.partial \in BOOLEAN /\ (~e.partial) \in BOOLEAN /\ e.len \in Nat  BY <2>1 DEF Entry
  <2>3. first \in Nat
    <3>1. sf \in [open: BOOLEAN, failed: BOOLEAN, pts: Nat, next_idx: Nat, sent: Nat]
      BY DEF TypeOK, TxTypes
    <3> QED BY <3>1 DEF NoFrame
  <2>4. Id(epoch, no) \in [epoch: Nat, no: Nat] /\ Id(epoch, no).epoch = epoch /\ Id(epoch, no).no = no
    BY <1>1, <1>2 DEF Id
  <2> HIDE DEF e, seq, no, first, stream
  <2>5. RunStamped(chunk_part(seq, e, first, ~e.partial, Id(epoch, no)), seq, Id(epoch, no))
    BY <1>3, <2>1, <2>2, <2>3, <2>4, PartFacts
  <2>6. RunStamped(chunk_frame(seq, e, Id(epoch, no)), seq, Id(epoch, no))
    BY <1>3, <2>1, <2>4, FrameFacts
  <2>7. RunStamped(run, seq, Id(epoch, no))  BY <2>5, <2>6
  <2> HIDE DEF run
  <2> QED BY <1>3, <2>4, <2>7 DEF RunStamped, Stamped, IdOf, Id
<1>6. CallInv'
  <2> HIDE DEF run, none, no, seq
  <2> QED BY <1>1, <1>3, <1>4, <1>5 DEF CallInv, Stamped
<1>7. Leq(Id(epoch, frame_no), Id(epoch, frame_no)')
  <2> HIDE DEF no
  <2> QED BY <1>1, <1>2 DEF Leq, Id
<1>8. UNCHANGED <<rxVars, histVars>> /\ link' = link  BY DEF TxRead
<1> QED BY <1>6, <1>7, <1>8, TxOnlyMix

\* The chunker's return moves tx to the same frame or the next one.
LEMMA TxReturnMix ==
  ASSUME TypeOK, TypeOK', MixInv, TxReturn
  PROVE  MixInv'
<1>1. frame_no \in Nat /\ epoch \in Nat /\ frame_seq = frame_no % SeqMod
  BY DEF TypeOK, TxTypes, MixInv, CallInv
<1>2. epoch' = epoch /\ link' = link /\ UNCHANGED <<rxVars, histVars>> /\ call' = NoCall
  BY DEF TxReturn
<1>3. \/ frame_no' = frame_no /\ frame_seq' = frame_seq
      \/ frame_no' = frame_no + 1 /\ frame_seq' = NextSeq(frame_seq)
  BY DEF TxReturn, EndFrame
<1>4. frame_seq' = frame_no' % SeqMod  BY <1>1, <1>3, NextSeqFacts
<1>5. CallInv'  BY <1>2, <1>4 DEF CallInv, NoCall
<1>6. Leq(Id(epoch, frame_no), Id(epoch, frame_no)')  BY <1>1, <1>2, <1>3 DEF Leq, Id
<1> QED BY <1>2, <1>5, <1>6, TxOnlyMix

\* A reconnect keeps frame_seq, a restart opens a later tx run.
LEMMA TxReopenMix ==
  ASSUME TypeOK, TypeOK', MixInv, TxReconnect \/ TxRestart
  PROVE  MixInv'
<1>1. frame_no \in Nat /\ epoch \in Nat  BY DEF TypeOK, TxTypes
<1>2. link' = link /\ UNCHANGED <<rxVars, histVars>>  BY DEF TxReconnect, TxRestart
<1>3. CASE TxReconnect
  <2>1. UNCHANGED <<epoch, frame_no, frame_seq, call>>  BY <1>3 DEF TxReconnect
  <2>2. CallInv'  BY <2>1 DEF MixInv, CallInv, Stamped
  <2>3. Leq(Id(epoch, frame_no), Id(epoch, frame_no)')  BY <1>1, <2>1 DEF Leq, Id
  <2> QED BY <1>2, <2>2, <2>3, TxOnlyMix
<1>4. CASE TxRestart
  <2>1. epoch' = epoch + 1 /\ frame_no' = 0 /\ frame_seq' = 0 /\ call' = NoCall
    BY <1>4 DEF TxRestart
  <2>2. 0 % SeqMod = 0
    <3>1. 0 \in Nat /\ 0 \in 0..(SeqMod - 1) /\ 0 = SeqMod * 0 + 0  BY Constants
    <3> QED BY <3>1, Constants, ModUnique
  <2>3. CallInv'  BY <2>1, <2>2 DEF CallInv, NoCall
  <2>4. Leq(Id(epoch, frame_no), Id(epoch, frame_no)')  BY <1>1, <2>1 DEF Leq, Id
  <2> QED BY <1>2, <2>3, <2>4, TxOnlyMix
<1> QED BY <1>3, <1>4

\* Non-video chunks join the link without disturbing it.
LEMMA AuxAppended ==
  ASSUME TypeOK, NEW n \in Nat
  PROVE  LET l == link \o AuxChunks(n)
         IN  /\ l \in Seq(Chunk)
             /\ \A i \in DOMAIN l : l[i].codec = "h265" => i \in DOMAIN link /\ l[i] = link[i]
<1>1. link \in Seq(Chunk) /\ AuxChunks(n) \in Seq(Chunk) /\ Len(AuxChunks(n)) = n
  BY AuxFacts DEF TypeOK, TxTypes
<1> DEFINE l == link \o AuxChunks(n)
<1>2. l \in Seq(Chunk) /\ DOMAIN l = 1..(Len(link) + n) /\ DOMAIN link = 1..Len(link)
      /\ Len(link) \in Nat
  BY <1>1
<1>3. ASSUME NEW i \in DOMAIN l, l[i].codec = "h265"
      PROVE  i \in DOMAIN link /\ l[i] = link[i]
  <2>1. CASE i <= Len(link)
    BY <1>1, <1>2, <2>1
  <2>2. CASE i > Len(link)
    <3>1. l[i] = AuxChunks(n)[i - Len(link)] /\ i - Len(link) \in 1..n  BY <1>1, <1>2, <2>2
    <3>2. l[i].codec = "aux"  BY <3>1, AuxFacts
    <3> QED BY <1>3, <3>2
  <2> QED BY <1>2, <2>1, <2>2
<1> QED BY <1>2, <1>3

\* A failed write leaves at most non-video chunks on the socket.
LEMMA TxWriteFailsMix ==
  ASSUME TypeOK, TypeOK', MixInv, TxWriteFails \/ TxTimeout
  PROVE  MixInv'
<1>1. LinkInv /\ CallInv /\ BufInv /\ OneFrame(got)  BY DEF MixInv
<1>2. UNCHANGED <<epoch, frame_no, frame_seq, rxVars, histVars>>  BY DEF TxWriteFails, TxTimeout
<1>3. call'.run \in {<< >>, call.run}
  <2>1. call' = [call EXCEPT !.run = << >>] \/ call' = call  BY DEF TxWriteFails, TxTimeout, StopRun
  <2> QED BY <2>1 DEF TypeOK, TxTypes
<1>4. CallInv'
  BY <1>1, <1>2, <1>3 DEF CallInv, Stamped
<1>5. PICK j \in Nat : link' = link \o AuxChunks(j)
  <2>1. outq \in Nat  BY Constants DEF TypeOK, TxTypes
  <2> QED BY <2>1 DEF TxWriteFails, TxTimeout
<1>6. \A i \in DOMAIN link' : link'[i].codec = "h265" => i \in DOMAIN link /\ link'[i] = link[i]
  BY <1>1, <1>5, AuxAppended
<1>7. heard' = heard  BY <1>2 DEF histVars
<1>8. LinkInv'
  BY <1>1, <1>2, <1>6, <1>7 DEF LinkInv
<1>9. BufInv' /\ OneFrame(got)'  BY <1>1, <1>2 DEF BufInv, OneFrame, rxVars, histVars
<1> QED BY <1>4, <1>8, <1>9 DEF MixInv

\* A written chunk is of the frame in hand, so it is in sending order behind all others.
LEMMA TxWriteMix ==
  ASSUME TypeOK, TypeOK', MixInv, TxWrite
  PROVE  MixInv'
<1>1. LinkInv /\ CallInv /\ BufInv /\ OneFrame(got)  BY DEF MixInv
<1>2. UNCHANGED <<epoch, frame_no, frame_seq, rxVars, histVars>>  BY DEF TxWrite
<1>3. call.run \in Seq(Chunk) /\ call.run # << >> /\ call'.run = Tail(call.run)
  <2>1. call' = [call EXCEPT !.run = Tail(call.run), !.s = call.s + 1]  BY DEF TxWrite
  <2> QED BY <2>1 DEF TypeOK, TxTypes, TxWrite
<1> DEFINE run == call.run
           h == Head(run)
           l == link \o AuxChunks(outq)
<1>4. /\ h \in Chunk /\ h = run[1] /\ 1 \in DOMAIN run /\ Tail(run) \in Seq(Chunk)
      /\ DOMAIN run = 1..Len(run) /\ Len(run) \in Nat
      /\ DOMAIN Tail(run) = 1..(Len(run) - 1)
      /\ \A i \in 1..(Len(run) - 1) : Tail(run)[i] = run[i + 1]
  BY <1>3
<1>5. h.codec = "h265" /\ Stamped(h) /\ IdOf(h) = Id(epoch, frame_no)
  BY <1>1, <1>4 DEF CallInv
<1>6. CallInv'
  <2>1. \A i \in DOMAIN Tail(run) : i + 1 \in DOMAIN run /\ Tail(run)[i] = run[i + 1]  BY <1>4
  <2> QED BY <1>1, <1>2, <1>3, <2>1 DEF CallInv, Stamped
<1>7. outq \in Nat  BY Constants DEF TypeOK, TxTypes
<1>8. /\ l \in Seq(Chunk)
      /\ \A i \in DOMAIN l : l[i].codec = "h265" => i \in DOMAIN link /\ l[i] = link[i]
  BY <1>1, <1>7, AuxAppended
<1>9. link' = l \o <<h>>  BY DEF TxWrite
<1> HIDE DEF h, l, run
<1>10. link' = Append(l, h) /\ DOMAIN link' = 1..(Len(l) + 1) /\ link'[Len(l) + 1] = h
       /\ DOMAIN l = 1..Len(l) /\ Len(l) \in Nat
       /\ \A i \in 1..Len(l) : link'[i] = l[i]
  BY <1>4, <1>8, <1>9
<1>11. heard' = heard  BY <1>2 DEF histVars
<1>12. Leq(heard, Id(epoch, frame_no)) /\ Leq(Id(epoch, frame_no), Id(epoch, frame_no))
  <2>1. epoch \in Nat /\ frame_no \in Nat  BY DEF TypeOK, TxTypes
  <2> QED BY <1>1, <2>1 DEF LinkInv, Leq, Id
<1>13. ASSUME NEW i \in DOMAIN link', link'[i].codec = "h265"
       PROVE  /\ Stamped(link'[i])
              /\ Leq(heard, IdOf(link'[i])) /\ Leq(IdOf(link'[i]), Id(epoch, frame_no))
              /\ i \in 1..Len(l) => i \in DOMAIN link /\ link'[i] = link[i]
  <2>1. CASE i \in 1..Len(l)
    <3>1. i \in DOMAIN link /\ link'[i] = link[i]  BY <1>8, <1>10, <1>13, <2>1
    <3> QED BY <1>1, <1>13, <3>1 DEF LinkInv
  <2>2. CASE i \notin 1..Len(l)
    <3>1. i = Len(l) + 1 /\ link'[i] = h  BY <1>10, <2>2
    <3> QED BY <1>5, <1>12, <2>2, <3>1
  <2> QED BY <2>1, <2>2
<1>14. ASSUME NEW i \in DOMAIN link', NEW j \in DOMAIN link', i < j,
              link'[i].codec = "h265", link'[j].codec = "h265"
       PROVE  Leq(IdOf(link'[i]), IdOf(link'[j]))
  <2>0. i \in 1..Len(l)  BY <1>10, <1>14
  <2>1. CASE j \in 1..Len(l)
    <3>1. i \in DOMAIN link /\ j \in DOMAIN link /\ link'[i] = link[i] /\ link'[j] = link[j]
      BY <1>13, <1>14, <2>0, <2>1
    <3> QED BY <1>1, <1>14, <3>1 DEF LinkInv
  <2>2. CASE j \notin 1..Len(l)
    <3>1. link'[j] = h  BY <1>10, <2>2
    <3> QED BY <1>5, <1>13, <1>14, <3>1
  <2> QED BY <2>1, <2>2
<1>15. LinkInv'
  <2>1. Leq(heard, Id(epoch, frame_no))'  BY <1>2, <1>11, <1>12
  <2>2. \A i \in DOMAIN link' : link'[i].codec = "h265" =>
          /\ Stamped(link'[i])
          /\ Leq(heard', IdOf(link'[i])) /\ Leq(IdOf(link'[i]), Id(epoch, frame_no)')
    BY <1>2, <1>11, <1>13
  <2> QED BY <1>14, <2>1, <2>2 DEF LinkInv
<1>16. BufInv' /\ OneFrame(got)'  BY <1>1, <1>2 DEF BufInv, OneFrame, rxVars, histVars
<1> QED BY <1>6, <1>15, <1>16 DEF MixInv

\* What remains of the link after its head is gone.
LEMMA TailFacts ==
  ASSUME TypeOK, link # << >>
  PROVE  \A i \in DOMAIN Tail(link) :
           i + 1 \in DOMAIN link /\ Tail(link)[i] = link[i + 1] /\ 1 < i + 1 /\ 1 \in DOMAIN link
<1>1. link \in Seq(Chunk)  BY DEF TypeOK, TxTypes
<1> QED BY <1>1

\* Loss of a chunk and a non-video chunk at rx keep the invariant.
LEMMA LinkMix ==
  ASSUME TypeOK, TypeOK', MixInv, LinkLose \/ RxAux
  PROVE  MixInv'
<1>1. LinkInv /\ CallInv /\ BufInv /\ OneFrame(got)  BY DEF MixInv
<1>2. link # << >> /\ link' = Tail(link) /\ UNCHANGED <<txVars, rxVars, histVars>>
  BY DEF LinkLose, RxAux
<1>3. CallInv'  BY <1>1, <1>2 DEF CallInv, Stamped, txVars
<1>4. BufInv' /\ OneFrame(got)'  BY <1>1, <1>2 DEF BufInv, OneFrame, rxVars, histVars
<1>5. LinkInv'
  <2>1. \A i \in DOMAIN link' : i + 1 \in DOMAIN link /\ link'[i] = link[i + 1]  BY <1>2, TailFacts
  <2>2. \A i, j \in DOMAIN link' : i < j => i + 1 < j + 1
    <3>1. link' \in Seq(Chunk)  BY DEF TypeOK, TxTypes
    <3>2. \A i \in DOMAIN link' : i \in Nat  BY <3>1
    <3> QED BY <3>2
  <2>3. UNCHANGED <<heard, epoch, frame_no>>  BY <1>2 DEF histVars, txVars
  <2> QED BY <1>1, <2>1, <2>2, <2>3 DEF LinkInv
<1> QED BY <1>3, <1>4, <1>5 DEF MixInv

\* The reassembler's buffer after a chunk that came in sending order.
GoodBuf(q, id) ==
    q.active =>
        /\ q.frame_seq = id.no % SeqMod
        /\ q.next_chunk_idx = Len(q.buf)
        /\ \A i \in DOMAIN q.buf :
            /\ q.buf[i].piece.idx = i - 1
            /\ q.buf[i].piece.epoch <= id.epoch
            /\ q.buf[i].piece.epoch = id.epoch => q.buf[i].piece.no = id.no
        /\ \A i, j \in DOMAIN q.buf :
            q.buf[i].piece.epoch = q.buf[j].piece.epoch => q.buf[i].piece.no = q.buf[j].piece.no

(***************************************************************************)
(* The heart of NoMixing.  A chunk that extends the frame in progress has  *)
(* its frame_seq.  Within a tx run it is not older than the last chunk     *)
(* heard and less than a wrap of frame_seq younger, so it is of the same   *)
(* frame; a chunk of a later tx run meets no piece of its own run.         *)
(***************************************************************************)
LEMMA FeedKeepsFrame ==
  ASSUME TypeOK, BufInv, NEW c \in Chunk, Stamped(c), Leq(heard, IdOf(c)), WithinOutage(c)
  PROVE  GoodBuf(reassembly_feed(r, c), IdOf(c))
<1> DEFINE q == reassembly_feed(r, c)
           id == IdOf(c)
           h  == [at |-> r.write_off, piece |-> c.piece]
<1>1. r \in Reasm /\ heard \in [epoch: Nat, no: Nat]  BY DEF TypeOK, RxTypes, HistTypes
<1>2. c.piece \in Piece /\ c.piece.epoch \in Nat /\ c.piece.no \in Nat /\ c.piece.idx \in Nat
      /\ id.epoch = c.piece.epoch /\ id.no = c.piece.no
      /\ c.frame_seq = c.piece.no % SeqMod /\ c.chunk_idx = c.piece.idx
  BY DEF Chunk, Piece, IdOf, Id, Stamped
<1>3. Refuses(r, q) \/ Takes(r, c, q)  BY <1>1, FeedFacts
<1> HIDE DEF q
<1>4. CASE Refuses(r, q)
  BY <1>4 DEF Refuses, GoodBuf, q
<1>5. CASE Takes(r, c, q) /\ c.chunk_idx = 0 /\ q.buf = <<[at |-> 0, piece |-> c.piece]>>
  <2>1. DOMAIN q.buf = {1} /\ Len(q.buf) = 1 /\ q.buf[1].piece = c.piece  BY <1>5
  <2>2. q.frame_seq = c.frame_seq /\ q.next_chunk_idx = 1  BY <1>5 DEF Takes
  <2>3. \A i \in DOMAIN q.buf : i = 1 /\ q.buf[i].piece = c.piece  BY <2>1
  <2> HIDE DEF id
  <2>4. c.piece.idx = 1 - 1 /\ c.piece.epoch <= id.epoch /\ c.piece.no = id.no
    BY <1>2, <1>5
  <2>5. q.frame_seq = id.no % SeqMod /\ q.next_chunk_idx = Len(q.buf)  BY <1>2, <2>1, <2>2
  <2> QED BY <2>3, <2>4, <2>5 DEF GoodBuf, q, id
<1>6. CASE /\ Takes(r, c, q) /\ r.active /\ r.frame_seq = c.frame_seq
           /\ r.next_chunk_idx = c.chunk_idx /\ q.buf = Append(r.buf, h)
  <2>1. r.buf \in Seq(Placed) /\ h \in Placed
    BY <1>1, <1>2 DEF Reasm, Placed
  <2>2. h.piece = c.piece  OBVIOUS
  <2> HIDE DEF h, id
  <2>3. /\ Len(r.buf) \in Nat /\ DOMAIN r.buf = 1..Len(r.buf)
        /\ Len(q.buf) = Len(r.buf) + 1 /\ DOMAIN q.buf = 1..(Len(r.buf) + 1)
        /\ \A i \in 1..Len(r.buf) : q.buf[i] = r.buf[i]
        /\ q.buf[Len(r.buf) + 1] = h
    BY <1>6, <2>1
  <2>4. /\ r.frame_seq = heard.no % SeqMod
        /\ r.next_chunk_idx = Len(r.buf)
        /\ \A i \in DOMAIN r.buf :
            /\ r.buf[i].piece.idx = i - 1
            /\ r.buf[i].piece.epoch <= heard.epoch
            /\ r.buf[i].piece.epoch = heard.epoch => r.buf[i].piece.no = heard.no
        /\ \A i, j \in DOMAIN r.buf :
            r.buf[i].piece.epoch = r.buf[j].piece.epoch => r.buf[i].piece.no = r.buf[j].piece.no
    BY <1>6 DEF BufInv
  <2>5. heard.epoch \in Nat /\ heard.no \in Nat /\ heard.epoch <= id.epoch
    BY <1>1, <1>2 DEF Leq, id
  <2>6. id.epoch = heard.epoch => id.no = heard.no
    <3> SUFFICES ASSUME id.epoch = heard.epoch PROVE id.no = heard.no  OBVIOUS
    <3>1. heard.no <= id.no  BY <1>2, <2>5 DEF Leq, id
    <3>2. id.no - heard.no < SeqMod  BY <1>2, <2>5, Constants DEF WithinOutage
    <3>3. heard.no % SeqMod = id.no % SeqMod  BY <1>2, <1>6, <2>4
    <3> QED BY <1>2, <2>5, <3>1, <3>2, <3>3, Constants, ModSame
  <2>7. \A i \in 1..Len(r.buf) : r.buf[i].piece.epoch \in Nat
    <3>1. \A i \in 1..Len(r.buf) : r.buf[i] \in Placed  BY <2>1
    <3> QED BY <3>1 DEF Placed, Piece
  <2>8. \A i \in DOMAIN r.buf : r.buf[i].piece.epoch = id.epoch => r.buf[i].piece.no = id.no
    BY <1>2, <2>3, <2>4, <2>5, <2>6, <2>7
  <2>9. ASSUME NEW i \in DOMAIN q.buf
        PROVE  /\ q.buf[i].piece.idx = i - 1
               /\ q.buf[i].piece.epoch <= id.epoch
               /\ q.buf[i].piece.epoch = id.epoch => q.buf[i].piece.no = id.no
    <3>1. CASE i \in 1..Len(r.buf)
      <4>1. q.buf[i] = r.buf[i] /\ i \in DOMAIN r.buf /\ r.buf[i].piece.epoch \in Nat
        BY <2>3, <2>7, <3>1
      <4>2. r.buf[i].piece.idx = i - 1 /\ r.buf[i].piece.epoch <= heard.epoch
        BY <2>4, <4>1
      <4>3. r.buf[i].piece.epoch <= id.epoch
        <5>1. id.epoch \in Nat  BY <1>2
        <5> QED BY <2>5, <4>1, <4>2, <5>1
      <4> QED BY <2>8, <4>1, <4>2, <4>3
    <3>2. CASE i = Len(r.buf) + 1
      <4>1. q.buf[i].piece = c.piece  BY <2>2, <2>3, <3>2
      <4>2. c.piece.idx = i - 1
        <5>1. c.piece.idx = Len(r.buf)  BY <1>2, <1>6, <2>4
        <5> QED BY <2>3, <3>2, <5>1
      <4>3. c.piece.epoch <= id.epoch /\ c.piece.no = id.no  BY <1>2
      <4> QED BY <4>1, <4>2, <4>3
    <3> QED BY <2>3, <3>1, <3>2
  <2>10. ASSUME NEW i \in DOMAIN q.buf, NEW j \in DOMAIN q.buf,
                q.buf[i].piece.epoch = q.buf[j].piece.epoch
         PROVE  q.buf[i].piece.no = q.buf[j].piece.no
    <3>1. CASE i \in 1..Len(r.buf) /\ j \in 1..Len(r.buf)
      BY <2>3, <2>4, <2>10, <3>1
    <3>2. CASE i = Len(r.buf) + 1
      BY <1>2, <2>2, <2>3, <2>9, <2>10, <3>2
    <3>3. CASE j = Len(r.buf) + 1
      BY <1>2, <2>2, <2>3, <2>9, <2>10, <3>3
    <3> QED BY <2>3, <3>1, <3>2, <3>3
  <2>11. q.frame_seq = id.no % SeqMod /\ q.next_chunk_idx = Len(q.buf)
    BY <1>2, <1>6, <2>3, <2>4 DEF Takes
  <2> QED BY <2>9, <2>10, <2>11 DEF GoodBuf, q, id
<1> QED BY <1>3, <1>4, <1>5, <1>6 DEF Takes

\* The rx loop's handling of a video chunk keeps the invariant, completed or not.
LEMMA RxVideoMix ==
  ASSUME TypeOK, TypeOK', MixInv, RxVideo
  PROVE  MixInv'
<1> DEFINE c  == Head(link)
           r1 == reassembly_feed(r, c)
           id == IdOf(c)
<1>1. LinkInv /\ CallInv /\ BufInv /\ OneFrame(got)  BY DEF MixInv
<1>2. link # << >> /\ link' = Tail(link) /\ UNCHANGED txVars /\ heard' = id
      /\ c.codec = "h265" /\ WithinOutage(c)
  BY DEF RxVideo, IdOf
<1>3. c \in Chunk /\ c = link[1] /\ 1 \in DOMAIN link
  <2>1. link \in Seq(Chunk)  BY DEF TypeOK, TxTypes
  <2> QED BY <1>2, <2>1
<1>4. Stamped(c) /\ Leq(heard, id) /\ Leq(id, Id(epoch, frame_no))
  BY <1>1, <1>2, <1>3 DEF LinkInv
<1>5. GoodBuf(r1, id)  BY <1>1, <1>2, <1>3, <1>4, FeedKeepsFrame
<1>6. \/ r' = r1 /\ got' = got
      \/ /\ r' = reassembly_reset(r1)
         /\ got' = [i \in DOMAIN r1.buf |-> r1.buf[i].piece]
         /\ r1.completed_frames > r.completed_frames
  BY DEF RxVideo
<1>7. r \in Reasm /\ r1 \in Reasm /\ (Refuses(r, r1) \/ Takes(r, c, r1))
  <2>1. r \in Reasm  BY DEF TypeOK, RxTypes
  <2> HIDE DEF c
  <2> QED BY <1>3, <2>1, FeedFacts
<1> HIDE DEF c, r1, id
<1>8. BufInv' /\ OneFrame(got)'
  <2>1. CASE r' = r1 /\ got' = got
    BY <1>1, <1>2, <1>5, <2>1 DEF BufInv, GoodBuf, OneFrame
  <2>2. CASE /\ r' = reassembly_reset(r1)
             /\ got' = [i \in DOMAIN r1.buf |-> r1.buf[i].piece]
             /\ r1.completed_frames > r.completed_frames
    <3>1. ~r'.active  BY <1>7, <2>2, ResetFacts
    <3>2. r1.active
      <4>1. r.completed_frames \in Nat  BY <1>7 DEF Reasm
      <4> QED BY <1>7, <2>2, <4>1 DEF Refuses, Takes
    <3>3. DOMAIN got' = DOMAIN r1.buf /\ \A i \in DOMAIN got' : got'[i] = r1.buf[i].piece  BY <2>2
    <3>4. OneFrame(got')  BY <1>5, <3>2, <3>3 DEF GoodBuf, OneFrame
    <3> QED BY <3>1, <3>4 DEF BufInv, OneFrame
  <2> QED BY <1>6, <2>1, <2>2
<1>9. CallInv'  BY <1>1, <1>2 DEF CallInv, Stamped, txVars
<1>10. LinkInv'
  <2>1. \A i \in DOMAIN link' : i + 1 \in DOMAIN link /\ link'[i] = link[i + 1] /\ 1 < i + 1
    BY <1>2, TailFacts
  <2>2. \A i, j \in DOMAIN link' : i < j => i + 1 < j + 1
    <3>1. link' \in Seq(Chunk)  BY DEF TypeOK, TxTypes
    <3>2. \A i \in DOMAIN link' : i \in Nat  BY <3>1
    <3> QED BY <3>2
  <2>3. UNCHANGED <<epoch, frame_no>>  BY <1>2 DEF txVars
  <2>4. \A i \in DOMAIN link' : link'[i].codec = "h265" => Leq(id, IdOf(link'[i]))
    BY <1>1, <1>2, <1>3, <2>1 DEF LinkInv, id
  <2>5. Leq(heard', Id(epoch, frame_no)')  BY <1>2, <1>4, <2>3
  <2> QED BY <1>1, <1>2, <2>1, <2>2, <2>3, <2>4, <2>5 DEF LinkInv
<1> QED BY <1>8, <1>9, <1>10 DEF MixInv

\* The encoder and the outq's producers do not touch the invariant.
LEMMA EncoderMix ==
  ASSUME TypeOK, TypeOK', MixInv, EncodeFrame \/ EncodeSlice \/ EncoderRestart \/ OutqPush \/ UNCHANGED vars
  PROVE  MixInv'
<1>1. UNCHANGED <<txVars, link, rxVars, histVars>>
  BY DEF EncodeFrame, EncodeSlice, EncoderRestart, OutqPush, Publish, vars
<1>2. UNCHANGED <<epoch, frame_no, frame_seq, call>>  BY <1>1 DEF txVars
<1>3. CallInv'  BY <1>2 DEF MixInv, CallInv, Stamped
<1>4. epoch \in Nat /\ frame_no \in Nat  BY DEF TypeOK, TxTypes
<1>5. Leq(Id(epoch, frame_no), Id(epoch, frame_no)')  BY <1>2, <1>4 DEF Leq, Id
<1> QED BY <1>1, <1>3, <1>5, TxOnlyMix

\* MixInv is inductive: chunks in flight stay in sending order and the frame in
\* progress is the one heard last.
THEOREM MixInvariant == Spec => []MixInv
<1>1. Init => MixInv  BY InitMix
<1>2. TypeOK /\ TypeOK' /\ MixInv /\ [Next]_vars => MixInv'
  BY EncoderMix, TxReadMix, TxWriteMix, TxWriteFailsMix, TxReturnMix, TxReopenMix, LinkMix, RxVideoMix
     DEF Next, Tx, Rx
<1> QED BY <1>1, <1>2, TypeCorrect, PTL DEF Spec

\* reassembly.c never puts chunks of two frames of one tx run, or chunks with a gap,
\* into one frame: for every number of frames, wraps of frame_seq and losses, as long
\* as no outage spans a whole wrap.
THEOREM NoMixingHolds == Spec => []NoMixing
<1>1. TypeOK /\ MixInv => NoMixing
  <2> SUFFICES ASSUME TypeOK, MixInv PROVE NoMixing  OBVIOUS
  <2>1. OneFrame(got) /\ BufInv  BY DEF MixInv
  <2>2. r.active => OneFrame(BufPieces(r))
    <3>1. DOMAIN BufPieces(r) = DOMAIN r.buf /\ \A i \in DOMAIN r.buf : BufPieces(r)[i] = r.buf[i].piece
      BY DEF BufPieces
    <3> QED BY <2>1, <3>1 DEF BufInv, OneFrame
  <2> QED BY <2>1, <2>2 DEF NoMixing
<1> QED BY <1>1, MixInvariant, TypeCorrect, PTL

-----------------------------------------------------------------------------
(* FwdWithinBuffer *)

\* fwd_off is reset with the chunk that starts a frame (rx/main.c:589-592) and set to
\* write_off at most: it stays within the buffer.
LEMMA RxVideoFwd ==
  ASSUME TypeOK, FwdWithinBuffer, RxVideo
  PROVE  FwdWithinBuffer'
<1> DEFINE c  == Head(link)
           r1 == reassembly_feed(r, c)
           off0 == FwdOff(r1, c)
           vcl0 == FwdVcl(r1, c)
<1>1. c \in Chunk
  <2>1. link \in Seq(Chunk) /\ link # << >>  BY DEF TypeOK, TxTypes, RxVideo
  <2> QED BY <2>1
<1>2. r \in Reasm /\ fwd_off \in Nat  BY DEF TypeOK, RxTypes
<1>3. \/ r' = r1 /\ ForwardSlice(r1, c, off0, vcl0)
      \/ r' = reassembly_reset(r1)
  BY DEF RxVideo
<1>4. r1 \in Reasm /\ (Refuses(r, r1) \/ Takes(r, c, r1))
  <2> HIDE DEF c
  <2> QED BY <1>1, <1>2, FeedFacts
<1>5. c.piece.len \in Nat /\ c.chunk_idx \in Nat  BY <1>1 DEF Chunk, Piece
<1>6. r1.write_off \in Nat /\ r.write_off \in Nat  BY <1>2, <1>4 DEF Reasm
<1> HIDE DEF c, r1
<1>7. CASE r' = reassembly_reset(r1)
  BY <1>4, <1>7, ResetFacts DEF FwdWithinBuffer
<1>8. CASE r' = r1 /\ ForwardSlice(r1, c, off0, vcl0) /\ Refuses(r, r1)
  BY <1>8 DEF FwdWithinBuffer, Refuses
<1>9. CASE r' = r1 /\ ForwardSlice(r1, c, off0, vcl0) /\ Takes(r, c, r1)
  <2>1. Taken(r1, c)  BY <1>9 DEF Takes, Taken
  <2>2. off0 <= r1.write_off
    <3>1. CASE c.chunk_idx = 0
      BY <1>6, <2>1, <3>1 DEF FwdOff, StartsFrame
    <3>2. CASE c.chunk_idx # 0
      <4>1. r.active /\ r1.write_off = r.write_off + c.piece.len  BY <1>9, <3>2 DEF Takes
      <4>2. fwd_off <= r.write_off  BY <4>1 DEF FwdWithinBuffer
      <4>3. off0 = fwd_off  BY <3>2 DEF FwdOff, StartsFrame
      <4> HIDE DEF off0
      <4> QED BY <1>2, <1>5, <1>6, <4>1, <4>2, <4>3
    <3> QED BY <3>1, <3>2
  <2> HIDE DEF off0, vcl0
  <2>3. fwd_off' = r1.write_off \/ fwd_off' = off0  BY <1>9 DEF ForwardSlice
  <2> QED BY <1>6, <1>9, <2>2, <2>3 DEF FwdWithinBuffer
<1> QED BY <1>3, <1>4, <1>7, <1>8, <1>9

\* The unsigned subtractions write_off - fwd_off of rx/main.c never underflow.
THEOREM FwdWithinBufferHolds == Spec => []FwdWithinBuffer
<1>1. Init => FwdWithinBuffer  BY DEF Init, FwdWithinBuffer, reassembly_init
<1>2. TypeOK /\ FwdWithinBuffer /\ [Next]_vars => FwdWithinBuffer'
  <2> SUFFICES ASSUME TypeOK, FwdWithinBuffer, [Next]_vars PROVE FwdWithinBuffer'  OBVIOUS
  <2>1. CASE RxVideo  BY <2>1, RxVideoFwd
  <2>2. CASE UNCHANGED rxVars
    BY <2>2 DEF FwdWithinBuffer, rxVars
  <2>3. RxVideo \/ UNCHANGED rxVars
    BY DEF Next, Tx, Rx, EncodeFrame, EncodeSlice, EncoderRestart, Publish, OutqPush, TxRead, TxWrite,
           TxWriteFails, TxReturn, TxTimeout, TxReconnect, TxRestart, LinkLose, RxAux, vars
  <2> QED BY <2>1, <2>2, <2>3
<1> QED BY <1>1, <1>2, TypeCorrect, PTL DEF Spec

-----------------------------------------------------------------------------
(* TxBalance *)

\* The balance, and to which frame the entry in hand belongs.
BalanceInv == SliceInv /\ TxBalance

\* A frame is counted in when its first entry is read, and counted incomplete when
\* another one overtakes it.
LEMMA TxReadBalance ==
  ASSUME TypeOK, BalanceInv, TxRead
  PROVE  BalanceInv'
<1> DEFINE e       == Head(ring)
           stale   == Overtakes(e)
           open    == sf.open /\ ~stale
           stream  == e.partial \/ open
           f       == IF open THEN sf
                      ELSE IF stream THEN [NoFrame EXCEPT !.open = TRUE, !.pts = e.pts]
                      ELSE [sf EXCEPT !.open = FALSE]
<1>1. sf \in [open: BOOLEAN, failed: BOOLEAN, pts: Nat, next_idx: Nat, sent: Nat]
      /\ stats \in [in: Nat, complete: Nat, incomplete: Nat]
  BY DEF TypeOK, TxTypes
<1>2. e.partial \in BOOLEAN
  <2>1. e \in Entry  BY SeqFacts DEF TypeOK, EncTypes, TxRead
  <2> QED BY <2>1 DEF Entry
<1>3. /\ sf' = f /\ call.kind = "none"
      /\ stats' = [stats EXCEPT !.incomplete = IF stale THEN @ + 1 ELSE @,
                                !.in = IF open THEN @ ELSE @ + 1]
      /\ call'.kind = IF stream THEN "part" ELSE "frame"
  BY DEF TxRead
<1>4. f.open = stream  BY <1>1, <1>2 DEF NoFrame, Overtakes
<1>5. stats.in = stats.complete + stats.incomplete + (IF sf.open THEN 1 ELSE 0)
  BY <1>3 DEF BalanceInv, TxBalance
<1>6. /\ stats'.complete = stats.complete
      /\ stats'.incomplete = IF stale THEN stats.incomplete + 1 ELSE stats.incomplete
      /\ stats'.in = IF open THEN stats.in ELSE stats.in + 1
  BY <1>1, <1>3
<1>7. SliceInv'
  <2> HIDE DEF stream, f
  <2> QED BY <1>3, <1>4 DEF SliceInv
<1>8. sf'.open \/ call'.kind = "frame"
  <2> HIDE DEF stream, f
  <2> QED BY <1>3, <1>4
<1>9. stats'.in = stats'.complete + stats'.incomplete + 1
  <2>1. stats.in \in Nat /\ stats.complete \in Nat /\ stats.incomplete \in Nat /\ sf.open \in BOOLEAN
    BY <1>1
  <2> QED BY <1>5, <1>6, <2>1 DEF Overtakes
<1> QED BY <1>7, <1>8, <1>9 DEF BalanceInv, TxBalance

\* A frame that ends is counted complete or incomplete, once.
LEMMA TxReturnBalance ==
  ASSUME TypeOK, BalanceInv, TxReturn
  PROVE  BalanceInv'
<1>1. sf \in [open: BOOLEAN, failed: BOOLEAN, pts: Nat, next_idx: Nat, sent: Nat]
      /\ stats \in [in: Nat, complete: Nat, incomplete: Nat]
  BY DEF TypeOK, TxTypes
<1>2. stats.in \in Nat /\ stats.complete \in Nat /\ stats.incomplete \in Nat  BY <1>1
<1>3. call'.kind = "none"  BY DEF TxReturn, NoCall
<1>4. \/ sf'.open = sf.open /\ stats' = stats /\ call.kind = "part"
      \/ ~sf'.open /\ call.kind = "part"
         /\ (\/ stats' = [stats EXCEPT !.complete = @ + 1]
             \/ stats' = [stats EXCEPT !.incomplete = @ + 1])
      \/ sf' = sf /\ call.kind = "frame"
         /\ (\/ stats' = [stats EXCEPT !.complete = @ + 1]
             \/ stats' = [stats EXCEPT !.incomplete = @ + 1])
  BY <1>1 DEF TxReturn, EndFrame, CountFrame
<1> QED BY <1>1, <1>2, <1>3, <1>4 DEF BalanceInv, SliceInv, TxBalance

\* BalanceInv is inductive: what tx has in hand is the frame that is not counted yet.
THEOREM BalanceInvariant == Spec => []BalanceInv
<1>1. Init => BalanceInv  BY DEF Init, BalanceInv, SliceInv, TxBalance, NoFrame, NoCall
<1>2. TypeOK /\ BalanceInv /\ [Next]_vars => BalanceInv'
  <2> SUFFICES ASSUME TypeOK, BalanceInv, [Next]_vars PROVE BalanceInv'  OBVIOUS
  <2>1. CASE TxRead  BY <2>1, TxReadBalance
  <2>2. CASE TxReturn  BY <2>2, TxReturnBalance
  <2>3. CASE TxRestart
    BY <2>3 DEF TxRestart, BalanceInv, SliceInv, TxBalance, NoFrame, NoCall
  <2>4. CASE TxWrite \/ TxWriteFails
    <3>1. call'.kind = call.kind /\ UNCHANGED <<sf, stats>>
      BY <2>4 DEF TxWrite, TxWriteFails, StopRun, TypeOK, TxTypes
    <3> QED BY <3>1 DEF BalanceInv, SliceInv, TxBalance
  <2>5. CASE UNCHANGED <<sf, call, stats>>
    BY <2>5 DEF BalanceInv, SliceInv, TxBalance
  <2>6. TxRead \/ TxReturn \/ TxRestart \/ TxWrite \/ TxWriteFails \/ UNCHANGED <<sf, call, stats>>
    BY DEF Next, Tx, Rx, EncodeFrame, EncodeSlice, EncoderRestart, Publish, OutqPush,
           TxTimeout, TxReconnect, LinkLose, RxVideo, RxAux, vars, txVars
  <2> QED BY <2>1, <2>2, <2>3, <2>4, <2>5, <2>6
<1> QED BY <1>1, <1>2, TypeCorrect, PTL DEF Spec

\* Every frame tx took in is accounted for exactly once, through failed writes,
\* refused frames, flushed rings, encoder restarts and reconnects.
THEOREM TxBalanceHolds == Spec => []TxBalance
<1>1. BalanceInv => TxBalance  BY DEF BalanceInv
<1> QED BY <1>1, BalanceInvariant, PTL

-----------------------------------------------------------------------------
(***************************************************************************)
(* Delivery in capture order.  VideoLink implements FrameDelivery, for     *)
(* every value of its constants: pictures are delivered in capture order   *)
(* and each at most once.  The argument is OrderInv: source frames keep    *)
(* their order from the ring to the reassembler, and nothing of a picture  *)
(* follows the piece that completes it.  MarkerExact follows from the      *)
(* same order.                                                             *)
(***************************************************************************)

(* What the chunker and the reassembler add *)

\* The chunks of one entry name its source frame; the last one alone carries its
\* end, and only that one has a chunk_count that completes a frame.
RunOf(s, e) ==
    \A i \in DOMAIN s :
        /\ s[i].frame_pts = e.pts /\ s[i].piece.src = e.pts
        /\ s[i].piece.end => ~e.partial /\ i = Len(s)
        /\ s[i].chunk_count = s[i].chunk_idx + 1 => s[i].piece.end
        /\ e.len > 0 => s[i].piece.len > 0

\* chunker.c:23-27: every chunk of an entry that is not empty has bytes.
LEMMA ChunksHaveBytes ==
  ASSUME NEW len \in Nat \ {0}, NEW i \in Nat, i < ChunkCount(len)
  PROVE  i * ChunkPayload < len
<1> USE ChunkerAssumption
<1> DEFINE a == len + ChunkPayload - 1
           n == a \div ChunkPayload
<1>1. a \in Nat /\ ChunkCount(len) = n  BY DEF ChunkCount
<1>2. n \in Nat /\ ChunkPayload * n <= a
  <2> HIDE DEF a
  <2> QED BY <1>1
<1> HIDE DEF n
<1>3. ChunkPayload * i + ChunkPayload <= ChunkPayload * n  BY <1>1, <1>2, TimesMono
<1>4. ChunkPayload * i \in Nat /\ ChunkPayload * n \in Nat /\ i * ChunkPayload = ChunkPayload * i
  BY <1>2
<1> QED BY <1>2, <1>3, <1>4

\* chunk_run() for a slice or a whole frame, which ends its frame if it is not partial.
LEMMA RunFacts ==
  ASSUME NEW seq \in Nat, NEW e \in Entry, NEW first \in Nat, NEW total \in Nat,
         NEW frame_end \in BOOLEAN, NEW part \in BOOLEAN, NEW id \in [epoch: Nat, no: Nat],
         frame_end => ~e.partial,
         total = 0 \/ (total = ChunkCount(e.len) /\ first = 0 /\ ~e.partial)
  PROVE  RunOf(chunk_run(seq, e, first, total, frame_end, part, id), e)
<1> DEFINE n == ChunkCount(e.len)
           run == chunk_run(seq, e, first, total, frame_end, part, id)
<1>1. e.len \in Nat /\ e.partial \in BOOLEAN  BY DEF Entry
<1>2. n \in Nat \ {0}  BY <1>1, ChunkCountFacts
<1>3. run = [j \in 1..n |-> run[j]]  BY DEF chunk_run
<1>4. DOMAIN run = 1..n /\ Len(run) = n
  <2> HIDE DEF run, n
  <2> QED BY <1>2, <1>3
<1>5. ASSUME NEW j \in 1..n
      PROVE  /\ run[j].frame_pts = e.pts /\ run[j].piece.src = e.pts
             /\ run[j].piece.end => ~e.partial /\ j = n
             /\ run[j].chunk_count = run[j].chunk_idx + 1 => run[j].piece.end
             /\ e.len > 0 => run[j].piece.len > 0
  <2> DEFINE p == PieceAt(e, j - 1, n, id, first + j - 1)
  <2>1. run[j].frame_pts = e.pts /\ run[j].piece = p /\ run[j].chunk_idx = first + j - 1
        /\ run[j].chunk_count = IF frame_end /\ j = n THEN first + n ELSE total
    BY DEF chunk_run
  <2>2. p.src = e.pts /\ p.end = (~e.partial /\ j - 1 + 1 = n)
        /\ p.len = IF e.len - (j - 1) * ChunkPayload > ChunkPayload
                   THEN ChunkPayload ELSE e.len - (j - 1) * ChunkPayload
    BY DEF PieceAt
  <2>3. e.len > 0 => (j - 1) * ChunkPayload < e.len
    <3>1. j - 1 \in Nat /\ j - 1 < n  BY <1>2
    <3> QED BY <1>1, <3>1, ChunksHaveBytes
  <2>4. e.len > 0 => p.len > 0
    <3>1. (j - 1) * ChunkPayload \in Int /\ ChunkPayload \in Nat \ {0}  BY <1>2, ChunkerAssumption
    <3> HIDE DEF p
    <3> QED BY <1>1, <2>2, <2>3, <3>1
  <2> HIDE DEF p, n, run
  <2>5. p.end = (~e.partial /\ j = n)  BY <1>2, <2>2
  <2>6. run[j].chunk_count = run[j].chunk_idx + 1 => p.end
    <3>1. CASE frame_end /\ j = n  BY <2>5, <3>1
    <3>2. CASE ~(frame_end /\ j = n) /\ total = 0  BY <1>2, <2>1, <3>2
    <3>3. CASE ~(frame_end /\ j = n) /\ total = n /\ first = 0 /\ ~e.partial
      <4> SUFFICES ASSUME run[j].chunk_count = run[j].chunk_idx + 1 PROVE p.end  OBVIOUS
      <4>1. n = 0 + j - 1 + 1  BY <2>1, <3>3
      <4>2. j = n  BY <1>2, <4>1
      <4> QED BY <2>5, <3>3, <4>2
    <3> QED BY <3>1, <3>2, <3>3 DEF n
  <2> QED BY <2>1, <2>2, <2>4, <2>5, <2>6
<1> HIDE DEF run, n
<1> QED BY <1>4, <1>5 DEF RunOf, run

\* What reassembly_feed() makes of a chunk: only a chunk with chunk_count = chunk_idx + 1
\* completes a frame, and a frame keeps the frame_pts of its first chunk.
LEMMA FeedOrder ==
  ASSUME NEW q \in Reasm, NEW c \in Chunk
  PROVE  LET p == reassembly_feed(q, c)
         IN  /\ p.completed_frames # q.completed_frames => p.active /\ c.chunk_count = c.chunk_idx + 1
             /\ p.active =>
                 \/ p.frame_pts = c.frame_pts /\ p.buf = <<[at |-> 0, piece |-> c.piece]>>
                    /\ p.write_off = c.piece.len /\ c.chunk_idx = 0
                 \/ q.active /\ p.frame_pts = q.frame_pts
                    /\ p.buf = Append(q.buf, [at |-> q.write_off, piece |-> c.piece])
                    /\ p.write_off = q.write_off + c.piece.len
<1> DEFINE r1 == GiveUpStreamed(q, c)
           r2 == BeforeAppend(q, c)
           p  == reassembly_feed(q, c)
<1>1. c.frame_seq \in Nat /\ c.chunk_idx \in Nat /\ c.chunk_count \in Nat /\ c.piece.len \in Nat
  BY DEF Chunk, Piece
<1>2. r1 \in Reasm /\ r1.completed_frames = q.completed_frames  BY GiveUpFacts
<1>3. r2 \in Reasm /\ r2.completed_frames = q.completed_frames
  BY <1>2, StartFrameFacts DEF BeforeAppend
<1>4. CASE IsNewFrame(q, c) /\ c.chunk_idx # 0
  <2>1. p = reassembly_reset(note_dropped(r1, c.frame_seq))
    BY <1>4 DEF reassembly_feed
  <2>2. ~p.active /\ p.completed_frames = q.completed_frames
    <3> HIDE DEF p, r1
    <3> QED BY <1>1, <1>2, <2>1, NoteDroppedFacts, ResetFacts
  <2> QED BY <2>2, Zenon
<1>5. CASE ~(IsNewFrame(q, c) /\ c.chunk_idx # 0) /\ ~Extends(r2, c)
  <2>1. p = reassembly_reset(note_dropped(r2, c.frame_seq))
    BY <1>5 DEF reassembly_feed
  <2>2. ~p.active /\ p.completed_frames = q.completed_frames
    <3> HIDE DEF p, r2
    <3> QED BY <1>1, <1>3, <2>1, NoteDroppedFacts, ResetFacts
  <2> QED BY <2>2, Zenon
<1>6. CASE ~(IsNewFrame(q, c) /\ c.chunk_idx # 0) /\ Extends(r2, c)
  <2>1. p = AppendPiece(r2, c)
    BY <1>6 DEF reassembly_feed
  <2>2. c.chunk_idx = r2.next_chunk_idx /\ (EndsStreamed(r2, c) \/ c.chunk_count = r2.chunk_count)
    BY <1>6 DEF Extends
  <2>3. /\ p.active = r2.active /\ p.frame_pts = r2.frame_pts
        /\ p.write_off = r2.write_off + c.piece.len
        /\ p.buf = Append(r2.buf, [at |-> r2.write_off, piece |-> c.piece])
        /\ p.completed_frames # r2.completed_frames =>
             EndsStreamed(r2, c) \/ r2.next_chunk_idx + 1 = r2.chunk_count
    <3> HIDE DEF p, r2
    <3> QED BY <1>3, <2>1 DEF AppendPiece, Reasm
  <2>4. p.completed_frames # q.completed_frames => c.chunk_count = c.chunk_idx + 1
    <3> HIDE DEF p, r2
    <3> QED BY <1>3, <2>2, <2>3 DEF EndsStreamed
  <2>5. CASE IsNewFrame(q, c)
    <3>1. r2 = StartFrame(r1, c)  BY <2>5 DEF BeforeAppend
    <3>2. r2.active /\ r2.buf = << >> /\ r2.write_off = 0 /\ r2.frame_pts = c.frame_pts
      <4> HIDE DEF r1, r2
      <4>1. r2.frame_pts = c.frame_pts  BY <1>2, <3>1 DEF StartFrame, Reasm
      <4> QED BY <1>2, <3>1, <4>1, StartFrameFacts
    <3>3. p.buf = <<[at |-> 0, piece |-> c.piece]>> /\ p.write_off = c.piece.len
      <4> HIDE DEF p, r2
      <4> QED BY <1>1, <2>3, <3>2
    <3> HIDE DEF p, r2
    <3> QED BY <1>6, <2>3, <2>4, <2>5, <3>2, <3>3 DEF p
  <2>6. CASE ~IsNewFrame(q, c)
    <3>1. r2 = q  BY <2>6 DEF BeforeAppend
    <3>2. q.active  BY <2>6 DEF IsNewFrame
    <3> HIDE DEF p, r2
    <3> QED BY <2>3, <2>4, <3>1, <3>2 DEF p
  <2> QED BY <2>5, <2>6
<1> QED BY <1>4, <1>5, <1>6

-----------------------------------------------------------------------------
(* OrderInv *)

\* Nothing is encoded, in flight or shown yet.
LEMMA InitOrder == Init => OrderInv
<1> SUFFICES ASSUME Init PROVE OrderInv  OBVIOUS
<1>1. Shown = 0  BY DEF Init, Shown
<1>2. ~r.active /\ encoded = 0 /\ slices = << >> /\ ring = << >> /\ link = << >> /\ call.run = << >>
  BY DEF Init, reassembly_init, NoCall
<1> QED BY <1>1, <1>2 DEF OrderInv, RingOrder, RunOrder, LinkOrder, ShownOrder

\* The numbers OrderInv compares are numbers.
LEMMA OrderTypes ==
  ASSUME TypeOK
  PROVE  /\ encoded \in Nat /\ Shown \in Nat /\ r.frame_pts \in Nat
         /\ link \in Seq(Chunk) /\ ring \in Seq(Entry) /\ call.run \in Seq(Chunk)
         /\ \A i \in DOMAIN link : link[i] \in Chunk /\ link[i].piece.src \in Nat
         /\ \A i \in DOMAIN call.run : call.run[i] \in Chunk /\ call.run[i].piece.src \in Nat
         /\ \A i \in DOMAIN ring : ring[i] \in Entry /\ ring[i].pts \in Nat
<1>1. encoded \in Nat /\ ring \in Seq(Entry)  BY DEF TypeOK, EncTypes
<1>2. r.frame_pts \in Nat  BY DEF TypeOK, RxTypes, Reasm
<1>3. link \in Seq(Chunk) /\ call.run \in Seq(Chunk)  BY DEF TypeOK, TxTypes
<1>4. \A c \in Chunk : c.piece.src \in Nat  BY DEF Chunk, Piece
<1>5. Shown \in Nat
  <2>1. got \in Seq(Piece)  BY DEF TypeOK, HistTypes
  <2>2. got # << >> => got[1] \in Piece  BY <2>1
  <2> QED BY <2>2 DEF Shown, Piece
<1>6. \A i \in DOMAIN link : link[i] \in Chunk  BY <1>3, SeqFacts
<1>7. \A i \in DOMAIN call.run : call.run[i] \in Chunk  BY <1>3, SeqFacts
<1>8. \A i \in DOMAIN ring : ring[i] \in Entry  BY <1>1, SeqFacts
<1>9. \A e \in Entry : e.pts \in Nat  BY DEF Entry
<1> QED BY <1>1, <1>2, <1>3, <1>4, <1>5, <1>6, <1>7, <1>8, <1>9

\* A step that only loses things: chunks at the head of the socket (d of them), the rest
\* of a call, the ring or the encoder's slices.  Non-video chunks may join the socket.
Loses(d) ==
    /\ UNCHANGED <<encoded, r, got>>
    /\ slices' \in {slices, << >>} /\ ring' \in {ring, << >>} /\ call'.run \in {call.run, << >>}
    /\ \A i \in DOMAIN link' : link'[i].codec = "h265" =>
         i + d \in DOMAIN link /\ link'[i] = link[i + d]

\* Losing something keeps the order.
LEMMA LossOrder ==
  ASSUME TypeOK, OrderInv, NEW d \in Nat, Loses(d), link' \in Seq(Chunk)
  PROVE  OrderInv'
<1> USE DEF Loses
<1> DEFINE U(c) == /\ c.frame_pts = c.piece.src
                   /\ c.chunk_count = c.chunk_idx + 1 => c.piece.end
                   /\ Shown' < c.piece.src /\ (r'.active => r'.frame_pts <= c.piece.src)
                   /\ \A k \in DOMAIN ring' : Follows(ring'[k].pts, c)
                   /\ c.piece.src <= encoded' /\ (slices' # << >> => Follows(encoded', c))
<1>1. Shown' = Shown  BY DEF Shown
<1>2. RingOrder /\ RunOrder /\ LinkOrder /\ ShownOrder  BY DEF OrderInv
<1>3. ASSUME NEW c, Underway(c) PROVE U(c)  BY <1>1, <1>3 DEF Underway
<1>4. RingOrder'  BY <1>1, <1>2 DEF RingOrder
<1>5. RunOrder'
  <2>1. \A i \in DOMAIN call'.run : i \in DOMAIN call.run /\ call'.run[i] = call.run[i]  OBVIOUS
  <2>2. \A i \in DOMAIN call'.run : U(call'.run[i])  BY <1>2, <1>3, <2>1 DEF RunOrder
  <2>3. \A i, j \in DOMAIN call'.run : i < j => Follows(call'.run[j].piece.src, call'.run[i])
    BY <1>2, <2>1 DEF RunOrder
  <2> QED BY <2>2, <2>3 DEF RunOrder, Underway, Follows
<1>6. LinkOrder'
  <2> SUFFICES ASSUME NEW i \in DOMAIN link', link'[i].codec = "h265"
               PROVE  /\ U(link'[i])
                      /\ \A j \in DOMAIN link' :
                           i < j /\ link'[j].codec = "h265" => Follows(link'[j].piece.src, link'[i])
                      /\ \A j \in DOMAIN call'.run : Follows(call'.run[j].piece.src, link'[i])
    BY DEF LinkOrder, Underway, Follows
  <2>1. i + d \in DOMAIN link /\ link'[i] = link[i + d] /\ link[i + d].codec = "h265"  OBVIOUS
  <2>2. U(link'[i])  BY <1>2, <1>3, <2>1 DEF LinkOrder
  <2>3. ASSUME NEW j \in DOMAIN link', i < j, link'[j].codec = "h265"
        PROVE  Follows(link'[j].piece.src, link'[i])
    <3>1. j + d \in DOMAIN link /\ link'[j] = link[j + d]  BY <2>3
    <3>2. i + d < j + d
      <4>1. i \in Nat /\ j \in Nat  OBVIOUS
      <4> QED BY <2>3, <4>1
    <3> QED BY <1>2, <2>1, <2>3, <3>1, <3>2 DEF LinkOrder
  <2>4. \A j \in DOMAIN call'.run : Follows(call'.run[j].piece.src, link'[i])
    <3>1. \A j \in DOMAIN call'.run : j \in DOMAIN call.run /\ call'.run[j] = call.run[j]  OBVIOUS
    <3> QED BY <1>2, <2>1, <3>1 DEF LinkOrder
  <2> QED BY <2>2, <2>3, <2>4
<1>7. ShownOrder'  BY <1>1, <1>2 DEF ShownOrder
<1> QED BY <1>4, <1>5, <1>6, <1>7 DEF OrderInv

\* A slice goes into the ring behind everything older; a frame's last one ends it.
LEMMA PublishOrder ==
  ASSUME TypeOK, OrderInv, NEW pts \in Nat, NEW rest \in Seq([len: Nat, vcl: BOOLEAN]),
         rest # << >>, NEW off \in Nat, Publish(pts, rest, off),
         (pts = encoded + 1 /\ slices = << >>) \/ (pts = encoded /\ slices # << >>)
  PROVE  OrderInv'
<1> DEFINE e == [pts |-> pts, off |-> off, len |-> Head(rest).len,
                 partial |-> Len(rest) > 1, vcl |-> Head(rest).vcl]
           U(c) == /\ c.frame_pts = c.piece.src
                   /\ c.chunk_count = c.chunk_idx + 1 => c.piece.end
                   /\ Shown' < c.piece.src /\ (r'.active => r'.frame_pts <= c.piece.src)
                   /\ \A k \in DOMAIN ring' : Follows(ring'[k].pts, c)
                   /\ c.piece.src <= encoded' /\ (slices' # << >> => Follows(encoded', c))
<1>1. RingOrder /\ RunOrder /\ LinkOrder /\ ShownOrder  BY DEF OrderInv
<1>2. encoded' = pts /\ r' = r /\ got' = got /\ call' = call /\ link' = link
  BY DEF Publish, txVars, rxVars, histVars
<1>3. Shown' = Shown  BY <1>2 DEF Shown
<1>4. \/ ring' = Append(ring, e) /\ slices' = Tail(rest)
      \/ ring' = ring /\ slices' = << >>
  BY DEF Publish
<1>5. e.pts = pts /\ (slices' # << >> /\ ring' = Append(ring, e) => e.partial)
  <2>1. Len(rest) \in Nat /\ (Len(rest) <= 1 => Tail(rest) = << >>)  OBVIOUS
  <2>2. e.pts = pts /\ e.partial = (Len(rest) > 1)  BY Zenon
  <2>3. slices' # << >> => Len(rest) > 1
    <3> HIDE DEF e
    <3> QED BY <1>4, <2>1
  <2> QED BY <2>2, <2>3, Zenon
<1> HIDE DEF e
<1>6. ASSUME NEW k \in DOMAIN ring' PROVE (k \in DOMAIN ring /\ ring'[k] = ring[k]) \/ ring'[k] = e
  <2>1. ring \in Seq(Entry)  BY OrderTypes
  <2>2. CASE ring' = Append(ring, e)
    <3>1. k \in 1..(Len(ring) + 1) /\ Len(ring) \in Nat  BY <2>1, <2>2
    <3> QED BY <2>1, <2>2, <3>1
  <2> QED BY <1>4, <2>2
<1>7. encoded \in Nat /\ Shown \in Nat /\ r.frame_pts \in Nat  BY OrderTypes
<1>8. Shown < pts /\ (r.active => r.frame_pts <= pts)
  BY <1>1, <1>7 DEF ShownOrder
<1>9. ASSUME NEW c, Underway(c), c.piece.src \in Nat PROVE U(c)
  <2>1. Follows(pts, c)  BY <1>7, <1>9 DEF Underway, Follows
  <2>2. \A k \in DOMAIN ring' : Follows(ring'[k].pts, c)
    BY <1>5, <1>6, <1>9, <2>1 DEF Underway
  <2>3. c.piece.src <= pts  BY <1>7, <1>9 DEF Underway
  <2> QED BY <1>2, <1>3, <1>9, <2>1, <2>2, <2>3 DEF Underway
<1>10. RunOrder'
  <2>1. \A i \in DOMAIN call.run : U(call.run[i])  BY <1>1, <1>9, OrderTypes DEF RunOrder
  <2>2. \A i, j \in DOMAIN call.run : i < j => Follows(call.run[j].piece.src, call.run[i])
    BY <1>1 DEF RunOrder
  <2> QED BY <1>2, <2>1, <2>2 DEF RunOrder, Underway, Follows
<1>11. LinkOrder'
  <2>1. \A i \in DOMAIN link : link[i].codec = "h265" => U(link[i])
    BY <1>1, <1>9, OrderTypes DEF LinkOrder
  <2>2. \A i \in DOMAIN link : link[i].codec = "h265" =>
           /\ \A j \in DOMAIN link :
                i < j /\ link[j].codec = "h265" => Follows(link[j].piece.src, link[i])
           /\ \A j \in DOMAIN call.run : Follows(call.run[j].piece.src, link[i])
    BY <1>1 DEF LinkOrder
  <2> QED BY <1>2, <2>1, <2>2 DEF LinkOrder, Underway, Follows
<1>12. RingOrder'
  <2>1. ASSUME NEW k \in DOMAIN ring'
        PROVE  /\ Shown < ring'[k].pts /\ (r.active => r.frame_pts <= ring'[k].pts)
               /\ ring'[k].pts <= pts /\ (slices' # << >> /\ ~ring'[k].partial => ring'[k].pts < pts)
    <3>1. CASE k \in DOMAIN ring /\ ring'[k] = ring[k]
      <4>1. ring[k].pts \in Nat /\ ring[k].pts <= encoded
            /\ (slices # << >> /\ ~ring[k].partial => ring[k].pts < encoded)
            /\ Shown < ring[k].pts /\ (r.active => r.frame_pts <= ring[k].pts)
        BY <1>1, <3>1, OrderTypes DEF RingOrder
      <4> QED BY <1>7, <3>1, <4>1
    <3>2. CASE ring'[k] = e /\ ring' = Append(ring, e)
      BY <1>5, <1>8, <3>2
    <3> QED BY <1>4, <1>6, <3>1, <3>2
  <2>2. ASSUME NEW j \in DOMAIN ring', NEW k \in DOMAIN ring', j < k
        PROVE  ring'[j].pts <= ring'[k].pts /\ (~ring'[j].partial => ring'[j].pts < ring'[k].pts)
    <3>0. ring \in Seq(Entry)  BY OrderTypes
    <3>1. j \in DOMAIN ring /\ ring'[j] = ring[j]
      <4>1. CASE ring' = Append(ring, e)
        <5>1. Len(ring) \in Nat /\ DOMAIN ring' = 1..(Len(ring) + 1) /\ DOMAIN ring = 1..Len(ring)
              /\ \A i \in 1..Len(ring) : ring'[i] = ring[i]
          BY <3>0, <4>1
        <5>2. j \in 1..Len(ring)  BY <2>2, <5>1
        <5> QED BY <5>1, <5>2
      <4> QED BY <1>4, <4>1
    <3>2. CASE k \in DOMAIN ring /\ ring'[k] = ring[k]
      BY <1>1, <2>2, <3>1, <3>2 DEF RingOrder
    <3>3. CASE ring'[k] = e
      <4>1. ring[j].pts \in Nat /\ ring[j].pts <= encoded
            /\ (slices # << >> /\ ~ring[j].partial => ring[j].pts < encoded)
        BY <1>1, <3>1, OrderTypes DEF RingOrder
      <4> QED BY <1>5, <1>7, <3>1, <3>3, <4>1
    <3> QED BY <1>6, <3>2, <3>3
  <2> QED BY <1>2, <1>3, <2>1, <2>2 DEF RingOrder
<1>13. ShownOrder'
  <2>1. r.active => r.buf # << >> /\ r.buf[1].piece.src = r.frame_pts /\ Shown < r.frame_pts
    BY <1>1 DEF ShownOrder
  <2> QED BY <1>2, <1>3, <1>7, <1>8, <2>1 DEF ShownOrder
<1> QED BY <1>10, <1>11, <1>12, <1>13 DEF OrderInv

\* What TxRead makes of an entry: nothing, or the run of its chunks.
LEMMA TxReadRun ==
  ASSUME TypeOK, TxRead
  PROVE  call'.run = << >> \/ RunOf(call'.run, Head(ring))
<1> DEFINE e       == Head(ring)
           stale   == Overtakes(e)
           open    == sf.open /\ ~stale
           stream  == e.partial \/ open
           no      == IF stale THEN frame_no + 1 ELSE frame_no
           seq     == IF stale THEN NextSeq(frame_seq) ELSE frame_seq
           f       == IF open THEN sf
                      ELSE IF stream THEN [NoFrame EXCEPT !.open = TRUE, !.pts = e.pts]
                      ELSE [sf EXCEPT !.open = FALSE]
           first   == IF stream THEN f.next_idx ELSE 0
           run     == IF stream THEN chunk_part(seq, e, first, ~e.partial, Id(epoch, no))
                      ELSE chunk_frame(seq, e, Id(epoch, no))
<1>1. e \in Entry  BY SeqFacts DEF TxRead, TypeOK, EncTypes
<1>2. e.partial \in BOOLEAN /\ (~e.partial) \in BOOLEAN /\ e.len \in Nat  BY <1>1 DEF Entry
<1>3. call'.run = << >> \/ call'.run = run  BY DEF TxRead
<1>4. RunOf(run, e)
  <2>1. frame_no \in Nat /\ epoch \in Nat /\ frame_seq \in Nat
        /\ sf \in [open: BOOLEAN, failed: BOOLEAN, pts: Nat, next_idx: Nat, sent: Nat]
    BY Constants DEF TypeOK, TxTypes
  <2>2. Id(epoch, no) \in [epoch: Nat, no: Nat]  BY <2>1 DEF Id
  <2>3. seq \in Nat
    <3>1. NextSeq(frame_seq) \in 0..(SeqMod - 1)  BY <2>1, NextSeqFacts
    <3> QED BY <2>1, <3>1, Constants
  <2>4. first \in Nat  BY <2>1 DEF NoFrame
  <2>5. ~stream => ~e.partial  OBVIOUS
  <2>6. ChunkCount(e.len) \in Nat  BY <1>2, ChunkCountFacts
  <2> HIDE DEF e, stale, open, stream, no, seq, f, first
  <2>7. RunOf(chunk_part(seq, e, first, ~e.partial, Id(epoch, no)), e)
    BY <1>1, <1>2, <2>2, <2>3, <2>4, RunFacts DEF chunk_part
  <2>8. ~e.partial => RunOf(chunk_frame(seq, e, Id(epoch, no)), e)
    BY <1>1, <1>2, <2>2, <2>3, <2>6, RunFacts DEF chunk_frame
  <2> QED BY <2>5, <2>7, <2>8
<1> HIDE DEF run
<1> QED BY <1>3, <1>4

\* The chunks of a ring entry are behind all that is in flight and ahead of the rest of
\* the ring, also when the entry is refused or closes a frame that lost its end.
LEMMA TxReadOrder ==
  ASSUME TypeOK, TypeOK', OrderInv, TxRead
  PROVE  OrderInv'
<1> DEFINE e       == Head(ring)
           run == call'.run
           U(c) == /\ c.frame_pts = c.piece.src
                   /\ c.chunk_count = c.chunk_idx + 1 => c.piece.end
                   /\ Shown' < c.piece.src /\ (r'.active => r'.frame_pts <= c.piece.src)
                   /\ \A k \in DOMAIN ring' : Follows(ring'[k].pts, c)
                   /\ c.piece.src <= encoded' /\ (slices' # << >> => Follows(encoded', c))
<1>1. RingOrder /\ RunOrder /\ LinkOrder /\ ShownOrder  BY DEF OrderInv
<1>2. /\ encoded' = encoded /\ slices' = slices /\ r' = r /\ got' = got /\ link' = link
      /\ ring' = Tail(ring)
  BY DEF TxRead, encVars, rxVars, histVars
<1>3. Shown' = Shown  BY <1>2 DEF Shown
<1>4. /\ e \in Entry /\ e = ring[1] /\ 1 \in DOMAIN ring
      /\ \A k \in DOMAIN ring' : k + 1 \in DOMAIN ring /\ ring'[k] = ring[k + 1] /\ 1 < k + 1 /\ k \in Nat
  <2>1. ring \in Seq(Entry) /\ ring # << >>  BY DEF TxRead, TypeOK, EncTypes
  <2> QED BY <1>2, <2>1
<1>5. e.pts \in Nat /\ e.partial \in BOOLEAN /\ (~e.partial) \in BOOLEAN /\ e.len \in Nat
  BY <1>4 DEF Entry
<1>6. run = << >> \/ RunOf(run, e)  BY TxReadRun
<1> HIDE DEF run, e
<1>8. /\ Shown < e.pts /\ (r.active => r.frame_pts <= e.pts)
      /\ e.pts <= encoded /\ (slices # << >> /\ ~e.partial => e.pts < encoded)
      /\ \A k \in DOMAIN ring' : e.pts <= ring'[k].pts /\ (~e.partial => e.pts < ring'[k].pts)
  <2>1. \A k \in DOMAIN ring' : ring[1].pts <= ring[k+1].pts /\ (~ring[1].partial => ring[1].pts < ring[k+1].pts)
    BY <1>1, <1>4 DEF RingOrder
  <2>2. /\ Shown < ring[1].pts /\ (r.active => r.frame_pts <= ring[1].pts)
        /\ ring[1].pts <= encoded /\ (slices # << >> /\ ~ring[1].partial => ring[1].pts < encoded)
    BY <1>1, <1>4 DEF RingOrder
  <2> QED BY <1>4, <2>1, <2>2
<1>9. ASSUME NEW c, Underway(c) PROVE U(c) /\ Follows(e.pts, c)
  <2>1. \A k \in DOMAIN ring : Follows(ring[k].pts, c)  BY <1>9 DEF Underway
  <2>2. \A k \in DOMAIN ring' : Follows(ring'[k].pts, c)  BY <1>4, <2>1
  <2> QED BY <1>2, <1>3, <1>4, <1>9, <2>1, <2>2 DEF Underway
<1>10. RunOrder'
  <2>1. CASE run = << >>  BY <2>1 DEF RunOrder, run
  <2>2. CASE RunOf(run, e)
    <3>1. \A i \in DOMAIN run : U(run[i])
      BY <1>2, <1>3, <1>8, <2>2 DEF RunOf, Follows
    <3>2. run \in Seq(Chunk)  BY DEF TypeOK, TxTypes, run
    <3>3. \A i, j \in DOMAIN run : i < j => i # Len(run)
      <4>1. DOMAIN run = 1..Len(run) /\ Len(run) \in Nat  BY <3>2
      <4> QED BY <4>1
    <3>4. \A i, j \in DOMAIN run : i < j => Follows(run[j].piece.src, run[i])
      BY <1>5, <2>2, <3>3 DEF RunOf, Follows
    <3> QED BY <3>1, <3>4 DEF RunOrder, Underway, Follows, run
  <2> QED BY <1>6, <2>1, <2>2
<1>11. LinkOrder'
  <2>1. \A i \in DOMAIN link : link[i].codec = "h265" => U(link[i]) /\ Follows(e.pts, link[i])
    BY <1>1, <1>9 DEF LinkOrder
  <2>2. \A i \in DOMAIN link : link[i].codec = "h265" =>
           \A j \in DOMAIN link : i < j /\ link[j].codec = "h265" => Follows(link[j].piece.src, link[i])
    BY <1>1 DEF LinkOrder
  <2>3. \A j \in DOMAIN call'.run : call'.run[j].piece.src = e.pts
    BY <1>6 DEF RunOf, run
  <2> QED BY <1>2, <2>1, <2>2, <2>3 DEF LinkOrder, Underway, Follows
<1>12. RingOrder'
  <2>1. \A k \in DOMAIN ring' :
            /\ Shown < ring'[k].pts /\ (r.active => r.frame_pts <= ring'[k].pts)
            /\ ring'[k].pts <= encoded /\ (slices # << >> /\ ~ring'[k].partial => ring'[k].pts < encoded)
    BY <1>1, <1>4 DEF RingOrder
  <2>2. \A j, k \in DOMAIN ring' : j < k =>
            ring'[j].pts <= ring'[k].pts /\ (~ring'[j].partial => ring'[j].pts < ring'[k].pts)
    <3>1. \A j, k \in DOMAIN ring' : j < k => j + 1 < k + 1  BY <1>4
    <3> QED BY <1>1, <1>4, <3>1 DEF RingOrder
  <2> QED BY <1>2, <1>3, <2>1, <2>2 DEF RingOrder
<1>13. ShownOrder'  BY <1>1, <1>2, <1>3 DEF ShownOrder
<1> QED BY <1>10, <1>11, <1>12, <1>13 DEF OrderInv

\* The next chunk of the call joins the socket behind what is in flight.
LEMMA TxWriteOrder ==
  ASSUME TypeOK, OrderInv, TxWrite
  PROVE  OrderInv'
<1> DEFINE run == call.run
           h == Head(run)
           l == link \o AuxChunks(outq)
           U(c) == /\ c.frame_pts = c.piece.src
                   /\ c.chunk_count = c.chunk_idx + 1 => c.piece.end
                   /\ Shown' < c.piece.src /\ (r'.active => r'.frame_pts <= c.piece.src)
                   /\ \A k \in DOMAIN ring' : Follows(ring'[k].pts, c)
                   /\ c.piece.src <= encoded' /\ (slices' # << >> => Follows(encoded', c))
<1>1. RingOrder /\ RunOrder /\ LinkOrder /\ ShownOrder  BY DEF OrderInv
<1>2. /\ encoded' = encoded /\ slices' = slices /\ r' = r /\ got' = got /\ ring' = ring
      /\ run # << >> /\ link' = l \o <<h>>
  BY DEF TxWrite, encVars, rxVars, histVars
<1>3. Shown' = Shown  BY <1>2 DEF Shown
<1>4. run \in Seq(Chunk) /\ call'.run = Tail(run)
  <2>1. call' = [call EXCEPT !.run = Tail(call.run), !.s = call.s + 1]  BY DEF TxWrite
  <2> QED BY <2>1 DEF TypeOK, TxTypes
<1>5. /\ h \in Chunk /\ h = run[1] /\ 1 \in DOMAIN run
      /\ \A i \in DOMAIN Tail(run) : i \in Nat /\ i + 1 \in DOMAIN run /\ 1 < i + 1 /\ Tail(run)[i] = run[i + 1]
  BY <1>2, <1>4
<1>6. /\ l \in Seq(Chunk)
      /\ \A i \in DOMAIN l : l[i].codec = "h265" => i \in DOMAIN link /\ l[i] = link[i]
  <2>1. outq \in Nat  BY Constants DEF TypeOK, TxTypes
  <2> QED BY <2>1, AuxAppended
<1> HIDE DEF h, l
<1>7. /\ DOMAIN link' = 1..(Len(l) + 1) /\ link'[Len(l) + 1] = h /\ Len(l) \in Nat
      /\ \A i \in 1..Len(l) : i \in DOMAIN l /\ link'[i] = l[i]
  <2>1. link' = Append(l, h)  BY <1>2, <1>5, <1>6
  <2> QED BY <1>5, <1>6, <2>1
<1>8. ASSUME NEW c, Underway(c) PROVE U(c)  BY <1>2, <1>3, <1>8 DEF Underway
<1>9. \A i \in DOMAIN run : U(run[i])  BY <1>1, <1>8 DEF RunOrder
<1>10. \A i \in DOMAIN Tail(run) : Follows(Tail(run)[i].piece.src, h)  BY <1>1, <1>5 DEF RunOrder
<1>11. ASSUME NEW i \in DOMAIN link', link'[i].codec = "h265"
       PROVE  (i \in 1..Len(l) /\ i \in DOMAIN link /\ link'[i] = link[i]) \/ (i = Len(l) + 1 /\ link'[i] = h)
  BY <1>6, <1>7, <1>11
<1>12. RunOrder'
  <2>1. \A i \in DOMAIN Tail(run) : U(Tail(run)[i])  BY <1>5, <1>9
  <2>2. \A i, j \in DOMAIN Tail(run) : i < j => Follows(Tail(run)[j].piece.src, Tail(run)[i])
    <3>1. \A i, j \in DOMAIN Tail(run) : i < j => i + 1 < j + 1  BY <1>5
    <3> QED BY <1>1, <1>5, <3>1 DEF RunOrder
  <2> HIDE DEF run
  <2> QED BY <1>4, <2>1, <2>2 DEF RunOrder, Underway, Follows
<1>13. LinkOrder'
  <2>1. ASSUME NEW i \in DOMAIN link', link'[i].codec = "h265"
        PROVE  /\ U(link'[i])
               /\ \A j \in DOMAIN link' :
                    i < j /\ link'[j].codec = "h265" => Follows(link'[j].piece.src, link'[i])
               /\ \A j \in DOMAIN Tail(run) : Follows(Tail(run)[j].piece.src, link'[i])
    <3>1. CASE i \in 1..Len(l) /\ i \in DOMAIN link /\ link'[i] = link[i]
      <4>1. Underway(link[i]) /\ \A j \in DOMAIN run : Follows(run[j].piece.src, link[i])
        BY <1>1, <2>1, <3>1 DEF LinkOrder
      <4>2. ASSUME NEW j \in DOMAIN link', i < j, link'[j].codec = "h265"
            PROVE  Follows(link'[j].piece.src, link'[i])
        <5>1. CASE j \in DOMAIN link /\ link'[j] = link[j]
          BY <1>1, <2>1, <3>1, <4>2, <5>1 DEF LinkOrder
        <5>2. CASE link'[j] = h
          BY <1>5, <3>1, <4>1, <5>2
        <5> QED BY <1>11, <4>2, <5>1, <5>2
      <4> QED BY <1>5, <1>8, <3>1, <4>1, <4>2
    <3>2. CASE i = Len(l) + 1 /\ link'[i] = h
      <4>1. \A j \in DOMAIN link' : ~(i < j)  BY <1>7, <3>2
      <4>2. U(h)  BY <1>5, <1>9
      <4> QED BY <1>10, <3>2, <4>1, <4>2
    <3> QED BY <1>11, <2>1, <3>1, <3>2
  <2> HIDE DEF run
  <2> QED BY <1>4, <2>1 DEF LinkOrder, Underway, Follows
<1>14. RingOrder' /\ ShownOrder'  BY <1>1, <1>2, <1>3 DEF RingOrder, ShownOrder
<1> QED BY <1>12, <1>13, <1>14 DEF OrderInv

\* What a video chunk does to the picture shown and to the frame in progress: rx shows a
\* picture only with the piece that ends it.
LEMMA RxVideoShows ==
  ASSUME TypeOK, OrderInv, RxVideo
  PROVE  LET c == Head(link)
         IN  \/ /\ Shown' = Shown /\ r'.completed_frames = r.completed_frames
                /\ r'.active => /\ r'.buf # << >> /\ r'.buf[1].piece.src = r'.frame_pts
                                /\ Shown < r'.frame_pts /\ r'.frame_pts <= c.piece.src
             \/ /\ Shown < Shown' /\ Shown' <= c.piece.src /\ c.piece.end
                /\ Shown' = reassembly_feed(r, c).frame_pts
                /\ ~r'.active /\ r'.completed_frames = r.completed_frames + 1
<1> DEFINE c  == Head(link)
           r1 == reassembly_feed(r, c)
<1>1. c \in Chunk /\ c = link[1] /\ 1 \in DOMAIN link /\ c.codec = "h265"
  <2>1. link \in Seq(Chunk) /\ link # << >> /\ Head(link).codec = "h265"  BY DEF TypeOK, TxTypes, RxVideo
  <2> QED BY <2>1
<1>2. Underway(c)  BY <1>1 DEF OrderInv, LinkOrder
<1>3. \/ r' = r1 /\ got' = got /\ ~(r1.completed_frames > r.completed_frames)
      \/ /\ r' = reassembly_reset(r1)
         /\ got' = [i \in DOMAIN r1.buf |-> r1.buf[i].piece]
         /\ r1.completed_frames > r.completed_frames
  BY DEF RxVideo
<1>4. r \in Reasm /\ r1 \in Reasm /\ r1.completed_frames \in {r.completed_frames, r.completed_frames + 1}
  <2>1. r \in Reasm  BY DEF TypeOK, RxTypes
  <2> HIDE DEF c
  <2> QED BY <1>1, <2>1, FeedFacts
<1>5. /\ r1.completed_frames # r.completed_frames => r1.active /\ c.chunk_count = c.chunk_idx + 1
      /\ r1.active =>
             \/ r1.frame_pts = c.frame_pts /\ r1.buf = <<[at |-> 0, piece |-> c.piece]>>
             \/ r.active /\ r1.frame_pts = r.frame_pts
                /\ r1.buf = Append(r.buf, [at |-> r.write_off, piece |-> c.piece])
  <2> HIDE DEF c
  <2> QED BY <1>1, <1>4, FeedOrder
<1>6. Shown \in Nat /\ r.frame_pts \in Nat /\ c.piece.src \in Nat  BY <1>1, OrderTypes
<1>7. r.completed_frames \in Nat /\ r.buf \in Seq(Placed)  BY <1>4 DEF Reasm
<1> HIDE DEF c, r1
<1>8. ASSUME r1.active
      PROVE  /\ r1.buf # << >> /\ r1.buf[1].piece.src = r1.frame_pts
             /\ Shown < r1.frame_pts /\ r1.frame_pts <= c.piece.src
  <2>1. CASE r1.frame_pts = c.frame_pts /\ r1.buf = <<[at |-> 0, piece |-> c.piece]>>
    <3>1. c.frame_pts = c.piece.src /\ Shown < c.piece.src  BY <1>2 DEF Underway
    <3>2. r1.buf # << >> /\ r1.buf[1].piece = c.piece  BY <2>1
    <3> QED BY <1>6, <2>1, <3>1, <3>2
  <2>2. CASE r.active /\ r1.frame_pts = r.frame_pts
             /\ r1.buf = Append(r.buf, [at |-> r.write_off, piece |-> c.piece])
    <3>1. r.buf # << >> /\ r.buf[1].piece.src = r.frame_pts /\ Shown < r.frame_pts
      BY <2>2 DEF OrderInv, ShownOrder
    <3>2. r.frame_pts <= c.piece.src  BY <1>2, <2>2 DEF Underway
    <3>3. r1.buf # << >> /\ r1.buf[1] = r.buf[1]
      <4> DEFINE h == [at |-> r.write_off, piece |-> c.piece]
      <4>1. r1.buf = Append(r.buf, h)  BY <2>2
      <4> HIDE DEF h
      <4> QED BY <1>7, <3>1, <4>1
    <3> QED BY <2>2, <3>1, <3>2, <3>3
  <2> QED BY <1>5, <1>8, <2>1, <2>2
<1>9. CASE r' = r1 /\ got' = got /\ ~(r1.completed_frames > r.completed_frames)
  <2>1. Shown' = Shown  BY <1>9 DEF Shown
  <2>2. r1.completed_frames = r.completed_frames  BY <1>4, <1>7, <1>9
  <2> QED BY <1>8, <1>9, <2>1, <2>2 DEF c
<1>10. CASE /\ r' = reassembly_reset(r1)
            /\ got' = [i \in DOMAIN r1.buf |-> r1.buf[i].piece]
            /\ r1.completed_frames > r.completed_frames
  <2>1. r1.active /\ c.chunk_count = c.chunk_idx + 1 /\ r1.completed_frames = r.completed_frames + 1
    BY <1>4, <1>5, <1>7, <1>10
  <2>2. c.piece.end  BY <1>2, <2>1 DEF Underway
  <2>3. Shown' = r1.frame_pts
    <3>1. r1.buf \in Seq(Placed) /\ r1.buf # << >>  BY <1>4, <1>8, <2>1 DEF Reasm
    <3>2. 1 \in DOMAIN r1.buf  BY <3>1
    <3>3. got' # << >> /\ got'[1] = r1.buf[1].piece  BY <1>10, <3>2
    <3> QED BY <1>8, <2>1, <3>3 DEF Shown
  <2>4. ~r'.active /\ r'.completed_frames = r1.completed_frames  BY <1>4, <1>10, ResetFacts
  <2> QED BY <1>8, <2>1, <2>2, <2>3, <2>4 DEF c, r1
<1> QED BY <1>3, <1>9, <1>10

\* The rx loop's handling of a video chunk keeps the order.
LEMMA RxVideoOrder ==
  ASSUME TypeOK, TypeOK', OrderInv, RxVideo
  PROVE  OrderInv'
<1> DEFINE c  == Head(link)
           U(x) == /\ x.frame_pts = x.piece.src
                   /\ x.chunk_count = x.chunk_idx + 1 => x.piece.end
                   /\ Shown' < x.piece.src /\ (r'.active => r'.frame_pts <= x.piece.src)
                   /\ \A k \in DOMAIN ring' : Follows(ring'[k].pts, x)
                   /\ x.piece.src <= encoded' /\ (slices' # << >> => Follows(encoded', x))
           \* pts comes after the chunk that was taken in.
           After(pts) == Shown' < pts /\ (r'.active => r'.frame_pts <= pts)
<1>1. RingOrder /\ RunOrder /\ LinkOrder /\ ShownOrder  BY DEF OrderInv
<1>2. /\ encoded' = encoded /\ slices' = slices /\ ring' = ring /\ call' = call
      /\ link # << >> /\ link' = Tail(link) /\ c.codec = "h265"
  BY DEF RxVideo, encVars, txVars
<1>3. c = link[1] /\ 1 \in DOMAIN link
  <2>1. link \in Seq(Chunk)  BY OrderTypes
  <2> QED BY <1>2, <2>1
<1>4. \A i \in DOMAIN link' : i + 1 \in DOMAIN link /\ link'[i] = link[i + 1] /\ 1 < i + 1 /\ i \in Nat
  <2>1. link' \in Seq(Chunk)  BY DEF TypeOK, TxTypes
  <2> QED BY <1>2, <2>1, TailFacts
<1>5. /\ Underway(c)
      /\ \A j \in DOMAIN call.run : Follows(call.run[j].piece.src, c)
      /\ \A j \in DOMAIN link' : link'[j].codec = "h265" => Follows(link'[j].piece.src, c)
  BY <1>1, <1>2, <1>3, <1>4 DEF LinkOrder
<1>6. c.piece.src \in Nat /\ Shown \in Nat /\ Shown' \in Nat /\ r'.frame_pts \in Nat
  <2>1. Shown' \in Nat /\ r'.frame_pts \in Nat
    <3>1. got' \in Seq(Piece) /\ r' \in Reasm  BY DEF TypeOK, HistTypes, RxTypes
    <3>2. got' # << >> => got'[1] \in Piece  BY <3>1
    <3> QED BY <3>1, <3>2 DEF Shown, Piece, Reasm
  <2> QED BY <1>3, <2>1, OrderTypes
<1>7. \/ /\ Shown' = Shown
         /\ r'.active => /\ r'.buf # << >> /\ r'.buf[1].piece.src = r'.frame_pts
                         /\ Shown < r'.frame_pts /\ r'.frame_pts <= c.piece.src
      \/ /\ Shown' <= c.piece.src /\ c.piece.end /\ ~r'.active
  BY RxVideoShows
<1>8. Shown < c.piece.src  BY <1>5 DEF Underway
<1> HIDE DEF c
<1>9. ASSUME NEW pts \in Nat, Follows(pts, c) PROVE After(pts)
  BY <1>6, <1>7, <1>8, <1>9 DEF Follows
<1>10. ASSUME NEW x, Underway(x), x.piece.src \in Nat, Follows(x.piece.src, c) PROVE U(x)
  <2>1. After(x.piece.src)  BY <1>9, <1>10
  <2> QED BY <1>2, <1>10, <2>1 DEF Underway
<1>11. RunOrder'
  <2>1. \A i \in DOMAIN call.run : U(call.run[i])  BY <1>1, <1>5, <1>10, OrderTypes DEF RunOrder
  <2>2. \A i, j \in DOMAIN call.run : i < j => Follows(call.run[j].piece.src, call.run[i])
    BY <1>1 DEF RunOrder
  <2> QED BY <1>2, <2>1, <2>2 DEF RunOrder, Underway, Follows
<1>12. LinkOrder'
  <2>1. ASSUME NEW i \in DOMAIN link', link'[i].codec = "h265"
        PROVE  /\ U(link'[i])
               /\ \A j \in DOMAIN link' :
                    i < j /\ link'[j].codec = "h265" => Follows(link'[j].piece.src, link'[i])
               /\ \A j \in DOMAIN call.run : Follows(call.run[j].piece.src, link'[i])
    <3>1. Underway(link[i + 1]) /\ link'[i] = link[i + 1] /\ link[i + 1].piece.src \in Nat
      BY <1>1, <1>4, <2>1, OrderTypes DEF LinkOrder
    <3>2. U(link'[i])
      <4>1. Follows(link[i + 1].piece.src, c)  BY <1>5, <2>1, <3>1
      <4>2. U(link[i + 1])  BY <1>10, <3>1, <4>1
      <4> QED BY <3>1, <4>2
    <3>3. ASSUME NEW j \in DOMAIN link', i < j, link'[j].codec = "h265"
          PROVE  Follows(link'[j].piece.src, link'[i])
      <4>1. i + 1 < j + 1  BY <1>4, <3>3
      <4> QED BY <1>1, <1>4, <2>1, <3>3, <4>1 DEF LinkOrder
    <3>4. \A j \in DOMAIN call.run : Follows(call.run[j].piece.src, link'[i])
      BY <1>1, <1>4, <2>1 DEF LinkOrder
    <3> QED BY <3>2, <3>3, <3>4
  <2> QED BY <1>2, <2>1 DEF LinkOrder, Underway, Follows
<1>13. RingOrder'
  <2>1. \A k \in DOMAIN ring : After(ring[k].pts)
    BY <1>5, <1>9, OrderTypes DEF Underway
  <2> QED BY <1>1, <1>2, <2>1 DEF RingOrder
<1>14. ShownOrder'
  <2>1. c.piece.src <= encoded /\ encoded \in Nat /\ (slices # << >> => Follows(encoded, c))
    BY <1>5, OrderTypes DEF Underway
  <2>2. Shown <= encoded /\ (slices # << >> => Shown < encoded)  BY <1>1 DEF ShownOrder
  <2>3. slices # << >> => Shown' < encoded
    <3>1. Follows(encoded, c) => After(encoded)  BY <1>9, <2>1
    <3> QED BY <2>1, <3>1
  <2>4. Shown' <= encoded  BY <1>6, <1>7, <2>1, <2>2
  <2>5. r'.active => r'.frame_pts <= encoded  BY <1>6, <1>7, <2>1
  <2> QED BY <1>2, <1>7, <2>3, <2>4, <2>5 DEF ShownOrder
<1> QED BY <1>11, <1>12, <1>13, <1>14 DEF OrderInv

\* Every other step only loses things: a failed write, a return, a timeout, a flushed
\* ring, a restart of the encoder or of tx, a lost chunk.
LEMMA QuietLoses ==
  ASSUME TypeOK, TypeOK',
         \/ EncoderRestart \/ OutqPush \/ TxWriteFails \/ TxReturn \/ TxTimeout \/ TxReconnect
         \/ TxRestart \/ LinkLose \/ RxAux \/ UNCHANGED vars
  PROVE  \E d \in Nat : Loses(d)
<1>1. UNCHANGED <<encoded, r, got>> /\ slices' \in {slices, << >>} /\ ring' \in {ring, << >>}
  BY DEF EncoderRestart, OutqPush, TxWriteFails, TxReturn, TxTimeout, TxReconnect, TxRestart,
         LinkLose, RxAux, vars, encVars, rxVars, histVars
<1>2. call'.run \in {call.run, << >>}
  <2>1. call' \in {call, StopRun(call), NoCall}
    BY DEF EncoderRestart, OutqPush, TxWriteFails, TxReturn, TxTimeout, TxReconnect, TxRestart,
           LinkLose, RxAux, vars, txVars
  <2>2. StopRun(call).run = << >> /\ NoCall.run = << >>  BY DEF StopRun, NoCall, TypeOK, TxTypes
  <2> QED BY <2>1, <2>2
<1>3. link' \in Seq(Chunk) /\ link \in Seq(Chunk)  BY DEF TypeOK, TxTypes
<1>4. CASE LinkLose \/ RxAux
  <2>1. \A i \in DOMAIN link' : i + 1 \in DOMAIN link /\ link'[i] = link[i + 1]
    BY <1>4, TailFacts DEF LinkLose, RxAux
  <2>2. 1 \in Nat  OBVIOUS
  <2> QED BY <1>1, <1>2, <1>3, <2>1, <2>2 DEF Loses
<1>5. CASE ~(LinkLose \/ RxAux)
  <2>1. \A i \in DOMAIN link' : link'[i].codec = "h265" => i \in DOMAIN link /\ link'[i] = link[i]
    <3>1. CASE TxWriteFails \/ TxTimeout
      <4>1. PICK j \in Nat : link' = link \o AuxChunks(j)
        <5>1. outq \in Nat  BY Constants DEF TypeOK, TxTypes
        <5> QED BY <3>1, <5>1 DEF TxWriteFails, TxTimeout
      <4> QED BY <4>1, AuxAppended
    <3>2. CASE ~(TxWriteFails \/ TxTimeout)
      <4>1. link' = link
        BY <1>5, <3>2 DEF EncoderRestart, OutqPush, TxReturn, TxReconnect, TxRestart, vars
      <4> QED BY <4>1
    <3> QED BY <3>1, <3>2
  <2>2. 0 \in Nat /\ \A i \in DOMAIN link' : link'[i].codec = "h265" =>
                        i + 0 \in DOMAIN link /\ link'[i] = link[i + 0]
    <3>1. \A i \in DOMAIN link' : i + 0 = i  BY <1>3
    <3> QED BY <2>1, <3>1
  <2> QED BY <1>1, <1>2, <1>3, <2>2 DEF Loses
<1> QED BY <1>4, <1>5

\* So they keep the order.
LEMMA QuietOrder ==
  ASSUME TypeOK, TypeOK', OrderInv,
         \/ EncoderRestart \/ OutqPush \/ TxWriteFails \/ TxReturn \/ TxTimeout \/ TxReconnect
         \/ TxRestart \/ LinkLose \/ RxAux \/ UNCHANGED vars
  PROVE  OrderInv'
<1>1. PICK d \in Nat : Loses(d)  BY QuietLoses
<1>2. link' \in Seq(Chunk)  BY DEF TypeOK, TxTypes
<1> QED BY <1>1, <1>2, LossOrder

\* The encoder's two steps.
LEMMA EncodeOrder ==
  ASSUME TypeOK, OrderInv, EncodeFrame \/ EncodeSlice
  PROVE  OrderInv'
<1>1. encoded \in Nat /\ encoded + 1 \in Nat /\ enc_off \in Nat
      /\ slices \in Seq([len: Nat, vcl: BOOLEAN])
  BY DEF TypeOK, EncTypes
<1>2. CASE EncodeFrame
  <2>1. PICK s \in Slicings : Publish(encoded + 1, s, 0)  BY <1>2 DEF EncodeFrame
  <2>2. s \in Seq([len: Nat, vcl: BOOLEAN]) /\ s # << >>  BY VideoLinkAssumption
  <2>3. slices = << >> /\ 0 \in Nat  BY <1>2 DEF EncodeFrame
  <2> QED BY <1>1, <2>1, <2>2, <2>3, PublishOrder
<1>3. CASE EncodeSlice
  BY <1>1, <1>3, PublishOrder DEF EncodeSlice
<1> QED BY <1>2, <1>3

\* OrderInv is inductive: source frames stay in order from the encoder to the screen.
THEOREM OrderInvariant == Spec => []OrderInv
<1>1. TypeOK /\ TypeOK' /\ OrderInv /\ [Next]_vars => OrderInv'
  BY EncodeOrder, TxReadOrder, TxWriteOrder, RxVideoOrder, QuietOrder DEF Next, Tx, Rx
<1> QED BY <1>1, InitOrder, TypeCorrect, PTL DEF Spec

-----------------------------------------------------------------------------
(* DeliveryInOrder *)

\* Each step captures a picture, delivers a younger one, or is invisible.
LEMMA DeliveryStep ==
  ASSUME TypeOK, TypeOK', OrderInv, [Next]_vars
  PROVE  [Delivery!Next]_<<encoded, Shown, r.completed_frames>>
<1>1. CASE EncodeFrame \/ EncodeSlice
  <2>1. r' = r /\ got' = got /\ encoded' \in {encoded, encoded + 1}
    BY <1>1 DEF EncodeFrame, EncodeSlice, Publish, rxVars, histVars
  <2> QED BY <2>1 DEF Delivery!Next, Delivery!Capture, Shown
<1>2. CASE RxVideo
  <2> DEFINE c == Head(link)
  <2>1. c.piece.src <= encoded /\ c.piece.src \in Nat
    <3>1. link \in Seq(Chunk) /\ link # << >> /\ Head(link).codec = "h265"
      BY <1>2 DEF TypeOK, TxTypes, RxVideo
    <3>2. 1 \in DOMAIN link /\ c = link[1]  BY <3>1
    <3> QED BY <3>1, <3>2, OrderTypes DEF OrderInv, LinkOrder, Underway
  <2>2. encoded' = encoded  BY <1>2 DEF RxVideo, encVars
  <2>3. Shown \in Nat /\ encoded \in Nat  BY OrderTypes
  <2>4. Shown' \in Nat
    <3>1. got' \in Seq(Piece)  BY DEF TypeOK, HistTypes
    <3>2. got' # << >> => got'[1] \in Piece  BY <3>1
    <3> QED BY <3>2 DEF Shown, Piece
  <2>5. \/ Shown' = Shown /\ r'.completed_frames = r.completed_frames
        \/ Shown < Shown' /\ Shown' <= c.piece.src /\ r'.completed_frames = r.completed_frames + 1
    BY <1>2, RxVideoShows
  <2> HIDE DEF c
  <2>6. CASE Shown' = Shown /\ r'.completed_frames = r.completed_frames
    BY <2>2, <2>6
  <2>7. CASE Shown < Shown' /\ Shown' <= c.piece.src /\ r'.completed_frames = r.completed_frames + 1
    <3>1. Shown' \in (Shown + 1)..encoded  BY <2>1, <2>3, <2>4, <2>7
    <3> QED BY <2>2, <2>7, <3>1 DEF Delivery!Next, Delivery!Deliver
  <2> QED BY <2>5, <2>6, <2>7
<1>3. CASE ~(EncodeFrame \/ EncodeSlice \/ RxVideo)
  <2>1. UNCHANGED <<encoded, r, got>>
    BY <1>3 DEF Next, Tx, Rx, EncoderRestart, OutqPush, TxRead, TxWrite, TxWriteFails, TxReturn, TxTimeout,
       TxReconnect, TxRestart, LinkLose, RxAux, vars, encVars, rxVars, histVars
  <2> QED BY <2>1 DEF Shown
<1> QED BY <1>1, <1>2, <1>3

\* The video path refines FrameDelivery: whatever is lost, flushed, refused or restarted,
\* pictures come out in capture order and each at most once.
THEOREM DeliveryHolds == Spec => DeliveryInOrder
<1>1. Init => Delivery!Init  BY DEF Init, Delivery!Init, Shown, reassembly_init
<1>2. TypeOK /\ TypeOK' /\ OrderInv /\ [Next]_vars => [Delivery!Next]_<<encoded, Shown, r.completed_frames>>
  BY DeliveryStep
<1> QED BY <1>1, <1>2, TypeCorrect, OrderInvariant, PTL DEF Spec, DeliveryInOrder, Delivery!Spec

-----------------------------------------------------------------------------
(* MarkerExact *)

\* Something of the buffer is left to send if its last piece starts at off or behind it.
LEMMA RestNotEmpty ==
  ASSUME NEW q \in Reasm, NEW off \in Nat, q.buf # << >>,
         q.buf[Len(q.buf)].at >= off, q.write_off > off
  PROVE  PiecesFrom(q, off) # << >>
<1> DEFINE n == Len(q.buf)
           S == {i \in DOMAIN q.buf : q.buf[i].at < off}
           skip == Cardinality(S)
<1>1. q.buf \in Seq(Placed) /\ q.write_off \in Nat  BY DEF Reasm
<1>2. DOMAIN q.buf = 1..n /\ n \in Nat \ {0} /\ q.buf[n] \in Placed
  BY <1>1, SeqFacts
<1>3. S \in SUBSET (1..n) /\ S # 1..n
  <2>1. n \notin S
    <3>1. q.buf[n].at \in Nat  BY <1>2 DEF Placed
    <3> QED BY <3>1
  <2>2. S \subseteq 1..n /\ n \in 1..n  BY <1>2
  <2> HIDE DEF S
  <2> QED BY <2>1, <2>2
<1>4. skip \in Nat /\ skip < n
  <2>1. IsFiniteSet(1..n) /\ Cardinality(1..n) = n  BY <1>2, FS_Interval
  <2> HIDE DEF S, n
  <2>2. /\ IsFiniteSet(S) /\ Cardinality(S) <= Cardinality(1..n)
        /\ Cardinality(S) # Cardinality(1..n)
    BY <1>3, <2>1, FS_Subset
  <2>3. Cardinality(S) \in Nat  BY <2>2, FS_CardinalityType
  <2> QED BY <1>2, <2>1, <2>2, <2>3
<1> HIDE DEF S, n
<1>5. ~(q.write_off <= off)  BY <1>1
<1>6. PiecesFrom(q, off) = [i \in 1..(n - skip) |-> q.buf[skip + i].piece]
  BY <1>5 DEF PiecesFrom, n, S
<1> HIDE DEF skip
<1>7. 1 \in 1..(n - skip)  BY <1>2, <1>4
<1>8. 1 \in DOMAIN PiecesFrom(q, off)  BY <1>6, <1>7
<1> QED BY <1>8

\* A frame with bytes is sent to its end under its own timestamp, and marked.
LEMMA ForwardMarks ==
  ASSUME rtp \in RtpType, NEW r1 \in Reasm, NEW off0 \in Nat, NEW vcl0 \in BOOLEAN,
         NEW sei \in BOOLEAN, PiecesFrom(r1, off0) # << >>, ForwardFrame(r1, off0, vcl0, sei)
  PROVE  rtp'.ts = r1.frame_pts /\ rtp'.marked
<1> DEFINE rest == PiecesFrom(r1, off0)
           p    == IF sei THEN RtpSendSei(rtp, IF vcl0 THEN "suffix" ELSE "prefix",
                                          r1.write_off = off0)
                   ELSE rtp
           q    == RtpSend(rtp, r1.frame_pts, rest, TRUE)
<1>1. rtp' = IF off0 = 0
             THEN SendFrameWithSei(rtp, r1.frame_pts, rest, r1.write_off, sei)
             ELSE RtpSend(p, r1.frame_pts, rest, TRUE)
  BY DEF ForwardFrame
<1>2. rest \in Seq(Piece) /\ r1.frame_pts \in Nat  BY PiecesFromType DEF Reasm
<1>3. p \in RtpType
  <2>1. Len(rtp.items) \in Nat  BY DEF RtpType
  <2> QED BY <2>1 DEF RtpSendSei, RtpType
<1>4. ASSUME NEW x \in RtpType
      PROVE  LET y == RtpSend(x, r1.frame_pts, rest, TRUE)
             IN  y \in RtpType /\ y.ts = r1.frame_pts /\ y.marked
  <2> HIDE DEF rest
  <2> DEFINE y == RtpSend(x, r1.frame_pts, rest, TRUE)
  <2>1. y \in RtpType  BY <1>2, RtpSendType
  <2>2. y.ts = r1.frame_pts /\ y.marked
    <3>1. CASE x.ts = r1.frame_pts
      <4> DEFINE b == x.items \o rest
      <4>1. y = [x EXCEPT !.items = b, !.marked = TRUE]  BY <3>1 DEF RtpSend, rest
      <4> HIDE DEF y, b
      <4> QED BY <3>1, <4>1 DEF RtpType
    <3>2. CASE x.ts # r1.frame_pts
      BY <3>2 DEF RtpSend, rest
    <3> QED BY <3>1, <3>2
  <2> QED BY <2>1, <2>2
<1> HIDE DEF rest, p
<1>5. q \in RtpType /\ q.ts = r1.frame_pts /\ q.marked  BY <1>4
<1>6. SendFrameWithSei(rtp, r1.frame_pts, rest, r1.write_off, sei).ts = r1.frame_pts
      /\ SendFrameWithSei(rtp, r1.frame_pts, rest, r1.write_off, sei).marked
  <2> DEFINE at == Len(q.items) - Len(rest) + Leading(rest)
  <2>1. SendFrameWithSei(rtp, r1.frame_pts, rest, r1.write_off, sei) \in
            {q, [q EXCEPT !.sei = "prefix", !.sei_at = at]}
    BY DEF SendFrameWithSei
  <2> HIDE DEF q, at
  <2> QED BY <1>5, <2>1 DEF RtpType
<1>7. CASE off0 = 0  BY <1>1, <1>6, <1>7
<1>8. CASE off0 # 0  BY <1>1, <1>3, <1>4, <1>8
<1> QED BY <1>7, <1>8

\* What a video chunk does to the RTP stream.
MarkStep ==
    /\ completed' # completed => rtp'.marked
    /\ rtp.marked => rtp' = rtp \/ rtp'.ts # rtp.ts

\* A picture is marked when it is shown, and only then.
LEMMA RxVideoMarks ==
  ASSUME TypeOK, TypeOK', OrderInv, FwdWithinBuffer, MarkInv, RxVideo
  PROVE  MarkStep /\ (rtp'.marked => rtp'.ts = Shown')
<1> DEFINE c  == Head(link)
           r1 == reassembly_feed(r, c)
           off0 == FwdOff(r1, c)
           vcl0 == FwdVcl(r1, c)
           part == PiecesFrom(r1, off0)
<1>1. c \in Chunk /\ c = link[1] /\ 1 \in DOMAIN link /\ c.codec = "h265"
  <2>1. link \in Seq(Chunk) /\ link # << >> /\ Head(link).codec = "h265"  BY DEF TypeOK, TxTypes, RxVideo
  <2> QED BY <2>1
<1>2. c.piece.len > 0 /\ c.piece.len \in Nat /\ c.chunk_idx \in Nat
  <2>1. link[1].piece.len > 0  BY <1>1 DEF MarkInv
  <2> QED BY <1>1, <2>1 DEF Chunk, Piece
<1>3. r \in Reasm /\ fwd_off \in Nat /\ fwd_vcl \in BOOLEAN /\ rtp \in RtpType /\ r.write_off \in Nat
      /\ r.buf \in Seq(Placed)
  BY DEF TypeOK, RxTypes, RtpType, Reasm
<1>4. \/ r' = r1 /\ completed' = completed /\ ForwardSlice(r1, c, off0, vcl0) /\ got' = got
         /\ ~(r1.completed_frames > r.completed_frames)
      \/ /\ \E sei \in BOOLEAN : ForwardFrame(r1, off0, vcl0, sei)
         /\ r1.completed_frames > r.completed_frames
         /\ r' = reassembly_reset(r1)
  BY DEF RxVideo
<1>5. r1 \in Reasm /\ r1.completed_frames \in {r.completed_frames, r.completed_frames + 1}
      /\ (Refuses(r, r1) \/ Takes(r, c, r1))
  <2> HIDE DEF c
  <2> QED BY <1>1, <1>3, FeedFacts
<1>6. /\ r1.completed_frames # r.completed_frames => r1.active
      /\ r1.active =>
             \/ r1.buf = <<[at |-> 0, piece |-> c.piece]>>
                /\ r1.write_off = c.piece.len /\ c.chunk_idx = 0
             \/ r.active
                /\ r1.buf = Append(r.buf, [at |-> r.write_off, piece |-> c.piece])
                /\ r1.write_off = r.write_off + c.piece.len
  <2> HIDE DEF c
  <2> QED BY <1>1, <1>3, FeedOrder
<1>7. off0 \in Nat /\ vcl0 \in BOOLEAN /\ (off0 = 0 \/ off0 = fwd_off)
  BY <1>3 DEF FwdOff, FwdVcl
<1>8. Shown \in Nat /\ r.completed_frames \in Nat  BY <1>3, OrderTypes DEF Reasm
<1>9. rtp.marked => rtp.ts = Shown  BY DEF MarkInv
<1>10. \/ /\ Shown' = Shown /\ r'.completed_frames = r.completed_frames
          /\ r'.active => Shown < r'.frame_pts
       \/ /\ Shown < Shown' /\ Shown' = r1.frame_pts
          /\ r'.completed_frames = r.completed_frames + 1
  BY RxVideoShows
<1>11. CASE r' = r1 /\ completed' = completed /\ ForwardSlice(r1, c, off0, vcl0) /\ got' = got
  <2>1. Shown' = Shown  BY <1>11 DEF Shown
  <2>2. \/ rtp' = rtp
        \/ rtp' = RtpSend(rtp, r1.frame_pts, part, FALSE) /\ r1.active
    BY <1>11 DEF ForwardSlice, Taken
  <2>3. r1.active => Shown < r1.frame_pts /\ r1.frame_pts \in Nat
    <3>1. r1.frame_pts \in Nat  BY <1>5 DEF Reasm
    <3> HIDE DEF r1
    <3> QED BY <1>8, <1>10, <1>11, <2>1, <3>1
  <2>4. r1.active /\ rtp.marked => rtp.ts # r1.frame_pts
    <3> HIDE DEF r1
    <3> QED BY <1>8, <1>9, <2>3
  <2> HIDE DEF r1, part
  <2>5. CASE rtp' = rtp  BY <1>9, <1>11, <2>1, <2>5 DEF MarkStep
  <2>6. CASE rtp' = RtpSend(rtp, r1.frame_pts, part, FALSE) /\ r1.active
    <3>1. CASE part = << >>
      BY <1>9, <1>11, <2>1, <2>6, <3>1 DEF MarkStep, RtpSend
    <3>2. CASE part # << >> /\ rtp.ts = r1.frame_pts
      <4> DEFINE b == rtp.items \o part
      <4>1. rtp' = [rtp EXCEPT !.items = b, !.marked = FALSE]  BY <2>6, <3>2 DEF RtpSend
      <4> HIDE DEF b
      <4>2. ~rtp'.marked  BY <1>3, <4>1 DEF RtpType
      <4> QED BY <1>11, <2>4, <2>6, <3>2, <4>2 DEF MarkStep
    <3>3. CASE part # << >> /\ rtp.ts # r1.frame_pts
      <4>1. rtp'.ts = r1.frame_pts /\ ~rtp'.marked  BY <2>6, <3>3 DEF RtpSend
      <4> QED BY <1>11, <3>3, <4>1 DEF MarkStep
    <3> QED BY <3>1, <3>2, <3>3
  <2> QED BY <2>2, <2>5, <2>6
<1>12. CASE /\ \E sei \in BOOLEAN : ForwardFrame(r1, off0, vcl0, sei)
            /\ r1.completed_frames > r.completed_frames
            /\ r' = reassembly_reset(r1)
  <2>1. r1.active /\ Takes(r, c, r1)
    <3> HIDE DEF r1, c
    <3> QED BY <1>5, <1>6, <1>8, <1>12 DEF Refuses
  <2>2. r'.completed_frames # r.completed_frames
    <3>1. r'.completed_frames = r1.completed_frames  BY <1>5, <1>12, ResetFacts
    <3> HIDE DEF r1
    <3> QED BY <1>5, <1>8, <1>12, <3>1
  <2>3. Shown < Shown' /\ Shown' = r1.frame_pts /\ r1.frame_pts \in Nat
    <3>1. r1.frame_pts \in Nat  BY <1>5 DEF Reasm
    <3> HIDE DEF r1
    <3> QED BY <1>10, <2>2, <3>1
  <2>4. part # << >>
    <3>1. CASE /\ r1.buf = <<[at |-> 0, piece |-> c.piece]>>
               /\ r1.write_off = c.piece.len /\ c.chunk_idx = 0
      <4>1. off0 = 0  BY <2>1, <3>1 DEF FwdOff, StartsFrame, Taken, Takes
      <4>2. r1.buf # << >> /\ r1.buf[Len(r1.buf)].at = 0
        <5> HIDE DEF r1, c
        <5> QED BY <3>1
      <4>3. r1.buf[Len(r1.buf)].at >= off0 /\ r1.write_off > off0
        <5> HIDE DEF r1, c, off0
        <5> QED BY <1>2, <3>1, <4>1, <4>2
      <4> HIDE DEF r1, off0
      <4> QED BY <1>5, <1>7, <4>2, <4>3, RestNotEmpty
    <3>2. CASE /\ r.active
               /\ r1.buf = Append(r.buf, [at |-> r.write_off, piece |-> c.piece])
               /\ r1.write_off = r.write_off + c.piece.len
      <4>1. off0 <= r.write_off
        <5>1. fwd_off <= r.write_off  BY <3>2 DEF FwdWithinBuffer
        <5> HIDE DEF off0
        <5> QED BY <1>3, <1>7, <5>1
      <4>2. r1.buf # << >> /\ r1.buf[Len(r1.buf)].at = r.write_off
        <5> DEFINE h == [at |-> r.write_off, piece |-> c.piece]
        <5>1. r1.buf = Append(r.buf, h) /\ h.at = r.write_off  BY <3>2
        <5> HIDE DEF r1, c, h
        <5>2. Len(r1.buf) = Len(r.buf) + 1 /\ r1.buf[Len(r.buf) + 1] = h  BY <1>3, <5>1
        <5> QED BY <1>3, <5>1, <5>2
      <4>3. r1.buf[Len(r1.buf)].at >= off0 /\ r1.write_off > off0
        <5> HIDE DEF r1, c, off0
        <5> QED BY <1>2, <1>3, <1>7, <3>2, <4>1, <4>2
      <4> HIDE DEF r1, off0
      <4> QED BY <1>5, <1>7, <4>2, <4>3, RestNotEmpty
    <3> QED BY <1>6, <2>1, <3>1, <3>2
  <2>5. rtp'.ts = r1.frame_pts /\ rtp'.marked
    <3> HIDE DEF r1, off0, vcl0
    <3> QED BY <1>3, <1>5, <1>7, <1>12, <2>4, ForwardMarks
  <2>6. rtp.marked => rtp'.ts # rtp.ts
    <3> HIDE DEF r1
    <3> QED BY <1>8, <1>9, <2>3, <2>5
  <2> HIDE DEF r1
  <2> QED BY <2>3, <2>5, <2>6 DEF MarkStep
<1> QED BY <1>4, <1>11, <1>12

\* Every slice, entry and chunk has bytes.
LEMMA PublishMark ==
  ASSUME TypeOK, MarkInv, NEW pts, NEW rest \in Seq([len: Nat, vcl: BOOLEAN]), rest # << >>,
         \A i \in DOMAIN rest : rest[i].len > 0, NEW off, Publish(pts, rest, off)
  PROVE  MarkInv'
<1> DEFINE e == [pts |-> pts, off |-> off, len |-> Head(rest).len,
                 partial |-> Len(rest) > 1, vcl |-> Head(rest).vcl]
<1>1. call' = call /\ link' = link /\ rtp' = rtp /\ Shown' = Shown
  BY DEF Publish, txVars, rxVars, histVars, Shown
<1>2. \/ ring' = Append(ring, e) /\ slices' = Tail(rest)
      \/ ring' = ring /\ slices' = << >>
  BY DEF Publish
<1>3. e.len = rest[1].len /\ 1 \in DOMAIN rest  BY SeqFacts
<1>4. e.len > 0  BY <1>3
<1> HIDE DEF e
<1>5. \A i \in DOMAIN Tail(rest) : Tail(rest)[i].len > 0
  <2>1. \A i \in DOMAIN Tail(rest) : i + 1 \in DOMAIN rest /\ Tail(rest)[i] = rest[i + 1]  OBVIOUS
  <2> QED BY <2>1
<1>6. \A i \in DOMAIN Append(ring, e) : Append(ring, e)[i].len > 0
  <2>1. ring \in Seq(Entry)  BY DEF TypeOK, EncTypes
  <2>2. \A i \in DOMAIN Append(ring, e) : Append(ring, e)[i] = e \/ (i \in DOMAIN ring /\ Append(ring, e)[i] = ring[i])
    BY <2>1
  <2> QED BY <1>4, <2>2 DEF MarkInv
<1>7. (\A i \in DOMAIN slices' : slices'[i].len > 0) /\ (\A i \in DOMAIN ring' : ring'[i].len > 0)
  <2>2. \A i \in DOMAIN ring : ring[i].len > 0  BY DEF MarkInv
  <2>3. CASE ring' = Append(ring, e) /\ slices' = Tail(rest)  BY <1>5, <1>6, <2>3
  <2>4. CASE ring' = ring /\ slices' = << >>  BY <2>2, <2>4
  <2> QED BY <1>2, <2>3, <2>4
<1> QED BY <1>1, <1>7 DEF MarkInv

\* Reading an entry makes chunks with bytes of it.
LEMMA TxReadMark ==
  ASSUME TypeOK, TypeOK', OrderInv, MarkInv, TxRead
  PROVE  MarkInv'
<1> DEFINE e == Head(ring)
<1>1. slices' = slices /\ link' = link /\ rtp' = rtp /\ Shown' = Shown /\ ring' = Tail(ring)
  BY DEF TxRead, encVars, rxVars, histVars, Shown
<1>2. e = ring[1] /\ 1 \in DOMAIN ring
      /\ \A k \in DOMAIN ring' : k + 1 \in DOMAIN ring /\ ring'[k] = ring[k + 1]
  <2>1. ring \in Seq(Entry) /\ ring # << >>  BY DEF TxRead, TypeOK, EncTypes
  <2> QED BY <1>1, <2>1
<1>3. e.len > 0  BY <1>2 DEF MarkInv
<1> HIDE DEF e
<1>4. call'.run = << >> \/ RunOf(call'.run, e)  BY TxReadRun DEF e
<1>5. \A i \in DOMAIN call'.run : call'.run[i].piece.len > 0  BY <1>3, <1>4 DEF RunOf
<1>6. \A i \in DOMAIN ring' : ring'[i].len > 0  BY <1>2 DEF MarkInv
<1> QED BY <1>1, <1>5, <1>6 DEF MarkInv

\* Writing one moves its bytes to the socket.
LEMMA TxWriteMark ==
  ASSUME TypeOK, MarkInv, TxWrite
  PROVE  MarkInv'
<1> DEFINE run == call.run
           h == Head(run)
           l == link \o AuxChunks(outq)
<1>1. slices' = slices /\ ring' = ring /\ rtp' = rtp /\ Shown' = Shown
      /\ run # << >> /\ link' = l \o <<h>>
  BY DEF TxWrite, encVars, rxVars, histVars, Shown
<1>2. run \in Seq(Chunk) /\ call'.run = Tail(run)
  <2>1. call' = [call EXCEPT !.run = Tail(call.run), !.s = call.s + 1]  BY DEF TxWrite
  <2> QED BY <2>1 DEF TypeOK, TxTypes
<1>3. /\ h \in Chunk /\ h = run[1] /\ 1 \in DOMAIN run
      /\ \A i \in DOMAIN Tail(run) : i + 1 \in DOMAIN run /\ Tail(run)[i] = run[i + 1]
  BY <1>1, <1>2
<1>4. /\ l \in Seq(Chunk)
      /\ \A i \in DOMAIN l : l[i].codec = "h265" => i \in DOMAIN link /\ l[i] = link[i]
  <2>1. outq \in Nat  BY Constants DEF TypeOK, TxTypes
  <2> QED BY <2>1, AuxAppended
<1>5. h.piece.len > 0 /\ \A i \in DOMAIN Tail(run) : Tail(run)[i].piece.len > 0
  BY <1>3 DEF MarkInv
<1> HIDE DEF h, l, run
<1>6. \A i \in DOMAIN link' : link'[i] = h \/ (i \in DOMAIN l /\ link'[i] = l[i])
  <2>1. link' = Append(l, h)  BY <1>1, <1>3, <1>4
  <2> QED BY <1>3, <1>4, <2>1
<1>7. \A i \in DOMAIN link' : link'[i].codec = "h265" => link'[i].piece.len > 0
  BY <1>4, <1>5, <1>6 DEF MarkInv
<1> QED BY <1>1, <1>2, <1>5, <1>7 DEF MarkInv

\* The steps that lose things lose no bytes of a chunk.
LEMMA QuietMark ==
  ASSUME TypeOK, TypeOK', MarkInv,
         \/ EncoderRestart \/ OutqPush \/ TxWriteFails \/ TxReturn \/ TxTimeout \/ TxReconnect
         \/ TxRestart \/ LinkLose \/ RxAux \/ UNCHANGED vars
  PROVE  MarkInv'
<1>1. rtp' = rtp /\ Shown' = Shown
  BY DEF EncoderRestart, OutqPush, TxWriteFails, TxReturn, TxTimeout, TxReconnect, TxRestart,
         LinkLose, RxAux, vars, rxVars, histVars, Shown
<1>2. PICK d \in Nat : Loses(d)  BY QuietLoses
<1>3. slices' \in {slices, << >>} /\ ring' \in {ring, << >>} /\ call'.run \in {call.run, << >>}
      /\ \A i \in DOMAIN link' : link'[i].codec = "h265" => i + d \in DOMAIN link /\ link'[i] = link[i + d]
  BY <1>2 DEF Loses
<1>4. \A i \in DOMAIN slices' : slices'[i].len > 0  BY <1>3 DEF MarkInv
<1>5. \A i \in DOMAIN ring' : ring'[i].len > 0  BY <1>3 DEF MarkInv
<1>6. \A i \in DOMAIN call'.run : call'.run[i].piece.len > 0  BY <1>3 DEF MarkInv
<1>7. \A i \in DOMAIN link' : link'[i].codec = "h265" => link'[i].piece.len > 0  BY <1>3 DEF MarkInv
<1> QED BY <1>1, <1>4, <1>5, <1>6, <1>7 DEF MarkInv

\* A chunk that comes in with bytes leaves the rest, and the marker belongs to the
\* picture shown.
LEMMA RxVideoMark ==
  ASSUME TypeOK, TypeOK', OrderInv, FwdWithinBuffer, MarkInv, RxVideo
  PROVE  MarkInv'
<1>1. slices' = slices /\ ring' = ring /\ call' = call /\ link # << >> /\ link' = Tail(link)
  BY DEF RxVideo, encVars, txVars
<1>2. rtp'.marked => rtp'.ts = Shown'  BY RxVideoMarks
<1>3. \A i \in DOMAIN link' : link'[i].codec = "h265" => link'[i].piece.len > 0
  BY <1>1, TailFacts DEF MarkInv
<1> QED BY <1>1, <1>2, <1>3 DEF MarkInv

\* Video chunks have bytes, if the slices do, and a marker belongs to the picture shown last.
THEOREM MarkInvariant == ASSUME SlicesHaveBytes PROVE Spec => []MarkInv
<1>1. Init => MarkInv
  BY DEF Init, MarkInv, NoCall
<1>2. TypeOK /\ TypeOK' /\ OrderInv /\ FwdWithinBuffer /\ MarkInv /\ [Next]_vars => MarkInv'
  <2> SUFFICES ASSUME TypeOK, TypeOK', OrderInv, FwdWithinBuffer, MarkInv, [Next]_vars
               PROVE  MarkInv'
    OBVIOUS
  <2>1. CASE EncodeFrame
    <3>1. PICK s \in Slicings : Publish(encoded + 1, s, 0)  BY <2>1 DEF EncodeFrame
    <3>2. s \in Seq([len: Nat, vcl: BOOLEAN]) /\ s # << >>  BY VideoLinkAssumption
    <3>3. \A i \in DOMAIN s : s[i].len > 0  BY DEF SlicesHaveBytes
    <3> QED BY <3>1, <3>2, <3>3, PublishMark
  <2>2. CASE EncodeSlice
    <3>1. slices \in Seq([len: Nat, vcl: BOOLEAN]) /\ \A i \in DOMAIN slices : slices[i].len > 0
      BY DEF TypeOK, EncTypes, MarkInv
    <3> QED BY <2>2, <3>1, PublishMark DEF EncodeSlice
  <2> QED BY <2>1, <2>2, TxReadMark, TxWriteMark, QuietMark, RxVideoMark DEF Next, Tx, Rx
<1> QED BY <1>1, <1>2, TypeCorrect, OrderInvariant, FwdWithinBufferHolds, PTL DEF Spec

\* If the encoder leaves no slice empty, every completed frame ends with a marker,
\* streamed or not, and nothing follows a marker under the same RTP timestamp.
THEOREM MarkerExactHolds == ASSUME SlicesHaveBytes PROVE Spec => MarkerExact
<1>1. TypeOK /\ TypeOK' /\ OrderInv /\ FwdWithinBuffer /\ MarkInv /\ [Next]_vars => [MarkStep]_vars
  <2> SUFFICES ASSUME TypeOK, TypeOK', OrderInv, FwdWithinBuffer, MarkInv, [Next]_vars
               PROVE  MarkStep \/ UNCHANGED vars
    OBVIOUS
  <2>1. CASE RxVideo  BY <2>1, RxVideoMarks
  <2>2. CASE UNCHANGED <<completed, rtp>>  BY <2>2 DEF MarkStep
  <2>3. RxVideo \/ UNCHANGED <<completed, rtp>>
    BY DEF Next, Tx, Rx, EncodeFrame, EncodeSlice, EncoderRestart, Publish, OutqPush, TxRead, TxWrite,
           TxWriteFails, TxReturn, TxTimeout, TxReconnect, TxRestart, LinkLose, RxAux, vars,
           rxVars, histVars
  <2> QED BY <2>1, <2>2, <2>3
<1>2. MarkerExact <=> [][MarkStep]_vars  BY PTL DEF MarkerExact, MarkStep
<1> QED BY <1>1, <1>2, MarkInvariant, TypeCorrect, OrderInvariant, FwdWithinBufferHolds, PTL DEF Spec

-----------------------------------------------------------------------------
(* The contents of frames *)

\* The video bytes on their way: in the chunker's hands, in the socket, in the buffer of rx.
Around ==
    {call.run[i].piece : i \in DOMAIN call.run}
    \cup {link[i].piece : i \in {k \in DOMAIN link : link[k].codec = "h265"}}
    \cup (IF r.active THEN {r.buf[i].piece : i \in DOMAIN r.buf} ELSE {})

\* The frame of a piece, and the one tx has in hand.
PieceId(p) == Id(p.epoch, p.no)
Hand == Id(epoch, frame_no)

\* What tx reads next of source frame pts starts at byte off.
Expected(pts, off) ==
    pts \notin torn =>
        /\ ring # << >> /\ ring[1].pts = pts => ring[1].off = off
        /\ ring = << >> /\ slices # << >> /\ encoded = pts => enc_off = off

\* The entries in the ring are cut without a hole, and the encoder goes on where they end.
RingCuts ==
    /\ \A k \in DOMAIN ring : k > 1 =>
         ring[k].off = IF ring[k].pts = ring[k - 1].pts THEN ring[k - 1].off + ring[k - 1].len ELSE 0
    /\ ring # << >> /\ slices # << >> =>
         LET e == ring[Len(ring)] IN e.pts = encoded /\ enc_off = e.off + e.len

\* A source frame of which tx holds nothing open is still there from its start; the last slice
\* of an open one has nothing behind it.
OpenFrame ==
    /\ \A pts \in Nat : ~(sf.open /\ sf.pts = pts) => Expected(pts, 0)
    /\ call.kind = "part" /\ ~call.partial =>
         /\ \A k \in DOMAIN ring : ring[k].pts # sf.pts
         /\ slices # << >> => encoded # sf.pts
    /\ sf.open => sf.pts <= encoded

\* While nothing of the open frame failed, its chunks are numbered up to the slice in hand.
OpenCount ==
    /\ call.kind = "none" => call = NoCall
    /\ call.run # << >> => call.s >= 0
    /\ sf.open /\ ~sf.failed /\ call.kind = "none" => sf.next_idx > 0
    /\ call.kind # "none" /\ call.s # -1 /\ ~(sf.open /\ sf.failed) => call.n > 0

\* Chunk 0 of a frame starts its source frame and every chunk goes on where the one before it
\* ended.
Joined ==
    /\ \A p \in Around : /\ Leq(PieceId(p), Hand)
                         /\ p.idx = 0 /\ p.src \notin torn => p.off = 0
    /\ \A p, q \in Around : PieceId(p) = PieceId(q) =>
         /\ p.src = q.src
         /\ q.idx = p.idx + 1 /\ p.src \notin torn => q.off = p.off + p.len

\* The chunks of the frame in hand end where tx reads on, unless they were torn apart.
InHandInv ==
    \A p \in Around : PieceId(p) = Hand =>
        \/ call.kind = "frame"
        \/ /\ sf.open /\ p.src = sf.pts /\ p.idx < sf.next_idx + call.n
           /\ ~sf.failed /\ call.s # -1 /\ p.idx + 1 = sf.next_idx + call.n =>
                Expected(p.src, p.off + p.len)

\* The inductive invariant behind PictureIntegrity.
ContentInv == RingCuts /\ OpenFrame /\ OpenCount /\ Joined /\ InHandInv

\* The chunks of run s are entry e in order, without a hole, numbered from first on.
Cut(s, e, first) ==
    /\ Len(s) = ChunkCount(e.len) /\ DOMAIN s = 1..Len(s)
    /\ \A i \in DOMAIN s :
         /\ s[i].piece.src = e.pts /\ s[i].piece.idx = first + i - 1
         /\ i = 1 => s[i].piece.off = e.off
         /\ i = Len(s) => s[i].piece.off + s[i].piece.len = e.off + e.len
    /\ \A i, j \in DOMAIN s : j = i + 1 => s[j].piece.off = s[i].piece.off + s[i].piece.len

\* chunker.c:23-27: all chunks of an entry but the last are full, and the last one ends it.
LEMMA ChunkEnds ==
  ASSUME NEW len \in Nat, NEW i \in Nat, i < ChunkCount(len)
  PROVE  /\ i + 1 < ChunkCount(len) => len - i * ChunkPayload > ChunkPayload
         /\ i + 1 = ChunkCount(len) => len - i * ChunkPayload <= ChunkPayload
<1> USE ChunkerAssumption
<1>1. CASE len = 0
  <2>1. ChunkCount(len) = 1  BY <1>1 DEF ChunkCount
  <2>2. i = 0  BY <2>1
  <2> QED BY <1>1, <2>1, <2>2
<1>2. CASE len # 0
  <2> DEFINE a == len + ChunkPayload - 1
             n == a \div ChunkPayload
  <2>1. a \in Nat  OBVIOUS
  <2>2. n \in Nat /\ a < ChunkPayload * n + ChunkPayload
    <3> HIDE DEF a
    <3> QED BY <2>1
  <2>3. ChunkCount(len) = n  BY <1>2 DEF ChunkCount
  <2>4. i * ChunkPayload \in Nat /\ (i + 1) * ChunkPayload = i * ChunkPayload + ChunkPayload
    OBVIOUS
  <2>5. ASSUME i + 1 < n PROVE (i + 1) * ChunkPayload < len
    BY <1>2, <2>3, <2>5, ChunksHaveBytes
  <2>6. ASSUME i + 1 = n PROVE len <= (i + 1) * ChunkPayload
    <3>1. ChunkPayload * n = (i + 1) * ChunkPayload  BY <2>6
    <3> HIDE DEF n
    <3> QED BY <2>2, <3>1, <2>4
  <2> HIDE DEF n
  <2> QED BY <2>2, <2>3, <2>4, <2>5, <2>6
<1> QED BY <1>1, <1>2

\* chunk_run() cuts its entry without a hole.
LEMMA RunCut ==
  ASSUME NEW seq \in Nat, NEW e \in Entry, NEW first \in Nat, NEW total \in Nat,
         NEW frame_end \in BOOLEAN, NEW part \in BOOLEAN, NEW id \in [epoch: Nat, no: Nat]
  PROVE  Cut(chunk_run(seq, e, first, total, frame_end, part, id), e, first)
<1> DEFINE n == ChunkCount(e.len)
           run == chunk_run(seq, e, first, total, frame_end, part, id)
<1>1. e.len \in Nat /\ e.off \in Nat  BY DEF Entry
<1>2. n \in Nat \ {0}  BY <1>1, ChunkCountFacts
<1>3. run = [j \in 1..n |-> run[j]]  BY DEF chunk_run
<1>4. DOMAIN run = 1..n /\ Len(run) = n
  <2> HIDE DEF run, n
  <2> QED BY <1>2, <1>3
<1>5. ASSUME NEW j \in 1..n
      PROVE  /\ run[j].piece.src = e.pts /\ run[j].piece.idx = first + j - 1
             /\ run[j].piece.off = e.off + (j - 1) * ChunkPayload
             /\ j < n => run[j].piece.off + run[j].piece.len = e.off + j * ChunkPayload
             /\ j = n => run[j].piece.off + run[j].piece.len = e.off + e.len
  <2> DEFINE p == PieceAt(e, j - 1, n, id, first + j - 1)
             i == j - 1
  <2>1. i \in Nat /\ i < n /\ i + 1 = j  BY <1>2
  <2>2. run[j].piece = p  BY DEF chunk_run
  <2>3. /\ i + 1 < n => e.len - i * ChunkPayload > ChunkPayload
        /\ i + 1 = n => e.len - i * ChunkPayload <= ChunkPayload
    BY <1>1, <2>1, ChunkEnds
  <2>4. i * ChunkPayload \in Nat /\ (i + 1) * ChunkPayload = i * ChunkPayload + ChunkPayload /\ ChunkPayload \in Nat
    BY <2>1, ChunkerAssumption
  <2>5. /\ p.src = e.pts /\ p.idx = first + j - 1 /\ p.off = e.off + i * ChunkPayload
        /\ p.len = IF e.len - i * ChunkPayload > ChunkPayload THEN ChunkPayload
                   ELSE e.len - i * ChunkPayload
    BY DEF PieceAt
  <2> HIDE DEF p, i, run, n
  <2>6. j * ChunkPayload = i * ChunkPayload + ChunkPayload  BY <2>1, <2>4
  <2>7. j < n => p.off + p.len = e.off + j * ChunkPayload
    BY <1>1, <2>1, <2>3, <2>4, <2>5, <2>6
  <2>8. j = n => p.off + p.len = e.off + e.len
    BY <1>1, <1>2, <2>1, <2>3, <2>4, <2>5
  <2> QED BY <2>2, <2>5, <2>7, <2>8 DEF i
<1> HIDE DEF run, n
<1>6. ASSUME NEW i \in 1..n, NEW j \in 1..n, j = i + 1
      PROVE  run[j].piece.off = run[i].piece.off + run[i].piece.len
  <2>1. i < n /\ j - 1 = i  BY <1>2, <1>6
  <2> QED BY <1>5, <2>1
<1>7. ASSUME NEW i \in 1..n, i = 1 PROVE run[i].piece.off = e.off
  <2>1. run[i].piece.off = e.off + (i - 1) * ChunkPayload /\ (i - 1) * ChunkPayload = 0
    BY <1>5, <1>7, ChunkerAssumption
  <2> QED BY <1>1, <2>1
<1> QED BY <1>4, <1>5, <1>6, <1>7 DEF Cut, run, n

\* What reassembly.c makes of a chunk_count: 0 for a streamed frame.
Mode(c) == IF c.flag = "frame_end" THEN 0 ELSE c.chunk_count

\* The chunks of run s are filled within the payload and agree on mode; the last one, if it ends
\* its frame, says so with the frame's chunk_count.
Ends(s, mode, last) ==
    \A i \in DOMAIN s :
        /\ s[i].piece.len <= ChunkPayload /\ Mode(s[i]) = mode
        /\ s[i].flag = "frame_end" => s[i].chunk_count = s[i].chunk_idx + 1
        /\ last /\ i = Len(s) => s[i].chunk_count = s[i].chunk_idx + 1
        /\ s[i].chunk_count = s[i].chunk_idx + 1 => last

\* chunk_run() for a slice (total 0) or a whole frame.
LEMMA RunEnds ==
  ASSUME NEW seq \in Nat, NEW e \in Entry, NEW first \in Nat, NEW total \in Nat,
         NEW frame_end \in BOOLEAN, NEW part \in BOOLEAN, NEW id \in [epoch: Nat, no: Nat],
         \/ total = 0 /\ frame_end = ~e.partial
         \/ total = ChunkCount(e.len) /\ first = 0 /\ ~frame_end /\ ~e.partial
  PROVE  Ends(chunk_run(seq, e, first, total, frame_end, part, id), total, ~e.partial)
<1> DEFINE n == ChunkCount(e.len)
           run == chunk_run(seq, e, first, total, frame_end, part, id)
<1>1. e.len \in Nat /\ e.off \in Nat  BY DEF Entry
<1>2. n \in Nat \ {0}  BY <1>1, ChunkCountFacts
<1>3. run = [j \in 1..n |-> run[j]]  BY DEF chunk_run
<1>4. DOMAIN run = 1..n /\ Len(run) = n
  <2> HIDE DEF run, n
  <2> QED BY <1>2, <1>3
<1>5. ASSUME NEW j \in 1..n
      PROVE  /\ run[j].chunk_idx = first + j - 1
             /\ run[j].chunk_count = (IF frame_end /\ j = n THEN first + n ELSE total)
             /\ run[j].flag = "frame_end" <=> (j = n /\ frame_end)
             /\ run[j].piece.len <= ChunkPayload
  <2> DEFINE p == PieceAt(e, j - 1, n, id, first + j - 1)
             rest == e.len - (j - 1) * ChunkPayload
  <2>1. /\ run[j].piece = p /\ run[j].chunk_idx = first + j - 1
        /\ run[j].chunk_count = (IF frame_end /\ j = n THEN first + n ELSE total)
        /\ run[j].flag = (IF j # n THEN "none" ELSE IF frame_end THEN "frame_end"
                          ELSE IF part THEN "slice_end" ELSE "none")
    BY DEF chunk_run
  <2>2. p.len = IF rest > ChunkPayload THEN ChunkPayload ELSE rest  BY DEF PieceAt
  <2>3. rest \in Int /\ ChunkPayload \in Nat
    <3>1. j - 1 \in Nat /\ ChunkPayload \in Nat  BY <1>2, ChunkerAssumption
    <3>2. (j - 1) * ChunkPayload \in Nat  BY <3>1
    <3> QED BY <1>1, <3>1, <3>2
  <2> HIDE DEF p, rest, run, n
  <2>4. p.len <= ChunkPayload  BY <2>2, <2>3
  <2> QED BY <2>1, <2>4
<1> HIDE DEF run
<1>6. ASSUME NEW j \in 1..n
      PROVE  /\ run[j].piece.len <= ChunkPayload /\ Mode(run[j]) = total
             /\ run[j].flag = "frame_end" => run[j].chunk_count = run[j].chunk_idx + 1
             /\ ~e.partial /\ j = n => run[j].chunk_count = run[j].chunk_idx + 1
             /\ run[j].chunk_count = run[j].chunk_idx + 1 => ~e.partial
  <2>1. Mode(run[j]) = total  BY <1>5 DEF Mode
  <2>2. j = n => first + n = run[j].chunk_idx + 1  BY <1>2, <1>5
  <2>3. ~e.partial /\ j = n => run[j].chunk_count = first + n  BY <1>2, <1>5
  <2>4. run[j].chunk_count = run[j].chunk_idx + 1 => ~e.partial
    <3> SUFFICES ASSUME e.partial PROVE run[j].chunk_count # run[j].chunk_idx + 1  OBVIOUS
    <3>1. e.partial => total = 0 /\ ~frame_end  OBVIOUS
    <3>2. run[j].chunk_count = 0  BY <1>5, <3>1
    <3>3. run[j].chunk_idx \in Nat  BY <1>2, <1>5
    <3> QED BY <3>2, <3>3
  <2> HIDE DEF n
  <2> QED BY <1>5, <2>1, <2>2, <2>3, <2>4
<1> QED BY <1>4, <1>6 DEF Ends, run

-----------------------------------------------------------------------------
(* What the steps do to the bytes on their way *)

\* Losing chunks adds nothing.
LEMMA LossAround ==
  ASSUME NEW d \in Nat, Loses(d)
  PROVE  Around' \subseteq Around
<1> SUFFICES ASSUME NEW p \in Around' PROVE p \in Around  OBVIOUS
<1>1. CASE \E i \in DOMAIN call'.run : p = call'.run[i].piece
  <2>1. \E i \in DOMAIN call.run : p = call.run[i].piece  BY <1>1 DEF Loses
  <2> QED BY <2>1 DEF Around
<1>2. CASE \E i \in DOMAIN link' : link'[i].codec = "h265" /\ p = link'[i].piece
  <2>1. PICK i \in DOMAIN link' : link'[i].codec = "h265" /\ p = link'[i].piece  BY <1>2
  <2>2. i + d \in DOMAIN link /\ link'[i] = link[i + d]  BY <2>1 DEF Loses
  <2> QED BY <2>1, <2>2 DEF Around
<1>3. CASE r'.active /\ \E i \in DOMAIN r'.buf : p = r'.buf[i].piece
  <2>1. r' = r  BY DEF Loses
  <2> QED BY <1>3, <2>1 DEF Around
<1> QED BY <1>1, <1>2, <1>3 DEF Around

\* A write moves a chunk from the chunker to the socket.
LEMMA TxWriteAround ==
  ASSUME TypeOK, TxWrite
  PROVE  Around' \subseteq Around
<1> DEFINE run == call.run
           h == Head(run)
           l == link \o AuxChunks(outq)
<1>1. r' = r /\ run # << >> /\ link' = l \o <<h>>  BY DEF TxWrite, rxVars
<1>2. run \in Seq(Chunk) /\ call'.run = Tail(run)
  <2>1. call' = [call EXCEPT !.run = Tail(call.run), !.s = call.s + 1]  BY DEF TxWrite
  <2> QED BY <2>1 DEF TypeOK, TxTypes
<1>3. /\ h \in Chunk /\ h = run[1] /\ 1 \in DOMAIN run
      /\ \A i \in DOMAIN Tail(run) : i + 1 \in DOMAIN run /\ Tail(run)[i] = run[i + 1]
  BY <1>1, <1>2
<1>4. /\ l \in Seq(Chunk)
      /\ \A i \in DOMAIN l : l[i].codec = "h265" => i \in DOMAIN link /\ l[i] = link[i]
  <2>1. outq \in Nat  BY Constants DEF TypeOK, TxTypes
  <2> QED BY <2>1, AuxAppended
<1> HIDE DEF h, l
<1>5. \A i \in DOMAIN link' : link'[i] = h \/ (i \in DOMAIN l /\ link'[i] = l[i])
  <2>1. link' = Append(l, h)  BY <1>1, <1>3, <1>4
  <2> QED BY <1>3, <1>4, <2>1
<1> SUFFICES ASSUME NEW p \in Around' PROVE p \in Around  OBVIOUS
<1>6. CASE \E i \in DOMAIN call'.run : p = call'.run[i].piece
  <2>1. \E i \in DOMAIN run : p = run[i].piece  BY <1>2, <1>3, <1>6
  <2> QED BY <2>1 DEF Around
<1>7. CASE \E i \in DOMAIN link' : link'[i].codec = "h265" /\ p = link'[i].piece
  <2>1. PICK i \in DOMAIN link' : link'[i].codec = "h265" /\ p = link'[i].piece  BY <1>7
  <2>2. CASE link'[i] = h  BY <1>3, <2>1, <2>2 DEF Around
  <2>3. CASE i \in DOMAIN l /\ link'[i] = l[i]
    <3>1. i \in DOMAIN link /\ link'[i] = link[i]  BY <1>4, <2>1, <2>3
    <3> QED BY <2>1, <3>1 DEF Around
  <2> QED BY <1>5, <2>1, <2>2, <2>3
<1>8. CASE r'.active /\ \E i \in DOMAIN r'.buf : p = r'.buf[i].piece
  BY <1>1, <1>8 DEF Around
<1> QED BY <1>6, <1>7, <1>8 DEF Around

\* What a video chunk leaves in the buffer was there or came with it.
LEMMA FeedAround ==
  ASSUME TypeOK, RxVideo
  PROVE  LET c  == Head(link)
             r1 == reassembly_feed(r, c)
         IN  /\ c.piece \in Around /\ c \in Chunk /\ r1 \in Reasm
             /\ r1.active => \A i \in DOMAIN r1.buf : r1.buf[i].piece \in Around
<1> DEFINE c  == Head(link)
           r1 == reassembly_feed(r, c)
<1>1. c \in Chunk /\ c = link[1] /\ 1 \in DOMAIN link /\ c.codec = "h265"
  <2>1. link \in Seq(Chunk) /\ link # << >> /\ Head(link).codec = "h265"  BY DEF TypeOK, TxTypes, RxVideo
  <2> QED BY <2>1
<1>2. r \in Reasm /\ r1 \in Reasm
  <2>1. r \in Reasm  BY DEF TypeOK, RxTypes
  <2> HIDE DEF c
  <2> QED BY <1>1, <2>1, FeedFacts
<1>3. r1.active => \/ r1.buf = <<[at |-> 0, piece |-> c.piece]>>
                   \/ r.active /\ r1.buf = Append(r.buf, [at |-> r.write_off, piece |-> c.piece])
  <2> HIDE DEF c
  <2> QED BY <1>1, <1>2, FeedOrder
<1>4. c.piece \in Around  BY <1>1 DEF Around
<1>5. r.buf \in Seq(Placed)  BY <1>2 DEF Reasm
<1> HIDE DEF c, r1
<1>6. ASSUME r1.active, NEW i \in DOMAIN r1.buf PROVE r1.buf[i].piece \in Around
  <2>1. CASE r1.buf = <<[at |-> 0, piece |-> c.piece]>>
    <3>1. r1.buf[i].piece = c.piece  BY <1>6, <2>1
    <3> QED BY <1>4, <3>1
  <2>2. CASE r.active /\ r1.buf = Append(r.buf, [at |-> r.write_off, piece |-> c.piece])
    <3>1. PICK h : h = [at |-> r.write_off, piece |-> c.piece]  OBVIOUS
    <3>2. r1.buf = Append(r.buf, h)  BY <2>2, <3>1
    <3>3. r1.buf[i] = h \/ (i \in DOMAIN r.buf /\ r1.buf[i] = r.buf[i])  BY <1>5, <1>6, <3>2
    <3>4. CASE r1.buf[i] = h  BY <1>4, <3>1, <3>4
    <3>5. CASE i \in DOMAIN r.buf /\ r1.buf[i] = r.buf[i]  BY <2>2, <3>5 DEF Around
    <3> QED BY <3>3, <3>4, <3>5
  <2> QED BY <1>3, <1>6, <2>1, <2>2
<1> QED BY <1>1, <1>2, <1>4, <1>6 DEF c, r1

\* A video chunk moves from the socket to the buffer, or is dropped.
LEMMA RxVideoAround ==
  ASSUME TypeOK, RxVideo
  PROVE  Around' \subseteq Around
<1> DEFINE r1 == reassembly_feed(r, Head(link))
<1>1. call' = call /\ link # << >> /\ link' = Tail(link)  BY DEF RxVideo, txVars
<1>2. r' = r1 \/ r' = reassembly_reset(r1)  BY DEF RxVideo
<1>3. r1 \in Reasm /\ (r1.active => \A i \in DOMAIN r1.buf : r1.buf[i].piece \in Around)  BY FeedAround
<1> HIDE DEF r1
<1>4. r'.active => r' = r1  BY <1>2, <1>3, ResetFacts
<1>5. \A i \in DOMAIN link' : i + 1 \in DOMAIN link /\ link'[i] = link[i + 1]
  BY <1>1, TailFacts DEF TypeOK, TxTypes
<1> SUFFICES ASSUME NEW p \in Around' PROVE p \in Around  OBVIOUS
<1>6. CASE \E i \in DOMAIN call'.run : p = call'.run[i].piece  BY <1>1, <1>6 DEF Around
<1>7. CASE \E i \in DOMAIN link' : link'[i].codec = "h265" /\ p = link'[i].piece
  <2>1. PICK i \in DOMAIN link' : link'[i].codec = "h265" /\ p = link'[i].piece  BY <1>7
  <2>2. i + 1 \in DOMAIN link /\ link'[i] = link[i + 1]  BY <1>5, <2>1
  <2> QED BY <2>1, <2>2 DEF Around
<1>8. CASE r'.active /\ \E i \in DOMAIN r'.buf : p = r'.buf[i].piece
  BY <1>3, <1>4, <1>8
<1> QED BY <1>6, <1>7, <1>8 DEF Around

-----------------------------------------------------------------------------
(* ContentInv *)

\* Nothing is cut, open or on its way yet.
LEMMA InitContent == Init => ContentInv
<1> SUFFICES ASSUME Init PROVE ContentInv  OBVIOUS
<1>1. /\ ring = << >> /\ slices = << >> /\ link = << >> /\ call = NoCall /\ sf = NoFrame
      /\ ~r.active
  BY DEF Init, reassembly_init
<1>2. Around = {}  BY <1>1 DEF Around, NoCall
<1>3. RingCuts /\ OpenFrame /\ OpenCount
  BY <1>1 DEF RingCuts, OpenFrame, OpenCount, Expected, NoCall, NoFrame
<1> QED BY <1>2, <1>3 DEF ContentInv, Joined, InHandInv

\* A step that neither cuts nor reads nor ends a frame: bytes move on or are lost.
LEMMA MoveContent ==
  ASSUME ContentInv, Around' \subseteq Around,
         UNCHANGED <<encoded, slices, enc_off, ring, epoch, frame_no, sf, torn>>,
         call'.kind = call.kind, call'.partial = call.partial, call'.n = call.n,
         call'.s = -1 <=> call.s = -1, call.kind = "none" => call' = call,
         call'.run # << >> => call'.s >= 0
  PROVE  ContentInv'
<1>1. RingCuts'  BY DEF ContentInv, RingCuts
<1>2. \A pts, off : Expected(pts, off)' <=> Expected(pts, off)  BY DEF Expected
<1>3. OpenFrame'
  <2>1. \A pts \in Nat : ~(sf'.open /\ sf'.pts = pts) => Expected(pts, 0)'
    BY <1>2 DEF ContentInv, OpenFrame
  <2> QED BY <2>1 DEF ContentInv, OpenFrame
<1>4. OpenCount'  BY DEF ContentInv, OpenCount
<1>5. Hand' = Hand  BY DEF Hand, Id
<1>6. Joined'  BY <1>5 DEF ContentInv, Joined
<1>7. InHandInv'
  <2>1. ASSUME NEW p \in Around', PieceId(p) = Hand
        PROVE  \/ call'.kind = "frame"
               \/ /\ sf'.open /\ p.src = sf'.pts /\ p.idx < sf'.next_idx + call'.n
                  /\ ~sf'.failed /\ call'.s # -1 /\ p.idx + 1 = sf'.next_idx + call'.n =>
                       Expected(p.src, p.off + p.len)'
    BY <1>2, <2>1 DEF ContentInv, InHandInv
  <2> QED BY <1>5, <2>1 DEF InHandInv
<1> QED BY <1>1, <1>3, <1>4, <1>6, <1>7 DEF ContentInv

\* The socket's steps, the outq and the rx loop.
LEMMA MovesContent ==
  ASSUME TypeOK, TypeOK', ContentInv,
         \/ OutqPush \/ TxWrite \/ TxWriteFails \/ TxTimeout \/ LinkLose \/ RxAux \/ RxVideo
         \/ UNCHANGED vars
  PROVE  ContentInv'
<1>1. UNCHANGED <<encoded, slices, enc_off, ring, epoch, frame_no, sf, torn>>
  BY DEF OutqPush, TxWrite, TxWriteFails, TxTimeout, LinkLose, RxAux, RxVideo, vars, encVars, txVars
<1>2. Around' \subseteq Around
  <2>1. CASE TxWrite  BY <2>1, TxWriteAround
  <2>2. CASE RxVideo  BY <2>2, RxVideoAround
  <2>3. CASE OutqPush \/ TxWriteFails \/ TxTimeout \/ LinkLose \/ RxAux \/ UNCHANGED vars
    <3>1. PICK d \in Nat : Loses(d)  BY <2>3, QuietLoses
    <3> QED BY <3>1, LossAround
  <2> QED BY <2>1, <2>2, <2>3
<1>3. call.run # << >> => call.s >= 0 /\ call.s \in Nat \cup {-1}
  BY DEF ContentInv, OpenCount, TypeOK, TxTypes
<1>4. /\ call'.kind = call.kind /\ call'.partial = call.partial /\ call'.n = call.n
      /\ (call'.s = -1 <=> call.s = -1) /\ (call.kind = "none" => call' = call)
      /\ (call'.run # << >> => call'.s >= 0)
  <2>0. /\ call \in [kind: {"none", "part", "frame"}, partial: BOOLEAN, run: Seq(Chunk),
                 n: Nat, s: Nat \cup {-1}]
        /\ call.kind = "none" => call.run = << >>
    BY DEF TypeOK, TxTypes, ContentInv, OpenCount, NoCall
  <2>1. CASE TxWrite
    <3>1. call' = [call EXCEPT !.run = Tail(call.run), !.s = call.s + 1] /\ call.run # << >>
      BY <2>1 DEF TxWrite
    <3>2. /\ call'.kind = call.kind /\ call'.partial = call.partial /\ call'.n = call.n
          /\ call'.s = call.s + 1
      BY <2>0, <3>1
    <3>3. call.s \in Nat  BY <1>3, <2>0, <3>1
    <3> QED BY <2>0, <3>1, <3>2, <3>3
  <2>2. CASE TxWriteFails
    <3>1. call' = [call EXCEPT !.run = << >>] /\ call.run # << >>
      BY <2>2 DEF TxWriteFails, StopRun
    <3> QED BY <2>0, <3>1
  <2>3. CASE call' = call  BY <1>3, <2>3
  <2>4. TxWrite \/ TxWriteFails \/ call' = call
    BY DEF OutqPush, TxTimeout, LinkLose, RxAux, RxVideo, vars, txVars
  <2> QED BY <2>1, <2>2, <2>3, <2>4
<1> QED BY <1>1, <1>2, <1>4, MoveContent

\* The encoder dies: what it had left of its frame is never cut.
LEMMA EncoderRestartContent ==
  ASSUME TypeOK, TypeOK', ContentInv, EncoderRestart
  PROVE  ContentInv'
<1>1. /\ UNCHANGED <<encoded, enc_off, ring, epoch, frame_no, sf, torn, call, link, r>>
      /\ slices' = << >>
  BY DEF EncoderRestart, txVars, rxVars
<1>2. Around' = Around /\ Hand' = Hand  BY <1>1 DEF Around, Hand, Id
<1>3. \A pts, off : Expected(pts, off) => Expected(pts, off)'  BY <1>1 DEF Expected
<1>4. RingCuts' /\ OpenCount'  BY <1>1 DEF ContentInv, RingCuts, OpenCount
<1>5. OpenFrame'
  <2>1. \A pts \in Nat : ~(sf'.open /\ sf'.pts = pts) => Expected(pts, 0)'
    BY <1>1, <1>3 DEF ContentInv, OpenFrame
  <2> QED BY <1>1, <2>1 DEF ContentInv, OpenFrame
<1>6. Joined'  BY <1>1, <1>2 DEF ContentInv, Joined
<1>7. InHandInv'
  <2>1. ASSUME NEW p \in Around', PieceId(p) = Hand
        PROVE  \/ call'.kind = "frame"
               \/ /\ sf'.open /\ p.src = sf'.pts /\ p.idx < sf'.next_idx + call'.n
                  /\ ~sf'.failed /\ call'.s # -1 /\ p.idx + 1 = sf'.next_idx + call'.n =>
                       Expected(p.src, p.off + p.len)'
    BY <1>1, <1>2, <1>3, <2>1 DEF ContentInv, InHandInv
  <2> QED BY <1>2, <2>1 DEF InHandInv
<1> QED BY <1>4, <1>5, <1>6, <1>7 DEF ContentInv

\* flush_ring(): the frames it takes something of are torn.
LEMMA TxReconnectContent ==
  ASSUME TypeOK, TypeOK', ContentInv, TxReconnect
  PROVE  ContentInv'
<1>1. /\ UNCHANGED <<encoded, enc_off, slices, epoch, frame_no, sf, call, link, r>>
      /\ ring' = << >> /\ torn' = torn \cup {ring[i].pts : i \in DOMAIN ring}
  BY DEF TxReconnect, txVars, encVars, rxVars
<1>2. Around' = Around /\ Hand' = Hand  BY <1>1 DEF Around, Hand, Id
<1>3. ASSUME NEW pts, NEW off, Expected(pts, off) PROVE Expected(pts, off)'
  <2>1. CASE ring = << >>
    <3>1. torn' = torn  BY <1>1, <2>1
    <3> QED BY <1>1, <1>3, <2>1, <3>1 DEF Expected
  <2>2. CASE ring # << >>
    <3>1. Len(ring) \in DOMAIN ring  BY <2>2 DEF TypeOK, EncTypes
    <3>2. slices # << >> => encoded \in torn'
      BY <1>1, <2>2, <3>1 DEF ContentInv, RingCuts
    <3> QED BY <1>1, <3>2 DEF Expected
  <2> QED BY <2>1, <2>2
<1>4. RingCuts' /\ OpenCount'  BY <1>1 DEF ContentInv, RingCuts, OpenCount
<1>5. OpenFrame'
  <2>1. \A pts \in Nat : ~(sf'.open /\ sf'.pts = pts) => Expected(pts, 0)'
    BY <1>1, <1>3 DEF ContentInv, OpenFrame
  <2> QED BY <1>1, <2>1 DEF ContentInv, OpenFrame
<1>6. Joined'  BY <1>1, <1>2 DEF ContentInv, Joined
<1>7. InHandInv'
  <2>1. ASSUME NEW p \in Around', PieceId(p) = Hand
        PROVE  \/ call'.kind = "frame"
               \/ /\ sf'.open /\ p.src = sf'.pts /\ p.idx < sf'.next_idx + call'.n
                  /\ ~sf'.failed /\ call'.s # -1 /\ p.idx + 1 = sf'.next_idx + call'.n =>
                       Expected(p.src, p.off + p.len)'
    BY <1>1, <1>2, <1>3, <2>1 DEF ContentInv, InHandInv
  <2> QED BY <1>2, <2>1 DEF InHandInv
<1> QED BY <1>4, <1>5, <1>6, <1>7 DEF ContentInv

\* What is on its way are pieces.
LEMMA AroundType ==
  ASSUME TypeOK
  PROVE  Around \subseteq Piece
<1> SUFFICES ASSUME NEW p \in Around PROVE p \in Piece  OBVIOUS
<1>1. \A c \in Chunk : c.piece \in Piece  BY DEF Chunk
<1>2. CASE \E i \in DOMAIN call.run : p = call.run[i].piece
  <2>1. call.run \in Seq(Chunk)  BY DEF TypeOK, TxTypes
  <2>2. \A i \in DOMAIN call.run : call.run[i] \in Chunk  BY <2>1, SeqFacts
  <2> QED BY <1>1, <1>2, <2>2
<1>3. CASE \E i \in DOMAIN link : p = link[i].piece
  <2>1. link \in Seq(Chunk)  BY DEF TypeOK, TxTypes
  <2>2. \A i \in DOMAIN link : link[i] \in Chunk  BY <2>1, SeqFacts
  <2> QED BY <1>1, <1>3, <2>2
<1>4. CASE \E i \in DOMAIN r.buf : p = r.buf[i].piece
  <2>1. r.buf \in Seq(Placed)  BY DEF TypeOK, RxTypes, Reasm
  <2>2. \A i \in DOMAIN r.buf : r.buf[i] \in Placed  BY <2>1, SeqFacts
  <2> QED BY <1>4, <2>2 DEF Placed
<1> QED BY <1>2, <1>3, <1>4 DEF Around

\* What is on its way belongs to a frame before a new number in hand.
LEMMA NewHand ==
  ASSUME TypeOK, Joined, NEW e \in Nat, NEW no \in Nat,
         e > epoch \/ (e = epoch /\ no > frame_no), NEW p \in Around
  PROVE  Leq(PieceId(p), Id(e, no)) /\ PieceId(p) # Id(e, no)
<1>1. epoch \in Nat /\ frame_no \in Nat  BY DEF TypeOK, TxTypes
<1>2. p.epoch \in Nat /\ p.no \in Nat  BY AroundType DEF Piece
<1>3. Leq(PieceId(p), Hand)  BY DEF Joined
<1>4. PieceId(p).epoch = p.epoch /\ PieceId(p).no = p.no /\ Hand.epoch = epoch /\ Hand.no = frame_no
      /\ Id(e, no).epoch = e /\ Id(e, no).no = no
  BY DEF PieceId, Hand, Id
<1>5. p.epoch < epoch \/ (p.epoch = epoch /\ p.no <= frame_no)  BY <1>3, <1>4 DEF Leq
<1>6. p.epoch < e \/ (p.epoch = e /\ p.no < no)  BY <1>1, <1>2, <1>5
<1>7. Leq(PieceId(p), Id(e, no))  BY <1>2, <1>4, <1>6 DEF Leq
<1>8. p.epoch # e \/ p.no # no  BY <1>2, <1>6
<1> QED BY <1>4, <1>7, <1>8

\* tx restarts: the frames it was in the middle of are torn.
LEMMA TxRestartContent ==
  ASSUME TypeOK, TypeOK', ContentInv, TxRestart
  PROVE  ContentInv'
<1>1. /\ UNCHANGED <<encoded, enc_off, slices>> /\ epoch' = epoch + 1 /\ frame_no' = 0
      /\ ring' = << >> /\ sf' = NoFrame /\ call' = NoCall
      /\ torn \subseteq torn' /\ (slices # << >> => encoded \in torn')
  BY DEF TxRestart, encVars
<1>2. Around' \subseteq Around
  <2>1. PICK d \in Nat : Loses(d)  BY QuietLoses
  <2> QED BY <2>1, LossAround
<1>3. \A pts, off : Expected(pts, off)'  BY <1>1 DEF Expected
<1>4. RingCuts' /\ OpenCount'  BY <1>1 DEF RingCuts, OpenCount, NoCall, NoFrame
<1>5. OpenFrame'
  <2>1. \A pts \in Nat : ~(sf'.open /\ sf'.pts = pts) => Expected(pts, 0)'  BY <1>3
  <2> QED BY <1>1, <2>1 DEF OpenFrame, NoFrame, NoCall
<1>6. ASSUME NEW p \in Around' PROVE Leq(PieceId(p), Hand') /\ PieceId(p) # Hand'
  <2>1. epoch' \in Nat /\ epoch' > epoch /\ frame_no' \in Nat  BY <1>1 DEF TypeOK, TxTypes
  <2>2. Hand' = Id(epoch', frame_no')  BY DEF Hand, Id
  <2> QED BY <1>2, <1>6, <2>1, <2>2, NewHand DEF ContentInv
<1>7. Joined'
  <2>1. \A p \in Around' : Leq(PieceId(p), Hand')  BY <1>6
  <2>2. \A p \in Around' : p.idx = 0 /\ p.src \notin torn' => p.off = 0
    BY <1>1, <1>2 DEF ContentInv, Joined
  <2>3. \A p, q \in Around' : PieceId(p) = PieceId(q) =>
           /\ p.src = q.src
           /\ q.idx = p.idx + 1 /\ p.src \notin torn' => q.off = p.off + p.len
    BY <1>1, <1>2 DEF ContentInv, Joined
  <2> QED BY <2>1, <2>2, <2>3 DEF Joined
<1>8. InHandInv'  BY <1>6 DEF InHandInv
<1> QED BY <1>4, <1>5, <1>7, <1>8 DEF ContentInv

\* The chunker returns: a slice is counted into the open frame, or the frame ends.
LEMMA TxReturnContent ==
  ASSUME TypeOK, TypeOK', SliceInv, ContentInv, TxReturn
  PROVE  ContentInv'
<1>1. /\ UNCHANGED <<encoded, enc_off, slices, ring, epoch, torn, link, r>>
      /\ call' = NoCall /\ call.kind # "none"
  BY DEF TxReturn, encVars, rxVars
<1>2. Around' \subseteq Around
  <2>1. PICK d \in Nat : Loses(d)  BY QuietLoses
  <2> QED BY <2>1, LossAround
<1>3. \A pts, off : Expected(pts, off)' <=> Expected(pts, off)  BY <1>1 DEF Expected
<1>4. RingCuts'  BY <1>1 DEF ContentInv, RingCuts
<1>5. /\ NoCall.kind = "none" /\ NoCall.run = << >> /\ NoCall.n = 0 /\ NoCall.s = 0
  BY DEF NoCall
<1>6. /\ sf \in [open: BOOLEAN, failed: BOOLEAN, pts: Nat, next_idx: Nat, sent: Nat]
      /\ call.n \in Nat /\ call.s \in Nat \cup {-1} /\ epoch \in Nat /\ frame_no \in Nat
  BY DEF TypeOK, TxTypes
<1>7. CASE call.kind = "part" /\ call.partial
  <2> DEFINE f == [sf EXCEPT !.failed = sf.failed \/ call.s < 0 \/ call.s # call.n,
                             !.sent = IF call.s > 0 THEN sf.sent + call.s ELSE sf.sent,
                             !.next_idx = sf.next_idx + call.n]
  <2>1. sf' = f /\ frame_no' = frame_no  BY <1>7 DEF TxReturn
  <2>2. /\ sf'.open = sf.open /\ sf'.pts = sf.pts /\ sf'.next_idx = sf.next_idx + call.n
        /\ (~sf'.failed => ~sf.failed /\ call.s # -1)
    <3>1. f.open = sf.open /\ f.pts = sf.pts /\ f.next_idx = sf.next_idx + call.n  BY <1>6
    <3>2. f.failed = (sf.failed \/ call.s < 0 \/ call.s # call.n)  BY <1>6
    <3>3. call.s = -1 => call.s < 0  OBVIOUS
    <3> HIDE DEF f
    <3> QED BY <2>1, <3>1, <3>2, <3>3
  <2>3. sf.open  BY <1>7 DEF SliceInv
  <2>4. OpenCount'
    <3>1. sf'.open /\ ~sf'.failed => sf'.next_idx > 0
      <4>1. ~sf'.failed => call.n > 0  BY <1>7, <2>2, <2>3 DEF ContentInv, OpenCount
      <4>2. sf.next_idx \in Nat  BY <1>6
      <4> QED BY <1>6, <2>2, <4>1, <4>2
    <3> QED BY <1>1, <1>5, <3>1 DEF OpenCount
  <2>5. OpenFrame'
    <3>1. \A pts \in Nat : ~(sf'.open /\ sf'.pts = pts) => Expected(pts, 0)'
      BY <1>3, <2>2 DEF ContentInv, OpenFrame
    <3> QED BY <1>1, <1>5, <2>2, <3>1 DEF ContentInv, OpenFrame
  <2>6. Hand' = Hand  BY <1>1, <2>1 DEF Hand, Id
  <2>7. Joined'  BY <1>1, <1>2, <2>6 DEF ContentInv, Joined
  <2>8. InHandInv'
    <3>1. ASSUME NEW p \in Around', PieceId(p) = Hand
          PROVE  /\ sf'.open /\ p.src = sf'.pts /\ p.idx < sf'.next_idx + call'.n
                 /\ ~sf'.failed /\ call'.s # -1 /\ p.idx + 1 = sf'.next_idx + call'.n =>
                       Expected(p.src, p.off + p.len)'
      <4>1. sf'.next_idx + call'.n = sf.next_idx + call.n  BY <1>1, <1>5, <1>6, <2>2
      <4>2. /\ sf.open /\ p.src = sf.pts /\ p.idx < sf.next_idx + call.n
            /\ ~sf.failed /\ call.s # -1 /\ p.idx + 1 = sf.next_idx + call.n =>
                  Expected(p.src, p.off + p.len)
        BY <1>2, <1>7, <3>1 DEF ContentInv, InHandInv
      <4> QED BY <1>3, <2>2, <4>1, <4>2
    <3> QED BY <2>6, <3>1 DEF InHandInv
  <2> QED BY <1>4, <2>4, <2>5, <2>7, <2>8 DEF ContentInv
<1>8. CASE (call.kind = "part" /\ ~call.partial) \/ call.kind = "frame"
  <2>1. frame_no' = frame_no + 1  BY <1>8 DEF TxReturn, EndFrame
  <2>2. ~sf'.open
    <3>1. CASE call.kind = "frame"  BY <3>1 DEF TxReturn, SliceInv
    <3>2. CASE call.kind = "part" /\ ~call.partial
      <4>1. PICK f : sf' = [f EXCEPT !.open = FALSE] /\ "open" \in DOMAIN f
        <5> DEFINE g == [sf EXCEPT !.failed = sf.failed \/ call.s < 0 \/ call.s # call.n,
                                   !.sent = IF call.s > 0 THEN sf.sent + call.s ELSE sf.sent,
                                   !.next_idx = sf.next_idx + call.n]
        <5>1. sf' = [g EXCEPT !.open = FALSE]  BY <3>2 DEF TxReturn
        <5>2. "open" \in DOMAIN g  BY <1>6
        <5> HIDE DEF g
        <5> QED BY <5>1, <5>2
      <4> QED BY <4>1
    <3> QED BY <1>8, <3>1, <3>2
  <2>3. OpenCount'  BY <1>1, <1>5, <2>2 DEF OpenCount
  <2>4. OpenFrame'
    <3>1. ASSUME NEW pts \in Nat PROVE Expected(pts, 0)'
      <4>1. CASE ~(sf.open /\ sf.pts = pts)  BY <1>3, <4>1 DEF ContentInv, OpenFrame
      <4>2. CASE sf.open /\ sf.pts = pts
        <5>1. call.kind = "part" /\ ~call.partial  BY <1>8, <4>2 DEF SliceInv
        <5>2. (\A k \in DOMAIN ring : ring[k].pts # pts) /\ (slices # << >> => encoded # pts)
          BY <4>2, <5>1 DEF ContentInv, OpenFrame
        <5>3. ring # << >> => 1 \in DOMAIN ring  BY DEF TypeOK, EncTypes
        <5>4. Expected(pts, 0)  BY <5>2, <5>3 DEF Expected
        <5> QED BY <1>3, <5>4
      <4> QED BY <4>1, <4>2
    <3> QED BY <1>1, <1>5, <2>2, <3>1 DEF OpenFrame
  <2>5. ASSUME NEW p \in Around' PROVE Leq(PieceId(p), Hand') /\ PieceId(p) # Hand'
    <3>1. epoch' = epoch /\ frame_no' \in Nat /\ frame_no' > frame_no  BY <1>1, <1>6, <2>1
    <3>2. Hand' = Id(epoch, frame_no')  BY <3>1 DEF Hand, Id
    <3> QED BY <1>2, <1>6, <2>5, <3>1, <3>2, NewHand DEF ContentInv
  <2>6. Joined'
    <3>1. \A p \in Around' : Leq(PieceId(p), Hand')  BY <2>5
    <3> QED BY <1>1, <1>2, <3>1 DEF ContentInv, Joined
  <2>7. InHandInv'  BY <2>5 DEF InHandInv
  <2> QED BY <1>4, <2>3, <2>4, <2>6, <2>7 DEF ContentInv
<1> QED BY <1>1, <1>6, <1>7, <1>8 DEF TypeOK, TxTypes

\* The encoder cuts the next slice where the one before ended, or gives up the frame.
LEMMA PublishContent ==
  ASSUME TypeOK, TypeOK', SliceInv, OrderInv, ContentInv, NEW pts \in Nat,
         NEW rest \in Seq([len: Nat, vcl: BOOLEAN]), rest # << >>,
         NEW off \in Nat, Publish(pts, rest, off),
         \/ pts = encoded + 1 /\ slices = << >> /\ off = 0
         \/ pts = encoded /\ slices # << >> /\ off = enc_off
  PROVE  ContentInv'
<1> DEFINE e == [pts |-> pts, off |-> off, len |-> Head(rest).len,
                 partial |-> Len(rest) > 1, vcl |-> Head(rest).vcl]
<1>1. /\ UNCHANGED <<epoch, frame_no, sf, call, link, r, torn>> /\ encoded' = pts
  BY DEF Publish, txVars, rxVars
<1>2. Around' = Around /\ Hand' = Hand  BY <1>1 DEF Around, Hand, Id
<1>3. \/ ring' = Append(ring, e) /\ enc_off' = off + e.len
      \/ ring' = ring /\ slices' = << >> /\ enc_off' = enc_off
  BY DEF Publish
<1>4. ring \in Seq(Entry) /\ encoded \in Nat  BY DEF TypeOK, EncTypes
<1>5. e.pts = pts /\ e.off = off  OBVIOUS
<1>6. \A k \in DOMAIN ring : ring[k].pts <= encoded /\ ring[k].pts \in Nat
  BY OrderTypes DEF OrderInv, RingOrder
<1> HIDE DEF e
<1>7. ring' = Append(ring, e) =>
        /\ DOMAIN ring' = 1..(Len(ring) + 1) /\ Len(ring') = Len(ring) + 1 /\ Len(ring) \in Nat
        /\ ring' # << >> /\ ring'[Len(ring) + 1] = e /\ \A k \in 1..Len(ring) : ring'[k] = ring[k]
        /\ DOMAIN ring = 1..Len(ring) /\ (ring = << >> <=> Len(ring) = 0)
  <2>1. DOMAIN ring = 1..Len(ring) /\ (ring = << >> <=> Len(ring) = 0) /\ Len(ring) \in Nat  BY <1>4
  <2> SUFFICES ASSUME ring' = Append(ring, e)
               PROVE  /\ DOMAIN ring' = 1..(Len(ring) + 1) /\ Len(ring') = Len(ring) + 1
                      /\ ring' # << >> /\ ring'[Len(ring) + 1] = e
                      /\ \A k \in 1..Len(ring) : ring'[k] = ring[k]
    BY <2>1
  <2>2. ring' \in Seq(Entry)  BY DEF TypeOK, EncTypes
  <2>3. DOMAIN ring' = 1..(Len(ring) + 1) /\ Len(ring') = Len(ring) + 1  BY <1>4, <2>1
  <2>4. ring'[Len(ring) + 1] = e  BY <1>4, <2>1
  <2>5. \A k \in 1..Len(ring) : ring'[k] = ring[k]  BY <1>4, <2>1
  <2> QED BY <2>1, <2>2, <2>3, <2>4, <2>5
<1>8. ASSUME NEW x \in Nat, NEW y, Expected(x, y),
             x = encoded + 1 => y = 0
      PROVE  Expected(x, y)'
  <2>1. CASE ring' = ring /\ slices' = << >>  BY <1>1, <1>8, <2>1 DEF Expected
  <2>2. CASE ring' = Append(ring, e)
    <3>1. CASE ring # << >>
      <4>1. ring'[1] = ring[1] /\ ring' # << >>  BY <1>7, <2>2, <3>1
      <4> QED BY <1>1, <1>8, <3>1, <4>1 DEF Expected
    <3>2. CASE ring = << >>
      <4>1. ring'[1] = e /\ ring' # << >>  BY <1>7, <2>2, <3>2
      <4>2. x \notin torn /\ e.pts = x => e.off = y  BY <1>5, <1>8, <3>2 DEF Expected
      <4> QED BY <1>1, <4>1, <4>2 DEF Expected
    <3> QED BY <3>1, <3>2
  <2> QED BY <1>3, <2>1, <2>2
<1>9. RingCuts'
  <2>1. CASE ring' = ring /\ slices' = << >>  BY <2>1 DEF ContentInv, RingCuts
  <2>2. CASE ring' = Append(ring, e) /\ enc_off' = off + e.len
    <3>1. ring'[Len(ring')].pts = encoded' /\ enc_off' = ring'[Len(ring')].off + ring'[Len(ring')].len
      BY <1>1, <1>5, <1>7, <2>2
    <3>2. ASSUME NEW k \in DOMAIN ring', k > 1
          PROVE  ring'[k].off = IF ring'[k].pts = ring'[k - 1].pts
                                THEN ring'[k - 1].off + ring'[k - 1].len ELSE 0
      <4>1. CASE k \in 1..Len(ring)
        <5>1. k - 1 \in 1..Len(ring)  BY <1>7, <2>2, <3>2, <4>1
        <5>2. ring'[k] = ring[k] /\ ring'[k - 1] = ring[k - 1] /\ k \in DOMAIN ring
          BY <1>7, <2>2, <4>1, <5>1
        <5> QED BY <3>2, <5>2 DEF ContentInv, RingCuts
      <4>2. CASE k = Len(ring) + 1
        <5>1. k - 1 = Len(ring) /\ Len(ring) \in 1..Len(ring) /\ ring # << >>
          BY <1>7, <2>2, <3>2, <4>2
        <5>2. ring'[k] = e /\ ring'[k - 1] = ring[Len(ring)] /\ Len(ring) \in DOMAIN ring
          BY <1>7, <2>2, <4>2, <5>1
        <5>3. ring[Len(ring)].pts <= encoded /\ ring[Len(ring)].pts \in Nat  BY <1>6, <5>2
        <5>4. CASE pts = encoded + 1 /\ off = 0
          <6>1. ring[Len(ring)].pts # pts  BY <1>4, <5>3, <5>4
          <6> QED BY <1>5, <5>2, <5>4, <6>1
        <5>5. CASE pts = encoded /\ slices # << >> /\ off = enc_off
          <6>1. ring[Len(ring)].pts = encoded /\ enc_off = ring[Len(ring)].off + ring[Len(ring)].len
            BY <5>1, <5>5 DEF ContentInv, RingCuts
          <6> QED BY <1>5, <5>2, <5>5, <6>1
        <5> QED BY <5>4, <5>5
      <4>3. k \in 1..Len(ring) \/ k = Len(ring) + 1  BY <1>7, <2>2
      <4> QED BY <4>1, <4>2, <4>3
    <3> QED BY <3>1, <3>2 DEF RingCuts
  <2> QED BY <1>3, <2>1, <2>2
<1>10. sf.open => sf.pts <= encoded /\ sf.pts \in Nat
  BY DEF ContentInv, OpenFrame, TypeOK, TxTypes
<1>11. OpenFrame'
  <2>1. \A x \in Nat : ~(sf'.open /\ sf'.pts = x) => Expected(x, 0)'
    BY <1>1, <1>8 DEF ContentInv, OpenFrame
  <2>2. sf.open => sf.pts <= pts  BY <1>4, <1>10
  <2>3. ASSUME call.kind = "part" /\ ~call.partial, sf.open
        PROVE  (\A k \in DOMAIN ring' : ring'[k].pts # sf.pts) /\ (slices' # << >> => pts # sf.pts)
    <3>1. (\A k \in DOMAIN ring : ring[k].pts # sf.pts) /\ (slices # << >> => encoded # sf.pts)
      BY <2>3 DEF ContentInv, OpenFrame
    <3>2. pts # sf.pts  BY <1>4, <1>10, <2>3, <3>1
    <3>3. CASE ring' = ring  BY <3>1, <3>2, <3>3
    <3>4. CASE ring' = Append(ring, e)
      <4>1. \A k \in DOMAIN ring' : (k \in DOMAIN ring /\ ring'[k] = ring[k]) \/ ring'[k] = e
        BY <1>7, <3>4
      <4> QED BY <1>5, <3>1, <3>2, <4>1
    <3> QED BY <1>3, <3>3, <3>4
  <2> QED BY <1>1, <2>1, <2>2, <2>3 DEF OpenFrame, SliceInv
<1>12. OpenCount' /\ Joined'  BY <1>1, <1>2 DEF ContentInv, OpenCount, Joined
<1>13. InHandInv'
  <2>1. ASSUME NEW p \in Around, PieceId(p) = Hand
        PROVE  \/ call.kind = "frame"
               \/ /\ sf.open /\ p.src = sf.pts /\ p.idx < sf.next_idx + call.n
                  /\ ~sf.failed /\ call.s # -1 /\ p.idx + 1 = sf.next_idx + call.n =>
                       Expected(p.src, p.off + p.len)'
    <3>1. \/ call.kind = "frame"
          \/ /\ sf.open /\ p.src = sf.pts /\ p.idx < sf.next_idx + call.n
             /\ ~sf.failed /\ call.s # -1 /\ p.idx + 1 = sf.next_idx + call.n =>
                  Expected(p.src, p.off + p.len)
      BY <2>1 DEF ContentInv, InHandInv
    <3>2. ASSUME sf.open, p.src = sf.pts PROVE p.src \in Nat /\ p.src # encoded + 1
      BY <1>4, <1>10, <3>2
    <3> QED BY <1>8, <3>1, <3>2
  <2> QED BY <1>1, <1>2, <2>1 DEF InHandInv
<1> QED BY <1>9, <1>11, <1>12, <1>13 DEF ContentInv

\* Reading an entry e goes on with the open frame, or starts one after closing what was open.
Goes(e) ==
    \/ /\ sf.open /\ sf.pts = e.pts /\ sf' = sf /\ frame_no' = frame_no /\ call'.kind = "part"
    \/ /\ ~(sf.open /\ sf.pts = e.pts)
       /\ frame_no' = IF sf.open THEN frame_no + 1 ELSE frame_no
       /\ \/ /\ call'.kind = "part" /\ e.partial
             /\ sf'.open /\ sf'.pts = e.pts /\ sf'.next_idx = 0 /\ ~sf'.failed
          \/ call'.kind = "frame" /\ ~e.partial /\ ~sf'.open

\* Its chunks are e in order, or there are none of them.
Makes(e) ==
    \/ /\ call'.run = << >> /\ call'.n = 0
       /\ call'.s = -1 \/ (call'.kind = "part" /\ sf'.failed)
    \/ /\ call'.s = 0 /\ call'.n = ChunkCount(e.len)
       /\ call'.kind = "part" => ~sf'.failed
       /\ Cut(call'.run, e, IF call'.kind = "part" THEN sf'.next_idx ELSE 0)
       /\ Ends(call'.run, IF call'.kind = "part" THEN 0 ELSE call'.n, ~e.partial)

\* tx/main.c:1170-1244 in these terms.
LEMMA TxReadMakes ==
  ASSUME TypeOK, TxRead
  PROVE  Goes(Head(ring)) /\ Makes(Head(ring)) /\ call'.partial = Head(ring).partial
<1> DEFINE e       == Head(ring)
           stale   == Overtakes(e)
           open    == sf.open /\ ~stale
           stream  == e.partial \/ open
           no      == IF stale THEN frame_no + 1 ELSE frame_no
           seq     == IF stale THEN NextSeq(frame_seq) ELSE frame_seq
           f       == IF open THEN sf
                      ELSE IF stream THEN [NoFrame EXCEPT !.open = TRUE, !.pts = e.pts]
                      ELSE [sf EXCEPT !.open = FALSE]
           first   == IF stream THEN f.next_idx ELSE 0
           refused == TooManyChunks(e, first)
           run     == IF stream THEN chunk_part(seq, e, first, ~e.partial, Id(epoch, no))
                      ELSE chunk_frame(seq, e, Id(epoch, no))
           none    == (stream /\ f.failed) \/ refused
<1>1. e \in Entry  BY SeqFacts DEF TxRead, TypeOK, EncTypes
<1>2. e.partial \in BOOLEAN /\ (~e.partial) \in BOOLEAN /\ e.len \in Nat /\ e.pts \in Nat  BY <1>1 DEF Entry
<1>3. frame_no \in Nat /\ epoch \in Nat /\ frame_seq \in Nat
      /\ sf \in [open: BOOLEAN, failed: BOOLEAN, pts: Nat, next_idx: Nat, sent: Nat]
  BY Constants DEF TypeOK, TxTypes
<1>4. /\ frame_no' = no /\ sf' = f /\ call'.partial = e.partial
      /\ call'.kind = (IF stream THEN "part" ELSE "frame")
      /\ call'.run = (IF none THEN << >> ELSE run)
      /\ call'.n = (IF none THEN 0 ELSE ChunkCount(e.len))
      /\ call'.s = (IF refused /\ ~(stream /\ f.failed) THEN -1 ELSE 0)
  BY DEF TxRead
<1>5. first \in Nat  BY <1>3 DEF NoFrame
<1>6. Cut(run, e, first)
  <2>1. Id(epoch, no) \in [epoch: Nat, no: Nat]  BY <1>3 DEF Id
  <2>2. seq \in Nat
    <3>1. NextSeq(frame_seq) \in 0..(SeqMod - 1)  BY <1>3, NextSeqFacts
    <3> QED BY <1>3, <3>1, Constants
  <2>3. ChunkCount(e.len) \in Nat  BY <1>2, ChunkCountFacts
  <2>4. ~stream => first = 0  OBVIOUS
  <2> HIDE DEF e, stale, open, stream, no, seq, f, first
  <2>5. Cut(chunk_part(seq, e, first, ~e.partial, Id(epoch, no)), e, first)
    BY <1>1, <1>2, <1>5, <2>1, <2>2, RunCut DEF chunk_part
  <2>6. Cut(chunk_frame(seq, e, Id(epoch, no)), e, 0)
    BY <1>1, <2>1, <2>2, <2>3, RunCut DEF chunk_frame
  <2> QED BY <2>4, <2>5, <2>6
<1>7. Ends(run, IF stream THEN 0 ELSE ChunkCount(e.len), ~e.partial)
  <2>1. Id(epoch, no) \in [epoch: Nat, no: Nat]  BY <1>3 DEF Id
  <2>2. seq \in Nat
    <3>1. NextSeq(frame_seq) \in 0..(SeqMod - 1)  BY <1>3, NextSeqFacts
    <3> QED BY <1>3, <3>1, Constants
  <2>3. ChunkCount(e.len) \in Nat  BY <1>2, ChunkCountFacts
  <2>4. ~stream => ~e.partial  OBVIOUS
  <2> HIDE DEF e, stale, open, stream, no, seq, f, first
  <2>5. Ends(chunk_part(seq, e, first, ~e.partial, Id(epoch, no)), 0, ~e.partial)
    BY <1>1, <1>2, <1>5, <2>1, <2>2, RunEnds DEF chunk_part
  <2>6. ~stream => Ends(chunk_frame(seq, e, Id(epoch, no)), ChunkCount(e.len), ~e.partial)
    BY <1>1, <2>1, <2>2, <2>3, <2>4, RunEnds DEF chunk_frame
  <2> QED BY <2>5, <2>6
<1>8. Goes(e)
  <2>1. CASE open
    BY <1>4, <2>1 DEF Goes, Overtakes
  <2>2. CASE ~open
    <3>1. ~(sf.open /\ sf.pts = e.pts) /\ no = (IF sf.open THEN frame_no + 1 ELSE frame_no)
      BY <2>2 DEF Overtakes
    <3>2. CASE e.partial
      <4>1. f = [NoFrame EXCEPT !.open = TRUE, !.pts = e.pts]  BY <2>2, <3>2
      <4>2. f.open /\ f.pts = e.pts /\ f.next_idx = 0 /\ ~f.failed  BY <4>1 DEF NoFrame
      <4> HIDE DEF e, f, no, open
      <4> QED BY <1>4, <3>1, <3>2, <4>2 DEF Goes
    <3>3. CASE ~e.partial
      <4>1. f = [sf EXCEPT !.open = FALSE]  BY <2>2, <3>3
      <4>2. ~f.open  BY <1>3, <4>1
      <4> HIDE DEF e, f, no, open
      <4> QED BY <1>4, <2>2, <3>1, <3>3, <4>2 DEF Goes
    <3> QED BY <1>2, <3>2, <3>3
  <2> QED BY <2>1, <2>2
<1>9. Makes(e)
  <2> HIDE DEF e, stale, open, no, seq, f, refused, run
  <2>1. CASE none
    <3>1. call'.run = << >> /\ call'.n = 0  BY <1>4, <2>1
    <3>2. call'.s = -1 \/ (call'.kind = "part" /\ sf'.failed)  BY <1>4, <2>1
    <3> QED BY <3>1, <3>2 DEF Makes
  <2>2. CASE ~none
    <3>1. call'.s = 0 /\ call'.n = ChunkCount(e.len) /\ call'.run = run  BY <1>4, <2>2
    <3>2. first = IF call'.kind = "part" THEN sf'.next_idx ELSE 0  BY <1>4
    <3>3. call'.kind = "part" => ~sf'.failed  BY <1>4, <2>2
    <3>4. (IF stream THEN 0 ELSE ChunkCount(e.len)) = IF call'.kind = "part" THEN 0 ELSE call'.n
      BY <1>4, <3>1
    <3> QED BY <1>6, <1>7, <3>1, <3>2, <3>3, <3>4 DEF Makes
  <2> QED BY <2>1, <2>2
<1> QED BY <1>4, <1>8, <1>9

\* A read takes the head of the ring: of its source frame the bytes behind it come next, all
\* others start afresh.
LEMMA ReadOn ==
  ASSUME TypeOK, OrderInv, ContentInv, TxRead
  PROVE  LET e == Head(ring)
         IN  /\ e \in Entry /\ e = ring[1] /\ ring # << >> /\ ring' = Tail(ring)
             /\ \A k \in DOMAIN ring' : k \in Nat /\ k + 1 \in DOMAIN ring /\ ring'[k] = ring[k + 1]
             /\ \A pts, off : pts = e.pts /\ off = e.off + e.len => Expected(pts, off)'
             /\ \A pts \in Nat \ {e.pts} : Expected(pts, 0)'
             /\ ~e.partial => /\ \A k \in DOMAIN ring' : ring'[k].pts # e.pts
                              /\ slices' # << >> => encoded' # e.pts
             /\ e.pts <= encoded' /\ RingCuts'
<1> DEFINE e == Head(ring)
<1>1. UNCHANGED <<encoded, slices, enc_off, torn>> /\ ring' = Tail(ring) /\ ring # << >>
  BY DEF TxRead, encVars
<1>2. /\ e \in Entry /\ e = ring[1] /\ 1 \in DOMAIN ring
      /\ \A k \in DOMAIN ring' : k \in Nat \ {0} /\ k + 1 \in DOMAIN ring /\ ring'[k] = ring[k + 1] /\ 1 < k + 1
      /\ ring' # << >> => 1 \in DOMAIN ring' /\ Len(ring') = Len(ring) - 1 /\ Len(ring') \in DOMAIN ring'
      /\ ring' = << >> => Len(ring) = 1
  <2>1. ring \in Seq(Entry)  BY DEF TypeOK, EncTypes
  <2>2. e \in Entry /\ e = ring[1] /\ 1 \in DOMAIN ring  BY <1>1, <2>1
  <2>3. /\ \A k \in DOMAIN ring' : k \in Nat \ {0} /\ k + 1 \in DOMAIN ring /\ 1 < k + 1
        /\ \A k \in DOMAIN ring' : ring'[k] = ring[k + 1]
    BY <1>1, <2>1
  <2>4. ring' \in Seq(Entry) /\ Len(ring') = Len(ring) - 1 /\ Len(ring) \in Nat  BY <1>1, <2>1
  <2>5. ring' # << >> => 1 \in DOMAIN ring' /\ Len(ring') \in DOMAIN ring'  BY <2>4
  <2>6. ring' = << >> => Len(ring) = 1
    <3>1. ring' = << >> => Len(ring') = 0  BY <2>4
    <3> QED BY <2>4, <3>1
  <2> QED BY <2>2, <2>3, <2>4, <2>5, <2>6
<1>3. RingOrder /\ RingCuts  BY DEF OrderInv, ContentInv
<1> HIDE DEF e
<1>4. /\ ring' # << >> => ring'[1] = ring[2] /\ 2 \in DOMAIN ring
      /\ ring' = << >> /\ slices # << >> => encoded = e.pts /\ enc_off = e.off + e.len
  <2>1. ring' # << >> => ring'[1] = ring[2] /\ 2 \in DOMAIN ring  BY <1>2
  <2> QED BY <1>1, <1>2, <1>3, <2>1 DEF RingCuts
<1>5. ring' # << >> => ring'[1].off = IF ring'[1].pts = e.pts THEN e.off + e.len ELSE 0
  BY <1>2, <1>3, <1>4 DEF RingCuts
<1>6. \A pts, off : pts = e.pts /\ off = e.off + e.len => Expected(pts, off)'
  BY <1>1, <1>4, <1>5 DEF Expected
<1>7. \A pts \in Nat \ {e.pts} : Expected(pts, 0)'  BY <1>1, <1>4, <1>5 DEF Expected
<1>8. e.pts \in Nat /\ encoded \in Nat /\ \A k \in DOMAIN ring : ring[k].pts \in Nat
  BY <1>2, OrderTypes DEF Entry
<1>9. ~e.partial => /\ \A k \in DOMAIN ring' : ring'[k].pts # e.pts
                    /\ slices' # << >> => encoded' # e.pts
  <2>1. ~e.partial /\ slices # << >> => e.pts < encoded  BY <1>2, <1>3 DEF RingOrder
  <2>2. ASSUME ~e.partial, NEW k \in DOMAIN ring' PROVE ring'[k].pts # e.pts
    <3>1. e.pts < ring[k + 1].pts  BY <1>2, <1>3, <2>2 DEF RingOrder
    <3> QED BY <1>2, <1>8, <3>1
  <2> QED BY <1>1, <1>8, <2>1, <2>2
<1>10. e.pts <= encoded'  BY <1>1, <1>2, <1>3 DEF RingOrder
<1>11. RingCuts'
  <2>1. ASSUME NEW k \in DOMAIN ring', k > 1
        PROVE  ring'[k].off = IF ring'[k].pts = ring'[k - 1].pts
                              THEN ring'[k - 1].off + ring'[k - 1].len ELSE 0
    <3>1. k - 1 \in DOMAIN ring'
      <4>1. ring' \in Seq(Entry)  BY <1>1 DEF TypeOK, EncTypes
      <4> QED BY <2>1, <4>1
    <3>2. ring'[k] = ring[k + 1] /\ ring'[k - 1] = ring[k] /\ k + 1 \in DOMAIN ring /\ k + 1 > 1
          /\ (k + 1) - 1 = k
      <4>1. k \in Nat \ {0}  BY <1>2
      <4>2. (k - 1) + 1 = k /\ (k + 1) - 1 = k /\ k + 1 > 1  BY <4>1
      <4> QED BY <1>2, <3>1, <4>2
    <3> QED BY <1>3, <3>2 DEF RingCuts
  <2>2. ASSUME ring' # << >>, slices' # << >>
        PROVE  LET l == ring'[Len(ring')] IN l.pts = encoded' /\ enc_off' = l.off + l.len
    <3>1. ring'[Len(ring')] = ring[Len(ring)]
      <4>1. Len(ring) \in Nat  BY DEF TypeOK, EncTypes
      <4>2. Len(ring') + 1 = Len(ring)  BY <1>2, <2>2, <4>1
      <4> QED BY <1>2, <2>2, <4>2
    <3> QED BY <1>1, <1>3, <2>2, <3>1 DEF RingCuts
  <2> QED BY <2>1, <2>2 DEF RingCuts
<1> QED BY <1>1, <1>2, <1>6, <1>7, <1>9, <1>10, <1>11 DEF e

\* The chunks of an entry go on where the open frame ended, or start a source frame.
LEMMA TxReadContent ==
  ASSUME TypeOK, TypeOK', MixInv', SliceInv, OrderInv, ContentInv, TxRead
  PROVE  ContentInv'
<1> DEFINE e == Head(ring)
           New(p) == \E i \in DOMAIN call'.run : p = call'.run[i].piece
           first == IF call'.kind = "part" THEN sf'.next_idx ELSE 0
<1>1. UNCHANGED <<encoded, slices, enc_off, epoch, link, r, torn>> /\ call.kind = "none" /\ call = NoCall
  BY DEF TxRead, encVars, rxVars, ContentInv, OpenCount
<1>2. NoCall.kind = "none" /\ NoCall.run = << >> /\ NoCall.n = 0 /\ NoCall.s = 0  BY DEF NoCall
<1>3. Goes(e) /\ Makes(e) /\ call'.partial = e.partial  BY TxReadMakes
<1>4. /\ e \in Entry /\ e = ring[1] /\ ring # << >>
      /\ \A pts, off : pts = e.pts /\ off = e.off + e.len => Expected(pts, off)'
      /\ \A pts \in Nat \ {e.pts} : Expected(pts, 0)'
      /\ ~e.partial => /\ \A k \in DOMAIN ring' : ring'[k].pts # e.pts
                       /\ slices' # << >> => encoded' # e.pts
      /\ e.pts <= encoded' /\ RingCuts'
  BY ReadOn
<1> HIDE DEF e
<1>5. e.pts \in Nat /\ e.len \in Nat /\ e.off \in Nat  BY <1>4 DEF Entry
<1>6. /\ epoch \in Nat /\ frame_no \in Nat /\ frame_no' \in Nat /\ sf.next_idx \in Nat
      /\ sf'.next_idx \in Nat /\ call'.kind \in {"part", "frame"} /\ call'.n \in Nat
  <2>1. call'.kind \in {"part", "frame"}  BY <1>3 DEF Goes
  <2> QED BY <2>1 DEF TypeOK, TxTypes
<1>7. Hand' = Id(epoch, frame_no')  BY <1>1 DEF Hand, Id
<1>8. \A p \in Around' : p \in Around \/ New(p)
  BY <1>1 DEF Around
<1>9. ASSUME NEW p, New(p) PROVE PieceId(p) = Hand'
  <2>1. PICK i \in DOMAIN call'.run : p = call'.run[i].piece  BY <1>9
  <2>2. IdOf(call'.run[i]) = Id(epoch', frame_no')  BY <2>1 DEF MixInv, CallInv, Id, IdOf
  <2> QED BY <1>1, <1>7, <2>1, <2>2 DEF IdOf, PieceId
<1>10. ASSUME NEW p \in Around
       PROVE  /\ Leq(PieceId(p), Hand') /\ p.idx \in Nat
              /\ PieceId(p) = Hand' =>
                   /\ sf.open /\ sf.pts = e.pts /\ sf' = sf /\ call'.kind = "part"
                   /\ p.src = e.pts /\ p.idx < sf.next_idx
                   /\ ~sf.failed /\ p.idx + 1 = sf.next_idx => Expected(p.src, p.off + p.len)
  <2>1. p.idx \in Nat  BY AroundType DEF Piece
  <2>2. PieceId(p) = Hand =>
          /\ sf.open /\ p.src = sf.pts /\ p.idx < sf.next_idx
          /\ ~sf.failed /\ p.idx + 1 = sf.next_idx => Expected(p.src, p.off + p.len)
    <3>1. sf.next_idx + call.n = sf.next_idx /\ call.kind # "frame" /\ call.s # -1  BY <1>1, <1>2, <1>6
    <3> QED BY <3>1 DEF ContentInv, InHandInv
  <2>3. CASE frame_no' = frame_no /\ sf.open /\ sf.pts = e.pts /\ sf' = sf /\ call'.kind = "part"
    <3>1. Hand' = Hand  BY <1>7, <2>3 DEF Hand
    <3> QED BY <2>1, <2>2, <2>3, <3>1 DEF ContentInv, Joined
  <2>4. CASE frame_no' = frame_no /\ ~sf.open
    <3>1. Hand' = Hand  BY <1>7, <2>4 DEF Hand
    <3> QED BY <2>1, <2>2, <2>4, <3>1 DEF ContentInv, Joined
  <2>5. CASE frame_no' = frame_no + 1
    <3>1. frame_no' > frame_no  BY <1>6, <2>5
    <3> QED BY <1>6, <1>7, <2>1, <3>1, NewHand DEF ContentInv
  <2> QED BY <1>3, <2>3, <2>4, <2>5 DEF Goes
<1>11. ASSUME NEW i \in DOMAIN call'.run
       PROVE  Cut(call'.run, e, first) /\ call'.s = 0 /\ call'.n = Len(call'.run) /\ i \in 1..call'.n
              /\ (call'.kind = "part" => ~sf'.failed)
  <2>1. call'.run # << >>  BY <1>11
  <2>2. Cut(call'.run, e, first) /\ call'.s = 0 /\ call'.n = ChunkCount(e.len)
        /\ (call'.kind = "part" => ~sf'.failed)
    BY <1>3, <2>1 DEF Makes
  <2> QED BY <2>2 DEF Cut
<1>12. first \in Nat /\ (call'.kind = "part" => first = sf'.next_idx)  BY <1>6
<1> HIDE DEF first
<1>13. OpenFrame'
  <2>1. sf'.open => sf'.pts = e.pts  BY <1>3 DEF Goes
  <2>2. call'.kind = "part" => sf'.open  BY <1>3 DEF Goes
  <2>3. ASSUME NEW pts \in Nat, ~(sf'.open /\ sf'.pts = pts) PROVE Expected(pts, 0)'
    <3>1. CASE pts # e.pts  BY <1>4, <3>1
    <3>2. CASE pts = e.pts
      <4>1. ~e.partial  BY <1>3, <2>3, <3>2 DEF Goes
      <4>2. ring' # << >> => 1 \in DOMAIN ring'  BY DEF TypeOK, EncTypes
      <4> QED BY <1>4, <3>2, <4>1, <4>2 DEF Expected
    <3> QED BY <3>1, <3>2
  <2>4. call'.kind = "part" /\ ~call'.partial =>
          (\A k \in DOMAIN ring' : ring'[k].pts # sf'.pts) /\ (slices' # << >> => encoded' # sf'.pts)
    BY <1>3, <1>4, <2>1, <2>2
  <2>5. sf'.open => sf'.pts <= encoded'  BY <1>4, <2>1
  <2> QED BY <2>3, <2>4, <2>5 DEF OpenFrame
<1>14. OpenCount'
  <2>1. call'.run # << >> => call'.s >= 0  BY <1>3 DEF Makes
  <2>2. ChunkCount(e.len) > 0  BY <1>5, ChunkCountFacts
  <2>3. call'.s # -1 /\ ~(call'.kind = "part" /\ sf'.failed) => call'.n > 0  BY <1>3, <2>2 DEF Makes
  <2>4. call'.kind = "part" => sf'.open  BY <1>3 DEF Goes
  <2> QED BY <1>6, <2>1, <2>3, <2>4 DEF OpenCount
<1>15. ASSUME NEW p \in Around', p.idx = 0, p.src \notin torn' PROVE p.off = 0
  <2>1. CASE p \in Around  BY <1>1, <1>15, <2>1 DEF ContentInv, Joined
  <2>2. CASE New(p)
    <3>1. PICK i \in DOMAIN call'.run : p = call'.run[i].piece  BY <2>2
    <3>2. Cut(call'.run, e, first) /\ i \in 1..call'.n /\ (call'.kind = "part" => ~sf'.failed)
      BY <1>11, <3>1
    <3>3. p.src = e.pts /\ p.idx = first + i - 1 /\ (i = 1 => p.off = e.off)  BY <3>1, <3>2 DEF Cut
    <3>4. first = 0 /\ i = 1
      <4>1. i \in Nat /\ i >= 1 /\ first \in Nat  BY <1>6, <1>12, <3>2
      <4>2. first + i - 1 = 0  BY <1>15, <3>3
      <4> QED BY <4>1, <4>2
    <3>5. ~(sf.open /\ sf.pts = e.pts)
      <4> SUFFICES ASSUME sf.open, sf.pts = e.pts PROVE FALSE  OBVIOUS
      <4>1. sf' = sf /\ call'.kind = "part"  BY <1>3 DEF Goes
      <4>2. ~sf.failed /\ sf.next_idx = 0  BY <1>12, <3>2, <3>4, <4>1
      <4>3. sf.next_idx > 0  BY <1>1, <1>2, <4>2 DEF ContentInv, OpenCount
      <4> QED BY <4>2, <4>3
    <3>6. Expected(e.pts, 0)  BY <1>5, <3>5 DEF ContentInv, OpenFrame
    <3>7. e.off = 0  BY <1>1, <1>4, <1>15, <3>3, <3>6 DEF Expected
    <3> QED BY <3>3, <3>4, <3>7
  <2> QED BY <1>8, <2>1, <2>2
<1>16. ASSUME NEW p \in Around', NEW q \in Around', PieceId(p) = PieceId(q)
       PROVE  p.src = q.src /\ (q.idx = p.idx + 1 /\ p.src \notin torn' => q.off = p.off + p.len)
  <2>1. CASE p \in Around /\ q \in Around  BY <1>1, <1>16, <2>1 DEF ContentInv, Joined
  <2>2. CASE New(p) /\ New(q)
    <3>1. PICK i \in DOMAIN call'.run : p = call'.run[i].piece  BY <2>2
    <3>2. PICK j \in DOMAIN call'.run : q = call'.run[j].piece  BY <2>2
    <3>3. Cut(call'.run, e, first) /\ i \in 1..call'.n /\ j \in 1..call'.n  BY <1>11, <3>1, <3>2
    <3>4. p.src = e.pts /\ q.src = e.pts /\ p.idx = first + i - 1 /\ q.idx = first + j - 1
      BY <3>1, <3>2, <3>3 DEF Cut
    <3>5. q.idx = p.idx + 1 => j = i + 1  BY <1>6, <1>12, <3>3, <3>4
    <3> QED BY <3>1, <3>2, <3>3, <3>4, <3>5 DEF Cut
  <2>3. CASE p \in Around /\ New(q)
    <3>1. PICK j \in DOMAIN call'.run : q = call'.run[j].piece  BY <2>3
    <3>2. Cut(call'.run, e, first) /\ j \in 1..call'.n /\ (call'.kind = "part" => ~sf'.failed)
      BY <1>11, <3>1
    <3>3. q.src = e.pts /\ q.idx = first + j - 1 /\ (j = 1 => q.off = e.off)  BY <3>1, <3>2 DEF Cut
    <3>4. /\ sf.open /\ sf.pts = e.pts /\ sf' = sf /\ call'.kind = "part"
          /\ p.src = e.pts /\ p.idx < sf.next_idx /\ p.idx \in Nat
          /\ ~sf.failed /\ p.idx + 1 = sf.next_idx => Expected(p.src, p.off + p.len)
      BY <1>9, <1>10, <1>16, <2>3
    <3>5. ASSUME q.idx = p.idx + 1, p.src \notin torn' PROVE q.off = p.off + p.len
      <4>1. first = sf.next_idx /\ ~sf.failed  BY <1>12, <3>2, <3>4
      <4>2. j = 1 /\ p.idx + 1 = sf.next_idx  BY <1>6, <3>2, <3>3, <3>4, <3>5, <4>1
      <4>3. Expected(e.pts, p.off + p.len)  BY <3>4, <4>1, <4>2
      <4>4. e.off = p.off + p.len  BY <1>1, <1>4, <3>4, <3>5, <4>3 DEF Expected
      <4> QED BY <3>3, <4>2, <4>4
    <3> QED BY <3>3, <3>4, <3>5
  <2>4. CASE New(p) /\ q \in Around
    <3>1. PICK i \in DOMAIN call'.run : p = call'.run[i].piece  BY <2>4
    <3>2. Cut(call'.run, e, first) /\ i \in 1..call'.n  BY <1>11, <3>1
    <3>3. p.src = e.pts /\ p.idx = first + i - 1  BY <3>1, <3>2 DEF Cut
    <3>4. /\ sf' = sf /\ call'.kind = "part" /\ q.src = e.pts /\ q.idx < sf.next_idx /\ q.idx \in Nat
      BY <1>9, <1>10, <1>16, <2>4
    <3>5. q.idx # p.idx + 1
      <4>1. first = sf.next_idx  BY <1>12, <3>4
      <4> QED BY <1>6, <3>2, <3>3, <3>4, <4>1
    <3> QED BY <3>3, <3>4, <3>5
  <2> QED BY <1>8, <2>1, <2>2, <2>3, <2>4
<1>17. Joined'
  <2>1. ASSUME NEW p \in Around' PROVE Leq(PieceId(p), Hand')
    <3>1. CASE p \in Around  BY <1>10, <3>1
    <3>2. CASE New(p)
      <4>1. PieceId(p) = Hand'  BY <1>9, <3>2
      <4>2. Hand'.no = frame_no'  BY <1>7 DEF Id
      <4> QED BY <1>6, <4>1, <4>2 DEF Leq
    <3> QED BY <1>8, <3>1, <3>2
  <2> QED BY <1>15, <1>16, <2>1 DEF Joined
<1>18. ASSUME NEW p \in Around', PieceId(p) = Hand', call'.kind = "part"
       PROVE  /\ sf'.open /\ p.src = sf'.pts /\ p.idx < sf'.next_idx + call'.n
              /\ ~sf'.failed /\ call'.s # -1 /\ p.idx + 1 = sf'.next_idx + call'.n =>
                   Expected(p.src, p.off + p.len)'
  <2>1. sf'.open /\ sf'.pts = e.pts  BY <1>3, <1>18 DEF Goes
  <2>2. CASE p \in Around
    <3>1. sf' = sf /\ p.src = e.pts /\ p.idx < sf.next_idx /\ p.idx \in Nat  BY <1>10, <1>18, <2>2
    <3>2. p.idx < sf'.next_idx + call'.n  BY <1>6, <3>1
    <3>3. ~sf'.failed /\ call'.s # -1 => call'.n > 0
      BY <1>14, <1>18, <2>1 DEF OpenCount
    <3>4. ~sf'.failed /\ call'.s # -1 => p.idx + 1 # sf'.next_idx + call'.n  BY <1>6, <3>1, <3>3
    <3> QED BY <2>1, <3>1, <3>2, <3>4
  <2>3. CASE New(p)
    <3>1. PICK i \in DOMAIN call'.run : p = call'.run[i].piece  BY <2>3
    <3>2. Cut(call'.run, e, first) /\ i \in 1..call'.n /\ call'.n = Len(call'.run)  BY <1>11, <3>1
    <3>3. /\ p.src = e.pts /\ p.idx = first + i - 1
          /\ i = call'.n => p.off + p.len = e.off + e.len
      BY <3>1, <3>2 DEF Cut
    <3>4. first = sf'.next_idx  BY <1>12, <1>18
    <3>5. p.idx < sf'.next_idx + call'.n  BY <1>6, <3>2, <3>3, <3>4
    <3>6. p.idx + 1 = sf'.next_idx + call'.n => i = call'.n  BY <1>6, <3>2, <3>3, <3>4
    <3>7. p.idx + 1 = sf'.next_idx + call'.n => Expected(p.src, p.off + p.len)'
      <4>1. i = call'.n => p.off + p.len = e.off + e.len /\ p.src = e.pts  BY <3>3
      <4> QED BY <1>4, <3>6, <4>1
    <3> QED BY <2>1, <3>3, <3>5, <3>7
  <2> QED BY <1>8, <1>18, <2>2, <2>3
<1>19. InHandInv'  BY <1>6, <1>18 DEF InHandInv
<1> QED BY <1>4, <1>13, <1>14, <1>17, <1>19 DEF ContentInv

\* ContentInv is inductive: the bytes of a frame stay joined from the encoder's cuts to the
\* buffer of rx, except those of a source frame that a flush or a restart tore.
THEOREM ContentInvariant == Spec => []ContentInv
<1>1. ASSUME TypeOK, TypeOK', MixInv', SliceInv, OrderInv, ContentInv, EncodeFrame \/ EncodeSlice
      PROVE  ContentInv'
  <2>1. encoded \in Nat /\ encoded + 1 \in Nat /\ enc_off \in Nat
        /\ slices \in Seq([len: Nat, vcl: BOOLEAN])
    BY <1>1 DEF TypeOK, EncTypes
  <2>2. CASE EncodeFrame
    <3>1. PICK s \in Slicings : Publish(encoded + 1, s, 0)  BY <2>2 DEF EncodeFrame
    <3>2. s \in Seq([len: Nat, vcl: BOOLEAN]) /\ s # << >>  BY VideoLinkAssumption
    <3>3. slices = << >> /\ 0 \in Nat  BY <2>2 DEF EncodeFrame
    <3> QED BY <1>1, <2>1, <3>1, <3>2, <3>3, PublishContent
  <2>3. CASE EncodeSlice
    BY <1>1, <2>1, <2>3, PublishContent DEF EncodeSlice
  <2> QED BY <1>1, <2>2, <2>3
<1>2. TypeOK /\ TypeOK' /\ MixInv' /\ SliceInv /\ OrderInv /\ ContentInv /\ [Next]_vars => ContentInv'
  BY <1>1, EncoderRestartContent, MovesContent, TxReadContent, TxReturnContent, TxReconnectContent,
     TxRestartContent DEF Next, Tx, Rx
<1>3. BalanceInv => SliceInv  BY DEF BalanceInv
<1> QED BY <1>2, <1>3, InitContent, TypeCorrect, MixInvariant, BalanceInvariant, OrderInvariant, PTL DEF Spec

\* Pieces of one frame and one tx run, numbered from 0, run on from the start of their source frame.
LEMMA RunsOn ==
  ASSUME ContentInv, NEW s \in Seq(Piece), s # << >>, OneFrame(s), OneRun(s),
         \A i \in DOMAIN s : s[i] \in Around, s[1].src \notin torn
  PROVE  Contiguous(s) /\ s[1].off = 0
<1>1. DOMAIN s = 1..Len(s) /\ Len(s) \in Nat /\ 1 \in DOMAIN s  OBVIOUS
<1>2. \A i \in DOMAIN s : s[i].idx = i - 1 /\ PieceId(s[i]) = PieceId(s[1])
  BY <1>1 DEF OneFrame, OneRun, PieceId
<1>3. \A i \in DOMAIN s : s[i].src = s[1].src  BY <1>1, <1>2 DEF ContentInv, Joined
<1>4. s[1].off = 0
  <2>1. s[1].idx = 0  BY <1>1, <1>2
  <2> QED BY <1>1, <2>1 DEF ContentInv, Joined
<1>5. ASSUME NEW i \in 2..Len(s) PROVE s[i].off = s[i - 1].off + s[i - 1].len
  <2>1. i \in DOMAIN s /\ i - 1 \in DOMAIN s  BY <1>1
  <2>2. s[i].idx = i - 1 /\ s[i - 1].idx = (i - 1) - 1  BY <1>2, <2>1
  <2>3. s[i].idx = s[i - 1].idx + 1  BY <2>2
  <2>4. PieceId(s[i - 1]) = PieceId(s[i]) /\ s[i - 1].src \notin torn  BY <1>2, <1>3, <2>1
  <2> QED BY <2>1, <2>3, <2>4 DEF ContentInv, Joined
<1>6. \A i \in 2..Len(s) : s[i].src = s[1].src  BY <1>1, <1>3
<1> QED BY <1>4, <1>5, <1>6 DEF Contiguous

\* A video chunk completes a picture from its first byte to its last, or shows nothing.
LEMMA RxVideoWhole ==
  ASSUME TypeOK, TypeOK', NoMixing', OrderInv, ContentInv, PictureIntegrity, RxVideo
  PROVE  PictureIntegrity'
<1> DEFINE c  == Head(link)
           r1 == reassembly_feed(r, c)
<1>1. torn' = torn  BY DEF RxVideo
<1>2. \/ got' = got
      \/ got' = [i \in DOMAIN r1.buf |-> r1.buf[i].piece] /\ r1.completed_frames > r.completed_frames
  BY DEF RxVideo
<1>3. CASE got' = got
  BY <1>1, <1>3 DEF PictureIntegrity, CompletedIsWhole, WholeFrame, Contiguous, OneRun
<1>4. CASE got' = [i \in DOMAIN r1.buf |-> r1.buf[i].piece] /\ r1.completed_frames > r.completed_frames
  <2>1. c \in Chunk /\ c = link[1] /\ 1 \in DOMAIN link /\ c.codec = "h265"
    <3>1. link \in Seq(Chunk) /\ link # << >> /\ Head(link).codec = "h265"  BY DEF TypeOK, TxTypes, RxVideo
    <3> QED BY <3>1
  <2>2. r \in Reasm /\ r.completed_frames \in Nat  BY DEF TypeOK, RxTypes, Reasm
  <2>3. c.chunk_count = c.chunk_idx + 1 => c.piece.end  BY <2>1 DEF OrderInv, LinkOrder, Underway
  <2>4. r1 \in Reasm /\ (r1.active => \A i \in DOMAIN r1.buf : r1.buf[i].piece \in Around)  BY FeedAround
  <2>5. /\ r1.completed_frames # r.completed_frames => r1.active /\ c.chunk_count = c.chunk_idx + 1
        /\ r1.active =>
             \/ r1.buf = <<[at |-> 0, piece |-> c.piece]>>
             \/ r1.buf = Append(r.buf, [at |-> r.write_off, piece |-> c.piece])
    <3> HIDE DEF c
    <3> QED BY <2>1, <2>2, FeedOrder
  <2> HIDE DEF c, r1
  <2>6. r1.active /\ c.piece.end  BY <1>4, <2>2, <2>3, <2>5
  <2>7. r1.buf \in Seq(Placed) /\ r.buf \in Seq(Placed)  BY <2>2, <2>4 DEF Reasm
  <2>8. r1.buf # << >> /\ r1.buf[Len(r1.buf)].piece = c.piece
    <3>1. CASE r1.buf = <<[at |-> 0, piece |-> c.piece]>>  BY <3>1
    <3>2. CASE r1.buf = Append(r.buf, [at |-> r.write_off, piece |-> c.piece])
      <4>1. PICK h : h = [at |-> r.write_off, piece |-> c.piece]  OBVIOUS
      <4>2. r1.buf = Append(r.buf, h)  BY <3>2, <4>1
      <4>3. r1.buf # << >> /\ r1.buf[Len(r1.buf)] = h  BY <2>7, <4>2
      <4> QED BY <4>1, <4>3
    <3> QED BY <2>5, <2>6, <3>1, <3>2
  <2>9. /\ DOMAIN got' = 1..Len(got') /\ Len(got') = Len(r1.buf) /\ Len(got') \in Nat \ {0} /\ got' # << >>
        /\ got'[Len(got')] = c.piece /\ \A i \in DOMAIN got' : got'[i] \in Around
    <3>1. DOMAIN r1.buf = 1..Len(r1.buf) /\ Len(r1.buf) \in Nat \ {0}  BY <2>7, <2>8
    <3>2. got' \in Seq(Piece) /\ DOMAIN got' = 1..Len(r1.buf)
      BY <1>4, <3>1 DEF TypeOK, HistTypes
    <3>3. Len(got') = Len(r1.buf)  BY <3>1, <3>2
    <3>4. \A i \in DOMAIN got' : got'[i] = r1.buf[i].piece  BY <1>4, <3>1, <3>2
    <3> QED BY <2>4, <2>6, <2>8, <3>1, <3>2, <3>3, <3>4
  <2>10. ASSUME got'[1].src \notin torn, OneRun(got)'
         PROVE  WholeFrame(got)'
    <3>1. got' \in Seq(Piece)  BY DEF TypeOK, HistTypes
    <3>2. PICK s : s = got'  OBVIOUS
    <3>3. OneFrame(s) /\ OneRun(s)  BY <2>10, <3>2 DEF NoMixing, OneFrame, OneRun
    <3>4. Contiguous(s) /\ s[1].off = 0  BY <2>9, <2>10, <3>1, <3>2, <3>3, RunsOn
    <3> QED BY <2>6, <2>9, <3>2, <3>4 DEF WholeFrame, Contiguous
  <2> QED BY <1>1, <2>9, <2>10 DEF PictureIntegrity, CompletedIsWhole
<1> QED BY <1>2, <1>3, <1>4

\* rx "reassembles whole frames": a completed frame of one tx run is its source frame from the
\* first byte to the last, unless a flush of the ring or a restart of tx tore it.
THEOREM PictureIntegrityHolds == Spec => []PictureIntegrity
<1>1. Init => PictureIntegrity  BY DEF Init, PictureIntegrity, CompletedIsWhole
<1>2. TypeOK /\ TypeOK' /\ NoMixing' /\ OrderInv /\ ContentInv /\ PictureIntegrity /\ [Next]_vars
        => PictureIntegrity'
  <2> SUFFICES ASSUME TypeOK, TypeOK', NoMixing', OrderInv, ContentInv, PictureIntegrity, [Next]_vars
               PROVE  PictureIntegrity'
    OBVIOUS
  <2>1. CASE RxVideo  BY <2>1, RxVideoWhole
  <2>2. CASE got' = got /\ torn \subseteq torn'
    BY <2>2 DEF PictureIntegrity, CompletedIsWhole, WholeFrame, Contiguous, OneRun
  <2>3. RxVideo \/ (got' = got /\ torn \subseteq torn')
    BY DEF Next, Tx, Rx, EncodeFrame, EncodeSlice, EncoderRestart, Publish, OutqPush, TxRead, TxWrite,
           TxWriteFails, TxReturn, TxTimeout, TxReconnect, TxRestart, LinkLose, RxAux, vars, histVars
  <2> QED BY <2>1, <2>2, <2>3
<1> QED BY <1>1, <1>2, TypeCorrect, NoMixingHolds, OrderInvariant, ContentInvariant, PTL DEF Spec

-----------------------------------------------------------------------------
(* Frames that came in are completed *)

\* The video chunks rx has not got yet.
InFlight ==
    {call.run[i] : i \in DOMAIN call.run}
    \cup {link[i] : i \in {k \in DOMAIN link : link[k].codec = "h265"}}

\* Chunks 0 .. n-1 of frame f came in.
SeenId(s) == Id(s.epoch, s.no)
AllSeen(f, n) == \A i \in 0..(n - 1) : \E s \in seen : SeenId(s) = f /\ s.idx = i

\* Frame f has n chunks: it was written in full, or its last chunks are in the chunker's hands.
IsTotal(f, n) ==
    \/ \E w \in written : SeenId(w) = f /\ w.n = n
    \/ /\ f = Hand /\ call.s # -1
       /\ \/ call.kind = "frame" /\ n = call.n
          \/ call.kind = "part" /\ ~call.partial /\ ~sf.failed /\ n = sf.next_idx + call.n

\* Chunks of a frame are in flight in the order of their numbers.
FlightOrder ==
    /\ \A i, j \in DOMAIN link :
         i < j /\ link[i].codec = "h265" /\ link[j].codec = "h265" /\ IdOf(link[i]) = IdOf(link[j])
         => link[i].chunk_idx < link[j].chunk_idx
    /\ \A i, j \in DOMAIN call.run : i < j => call.run[i].chunk_idx < call.run[j].chunk_idx
    /\ \A i \in DOMAIN link, j \in DOMAIN call.run :
         link[i].codec = "h265" /\ IdOf(link[i]) = IdOf(call.run[j])
         => link[i].chunk_idx < call.run[j].chunk_idx

\* What came in is of no frame after the one heard last, and every chunk of its frame still in
\* flight comes later; a frame counts as written only once tx is done with it.
SeenInv ==
    /\ \A s \in seen :
         /\ Leq(SeenId(s), heard)
         /\ \A c \in InFlight : IdOf(c) = SeenId(s) => s.idx < c.chunk_idx
         /\ SeenId(s) = Hand => call.kind = "frame" \/ (sf.open /\ s.idx < sf.next_idx + call.n)
    /\ \A w \in written : Leq(SeenId(w), Hand) /\ SeenId(w) # Hand /\ w.n > 0
    /\ r.active => \E s \in seen : SeenId(s) = heard

\* All chunks of a frame agree on how it ends, and the last one says so; rx holds the frame under
\* the same rule, and no more than a full payload for each of its chunks.
CountInv ==
    /\ \A c \in InFlight :
         /\ c.piece.len <= ChunkPayload
         /\ c.flag = "frame_end" => c.chunk_count = c.chunk_idx + 1
         /\ IdOf(c) = Hand => call.kind = "frame" \/ (sf.open /\ Mode(c) = 0)
         /\ \A d \in InFlight : IdOf(c) = IdOf(d) => Mode(c) = Mode(d)
         /\ \A n \in Nat : IsTotal(IdOf(c), n) /\ c.chunk_idx + 1 = n => c.chunk_count = n
    /\ r.active => r.write_off <= r.next_chunk_idx * ChunkPayload
    /\ r.active /\ ~SeqReused(heard) =>
         /\ \A c \in InFlight : IdOf(c) = heard => Mode(c) = r.chunk_count
         /\ heard = Hand => call.kind = "frame" \/ (sf.open /\ r.chunk_count = 0)

\* The frame heard last, of which all came in so far, is in the buffer or was completed; and so
\* was every frame that came in to its last chunk.
KeptInv ==
    /\ \A k \in Nat \ {0} :
         AllSeen(heard, k) /\ (\A s \in seen : SeenId(s) = heard => s.idx < k)
         /\ k * ChunkPayload <= ReasmCap /\ ~SeqReused(heard)
         => heard \in completed \/ (r.active /\ r.next_chunk_idx = k)
    /\ \A f \in [epoch: Nat, no: Nat], n \in Nat \ {0} :
         IsTotal(f, n) /\ AllSeen(f, n) /\ n * ChunkPayload <= ReasmCap /\ ~SeqReused(f)
         => f \in completed

\* The inductive invariant behind NoFalseDrop.
DropInv == FlightOrder /\ SeenInv /\ CountInv /\ KeptInv

\* Nothing is in flight or came in yet.
LEMMA InitDrop == Init => DropInv
<1> SUFFICES ASSUME Init PROVE DropInv  OBVIOUS
<1>1. /\ link = << >> /\ call = NoCall /\ ~r.active /\ seen = {} /\ written = {} /\ call.kind = "none"
      /\ call.run = << >>
  BY DEF Init, reassembly_init, NoCall
<1>2. InFlight = {}  BY <1>1 DEF InFlight
<1>3. FlightOrder  BY <1>1 DEF FlightOrder
<1>4. SeenInv /\ CountInv  BY <1>1, <1>2 DEF SeenInv, CountInv
<1>5. \A f, n : ~IsTotal(f, n)  BY <1>1 DEF IsTotal
<1>6. ASSUME NEW k \in Nat \ {0} PROVE ~AllSeen(heard, k)
  <2>1. 0 \in 0..(k - 1)  OBVIOUS
  <2> QED BY <1>1, <2>1 DEF AllSeen
<1> QED BY <1>3, <1>4, <1>5, <1>6 DEF DropInv, KeptInv

\* Losing chunks keeps the order of the others.
LEMMA LossFlight ==
  ASSUME TypeOK, TypeOK', NEW d \in Nat, Loses(d), FlightOrder
  PROVE  InFlight' \subseteq InFlight /\ FlightOrder'
<1>1. call'.run \in {call.run, << >>}  BY DEF Loses
<1>2. \A i \in DOMAIN link' : link'[i].codec = "h265" =>
         i + d \in DOMAIN link /\ link'[i] = link[i + d]
  BY DEF Loses
<1>3. \A i, j \in DOMAIN link' : i < j => i + d < j + d
  <2>1. link' \in Seq(Chunk)  BY DEF TypeOK, TxTypes
  <2>2. \A i \in DOMAIN link' : i \in Nat  BY <2>1
  <2> QED BY <2>2
<1>4. InFlight' \subseteq InFlight
  <2> SUFFICES ASSUME NEW c \in InFlight' PROVE c \in InFlight  OBVIOUS
  <2>1. CASE \E i \in DOMAIN call'.run : c = call'.run[i]  BY <1>1, <2>1 DEF InFlight
  <2>2. CASE \E i \in DOMAIN link' : link'[i].codec = "h265" /\ c = link'[i]  BY <1>2, <2>2 DEF InFlight
  <2> QED BY <2>1, <2>2 DEF InFlight
<1>5. ASSUME NEW i \in DOMAIN link', NEW j \in DOMAIN link', i < j,
             link'[i].codec = "h265", link'[j].codec = "h265", IdOf(link'[i]) = IdOf(link'[j])
      PROVE  link'[i].chunk_idx < link'[j].chunk_idx
  BY <1>2, <1>3, <1>5 DEF FlightOrder
<1>6. \A i, j \in DOMAIN call'.run : i < j => call'.run[i].chunk_idx < call'.run[j].chunk_idx
  BY <1>1 DEF FlightOrder
<1>7. ASSUME NEW i \in DOMAIN link', NEW j \in DOMAIN call'.run,
             link'[i].codec = "h265", IdOf(link'[i]) = IdOf(call'.run[j])
      PROVE  link'[i].chunk_idx < call'.run[j].chunk_idx
  BY <1>1, <1>2, <1>7 DEF FlightOrder
<1>8. FlightOrder'  BY <1>5, <1>6, <1>7 DEF FlightOrder, IdOf, Id
<1> QED BY <1>4, <1>8

\* A write moves the next chunk of the call behind the ones in the socket.
LEMMA TxWriteFlight ==
  ASSUME TypeOK, TxWrite, FlightOrder
  PROVE  InFlight' \subseteq InFlight /\ FlightOrder'
<1> DEFINE run == call.run
           h == Head(run)
           l == link \o AuxChunks(outq)
<1>1. run # << >> /\ link' = l \o <<h>>  BY DEF TxWrite
<1>2. run \in Seq(Chunk) /\ call'.run = Tail(run)
  <2>1. call' = [call EXCEPT !.run = Tail(call.run), !.s = call.s + 1]  BY DEF TxWrite
  <2> QED BY <2>1 DEF TypeOK, TxTypes
<1>3. /\ h \in Chunk /\ h = run[1] /\ 1 \in DOMAIN run
      /\ \A i \in DOMAIN Tail(run) : i \in Nat \ {0} /\ i + 1 \in DOMAIN run /\ Tail(run)[i] = run[i + 1]
  BY <1>1, <1>2
<1>4. /\ l \in Seq(Chunk)
      /\ \A i \in DOMAIN l : l[i].codec = "h265" => i \in DOMAIN link /\ l[i] = link[i]
  <2>1. outq \in Nat  BY Constants DEF TypeOK, TxTypes
  <2> QED BY <2>1, AuxAppended
<1> HIDE DEF h, l
<1>5. \A i \in DOMAIN link' : \/ i \in DOMAIN l /\ link'[i] = l[i]
                              \/ i = Len(l) + 1 /\ link'[i] = h
  <2>1. link' = Append(l, h)  BY <1>1, <1>3, <1>4
  <2> QED BY <1>3, <1>4, <2>1
<1>6. ASSUME NEW i \in DOMAIN link', link'[i].codec = "h265"
      PROVE  (i \in DOMAIN link /\ link'[i] = link[i] /\ i < Len(l) + 1) \/ (i = Len(l) + 1 /\ link'[i] = h)
  <2>1. Len(l) \in Nat /\ DOMAIN l = 1..Len(l)  BY <1>4
  <2> QED BY <1>4, <1>5, <1>6, <2>1
<1>7. Len(l) \in Nat /\ \A i \in DOMAIN link : i \in Nat  BY <1>4 DEF TypeOK, TxTypes
<1>8. InFlight' \subseteq InFlight
  <2> SUFFICES ASSUME NEW c \in InFlight' PROVE c \in InFlight  OBVIOUS
  <2>1. CASE \E i \in DOMAIN call'.run : c = call'.run[i]
    <3>1. \E i \in DOMAIN run : c = run[i]  BY <1>2, <1>3, <2>1
    <3> QED BY <3>1 DEF InFlight
  <2>2. CASE \E i \in DOMAIN link' : link'[i].codec = "h265" /\ c = link'[i]
    <3>1. c = h \/ \E i \in DOMAIN link : link[i].codec = "h265" /\ c = link[i]  BY <1>6, <2>2
    <3> QED BY <1>3, <3>1 DEF InFlight
  <2> QED BY <2>1, <2>2 DEF InFlight
<1>9. ASSUME NEW i \in DOMAIN link', NEW j \in DOMAIN link', i < j,
             link'[i].codec = "h265", link'[j].codec = "h265", IdOf(link'[i]) = IdOf(link'[j])
      PROVE  link'[i].chunk_idx < link'[j].chunk_idx
  <2>1. i \in DOMAIN link /\ link'[i] = link[i]  BY <1>6, <1>7, <1>9
  <2> QED BY <1>3, <1>6, <1>9, <2>1 DEF FlightOrder
<1>10. ASSUME NEW i \in DOMAIN call'.run, NEW j \in DOMAIN call'.run, i < j
       PROVE  call'.run[i].chunk_idx < call'.run[j].chunk_idx
  <2>1. i + 1 < j + 1  BY <1>2, <1>3, <1>10
  <2> QED BY <1>2, <1>3, <1>10, <2>1 DEF FlightOrder
<1>11. ASSUME NEW i \in DOMAIN link', NEW j \in DOMAIN call'.run,
             link'[i].codec = "h265", IdOf(link'[i]) = IdOf(call'.run[j])
       PROVE  link'[i].chunk_idx < call'.run[j].chunk_idx
  <2>1. call'.run[j] = run[j + 1] /\ j + 1 \in DOMAIN run /\ 1 < j + 1  BY <1>2, <1>3, <1>11
  <2>2. CASE link'[i] = h  BY <1>3, <2>1, <2>2 DEF FlightOrder
  <2>3. CASE i \in DOMAIN link /\ link'[i] = link[i]  BY <1>11, <2>1, <2>3 DEF FlightOrder
  <2> QED BY <1>6, <1>11, <2>2, <2>3
<1>12. FlightOrder'  BY <1>9, <1>10, <1>11 DEF FlightOrder, IdOf, Id
<1> QED BY <1>8, <1>12

\* A step that neither reads an entry nor ends a frame nor brings one in: chunks move on or are lost.
LEMMA MoveDrop ==
  ASSUME DropInv, FlightOrder', InFlight' \subseteq InFlight,
         UNCHANGED <<epoch, frame_no, sf, r, heard, seen, completed, written>>,
         call'.kind = call.kind, call'.partial = call.partial, call'.n = call.n,
         call'.s = -1 <=> call.s = -1
  PROVE  DropInv'
<1>1. Hand' = Hand  BY DEF Hand, Id
<1>2. \A f, n : IsTotal(f, n)' <=> IsTotal(f, n)  BY <1>1 DEF IsTotal, SeenId, Id
<1>3. \A f, n : AllSeen(f, n)' <=> AllSeen(f, n)  BY DEF AllSeen, SeenId, Id
<1>4. \A f : SeqReused(f)' <=> SeqReused(f)  BY DEF SeqReused
<1>5. SeenInv'  BY <1>1 DEF DropInv, SeenInv
<1>6. CountInv'
  <2>1. ASSUME NEW c \in InFlight'
        PROVE  /\ c.piece.len <= ChunkPayload
               /\ c.flag = "frame_end" => c.chunk_count = c.chunk_idx + 1
               /\ IdOf(c) = Hand' => call'.kind = "frame" \/ (sf'.open /\ Mode(c) = 0)
               /\ \A d \in InFlight' : IdOf(c) = IdOf(d) => Mode(c) = Mode(d)
    BY <1>1 DEF DropInv, CountInv
  <2>2. ASSUME NEW c \in InFlight', NEW n \in Nat, IsTotal(IdOf(c), n)', c.chunk_idx + 1 = n
        PROVE  c.chunk_count = n
    <3>1. IsTotal(IdOf(c), n)  BY <1>2, <2>2
    <3> QED BY <2>2, <3>1 DEF DropInv, CountInv
  <2>3. r'.active => r'.write_off <= r'.next_chunk_idx * ChunkPayload  BY DEF DropInv, CountInv
  <2>4. ASSUME r'.active, ~SeqReused(heard)'
        PROVE  /\ \A c \in InFlight' : IdOf(c) = heard' => Mode(c) = r'.chunk_count
               /\ heard' = Hand' => call'.kind = "frame" \/ (sf'.open /\ r'.chunk_count = 0)
    <3>1. ~SeqReused(heard)  BY <2>4 DEF SeqReused
    <3> QED BY <1>1, <2>4, <3>1 DEF DropInv, CountInv
  <2> QED BY <2>1, <2>2, <2>3, <2>4 DEF CountInv
<1>7. KeptInv'
  <2>1. ASSUME NEW k \in Nat \ {0}, AllSeen(heard, k)', \A s \in seen : SeenId(s) = heard => s.idx < k,
               k * ChunkPayload <= ReasmCap, ~SeqReused(heard)'
        PROVE  heard' \in completed' \/ (r'.active /\ r'.next_chunk_idx = k)
    <3>1. AllSeen(heard, k) /\ ~SeqReused(heard)  BY <2>1 DEF AllSeen, SeqReused, SeenId, Id
    <3> QED BY <2>1, <3>1 DEF DropInv, KeptInv
  <2>2. ASSUME NEW f \in [epoch: Nat, no: Nat], NEW n \in Nat \ {0}, IsTotal(f, n)', AllSeen(f, n)',
               n * ChunkPayload <= ReasmCap, ~SeqReused(f)'
        PROVE  f \in completed'
    BY <1>2, <1>3, <1>4, <2>2 DEF DropInv, KeptInv
  <2> QED BY <2>1, <2>2 DEF KeptInv
<1> QED BY <1>5, <1>6, <1>7 DEF DropInv

\* The steps of the encoder, the outq and the socket, a write, a reconnect: no chunk of theirs is
\* new, and tx keeps the frame it has in hand.
LEMMA MovesFlight ==
  ASSUME TypeOK, TypeOK', ContentInv, FlightOrder,
         \/ EncodeFrame \/ EncodeSlice \/ EncoderRestart \/ OutqPush \/ TxWrite \/ TxWriteFails
         \/ TxTimeout \/ TxReconnect \/ LinkLose \/ RxAux \/ UNCHANGED vars
  PROVE  /\ UNCHANGED <<epoch, frame_no, sf, r, heard, seen, completed, written>>
         /\ InFlight' \subseteq InFlight /\ FlightOrder'
         /\ call'.kind = call.kind /\ call'.partial = call.partial /\ call'.n = call.n
         /\ call'.s = -1 <=> call.s = -1
<1>1. UNCHANGED <<epoch, frame_no, sf, r, heard, seen, completed, written>>
  BY DEF EncodeFrame, EncodeSlice, Publish, EncoderRestart, OutqPush, TxWrite, TxWriteFails, TxTimeout,
         TxReconnect, LinkLose, RxAux, vars, txVars, rxVars, histVars
<1>2. InFlight' \subseteq InFlight /\ FlightOrder'
  <2>2. CASE TxWrite  BY <2>2, TxWriteFlight
  <2>3. CASE EncodeFrame \/ EncodeSlice
    <3>1. link' = link /\ call' = call  BY <2>3 DEF EncodeFrame, EncodeSlice, Publish, txVars
    <3> QED BY <3>1 DEF InFlight, FlightOrder
  <2>4. CASE ~(TxWrite \/ EncodeFrame \/ EncodeSlice)
    <3>1. PICK d \in Nat : Loses(d)  BY <2>4, QuietLoses
    <3> QED BY <3>1, LossFlight
  <2> QED BY <2>2, <2>3, <2>4
<1>3. /\ call'.kind = call.kind /\ call'.partial = call.partial /\ call'.n = call.n
      /\ (call'.s = -1 <=> call.s = -1)
  <2>1. /\ call \in [kind: {"none", "part", "frame"}, partial: BOOLEAN, run: Seq(Chunk),
                 n: Nat, s: Nat \cup {-1}]
        /\ call.run # << >> => call.s >= 0
    BY DEF TypeOK, TxTypes, ContentInv, OpenCount
  <2>2. CASE TxWrite
    <3>1. call' = [call EXCEPT !.run = Tail(call.run), !.s = call.s + 1] /\ call.run # << >>
      BY <2>2 DEF TxWrite
    <3>2. /\ call'.kind = call.kind /\ call'.partial = call.partial /\ call'.n = call.n
          /\ call'.s = call.s + 1
      BY <2>1, <3>1
    <3>3. call.s \in Nat  BY <2>1, <3>1
    <3> QED BY <3>2, <3>3
  <2>3. CASE TxWriteFails
    <3>1. call' = [call EXCEPT !.run = << >>]  BY <2>3 DEF TxWriteFails, StopRun
    <3> QED BY <2>1, <3>1
  <2>4. CASE call' = call  BY <2>4
  <2>5. TxWrite \/ TxWriteFails \/ call' = call
    BY DEF EncodeFrame, EncodeSlice, Publish, EncoderRestart, OutqPush, TxTimeout, TxReconnect,
           LinkLose, RxAux, vars, txVars
  <2> QED BY <2>2, <2>3, <2>4, <2>5
<1> QED BY <1>1, <1>2, <1>3

\* Such a step keeps the invariant.
LEMMA MovesDrop ==
  ASSUME TypeOK, TypeOK', ContentInv, DropInv,
         \/ EncodeFrame \/ EncodeSlice \/ EncoderRestart \/ OutqPush \/ TxWrite \/ TxWriteFails
         \/ TxTimeout \/ TxReconnect \/ LinkLose \/ RxAux \/ UNCHANGED vars
  PROVE  DropInv'
<1>1. FlightOrder  BY DEF DropInv
<1> QED BY <1>1, MovesFlight, MoveDrop

\* What is in flight is a video chunk of a frame up to the one in hand.
LEMMA FlightFacts ==
  ASSUME TypeOK, MixInv, NEW c \in InFlight
  PROVE  /\ c \in Chunk /\ Stamped(c) /\ IdOf(c) \in [epoch: Nat, no: Nat] /\ Leq(IdOf(c), Hand)
         /\ c.piece \in Around /\ c.codec = "h265" /\ Leq(heard, IdOf(c))
<1>1. epoch \in Nat /\ frame_no \in Nat  BY DEF TypeOK, TxTypes
<1>2. \A d \in Chunk : IdOf(d) \in [epoch: Nat, no: Nat]  BY DEF Chunk, Piece, IdOf, Id
<1>3. Leq(Hand, Hand) /\ Leq(heard, Hand)  BY <1>1 DEF Hand, Id, Leq, MixInv, LinkInv
<1>4. CASE \E i \in DOMAIN call.run : c = call.run[i]
  <2>1. PICK i \in DOMAIN call.run : c = call.run[i]  BY <1>4
  <2>2. c \in Chunk  BY <2>1, OrderTypes
  <2>3. Stamped(c) /\ IdOf(c) = Hand /\ c.codec = "h265"  BY <2>1 DEF MixInv, CallInv, Hand
  <2>4. c.piece \in Around  BY <2>1 DEF Around
  <2> QED BY <1>2, <1>3, <2>2, <2>3, <2>4
<1>5. CASE \E i \in DOMAIN link : link[i].codec = "h265" /\ c = link[i]
  <2>1. PICK i \in DOMAIN link : link[i].codec = "h265" /\ c = link[i]  BY <1>5
  <2>2. c \in Chunk  BY <2>1, OrderTypes
  <2>3. Stamped(c) /\ Leq(IdOf(c), Hand) /\ Leq(heard, IdOf(c))  BY <2>1 DEF MixInv, LinkInv, Hand
  <2>4. c.piece \in Around  BY <2>1 DEF Around
  <2> QED BY <1>2, <2>1, <2>2, <2>3, <2>4
<1> QED BY <1>4, <1>5 DEF InFlight

\* A new number in hand is ahead of everything in flight, heard, seen or written.
LEMMA AheadOfAll ==
  ASSUME TypeOK, MixInv, SeenInv, NEW e \in Nat, NEW no \in Nat,
         e > epoch \/ (e = epoch /\ no > frame_no)
  PROVE  /\ \A c \in InFlight : IdOf(c) # Id(e, no)
         /\ \A s \in seen : SeenId(s) # Id(e, no)
         /\ \A w \in written : SeenId(w) # Id(e, no) /\ Leq(SeenId(w), Id(e, no))
         /\ heard # Id(e, no)
<1>1. epoch \in Nat /\ frame_no \in Nat /\ heard \in [epoch: Nat, no: Nat]
  BY DEF TypeOK, TxTypes, HistTypes
<1>2. Hand \in [epoch: Nat, no: Nat] /\ Hand.epoch = epoch /\ Hand.no = frame_no  BY <1>1 DEF Hand, Id
<1>3. Id(e, no) \in [epoch: Nat, no: Nat] /\ Id(e, no).epoch = e /\ Id(e, no).no = no  BY DEF Id
<1>4. ASSUME NEW f \in [epoch: Nat, no: Nat], Leq(f, Hand)
      PROVE  f # Id(e, no) /\ Leq(f, Id(e, no))
  <2>1. f.epoch < epoch \/ (f.epoch = epoch /\ f.no <= frame_no)  BY <1>2, <1>4 DEF Leq
  <2>2. f.epoch < e \/ (f.epoch = e /\ f.no < no)  BY <1>1, <2>1
  <2> QED BY <1>3, <2>2 DEF Leq
<1>5. Leq(heard, Hand)  BY DEF MixInv, LinkInv, Hand
<1>6. ASSUME NEW s \in seen PROVE SeenId(s) \in [epoch: Nat, no: Nat] /\ Leq(SeenId(s), Hand)
  <2>1. SeenId(s) \in [epoch: Nat, no: Nat]  BY DEF TypeOK, HistTypes, SeenId, Id
  <2>2. Leq(SeenId(s), heard)  BY DEF SeenInv
  <2> QED BY <1>1, <1>2, <1>5, <2>1, <2>2, LeqTrans
<1>7. ASSUME NEW w \in written PROVE SeenId(w) \in [epoch: Nat, no: Nat] /\ Leq(SeenId(w), Hand)
  BY DEF TypeOK, HistTypes, SeenId, Id, SeenInv
<1>8. \A c \in InFlight : IdOf(c) # Id(e, no)  BY <1>4, FlightFacts
<1>9. heard # Id(e, no)  BY <1>1, <1>4, <1>5
<1> QED BY <1>4, <1>6, <1>7, <1>8, <1>9

\* The frame in hand is over, written in full or not, or tx restarts.
LEMMA EndDrop ==
  ASSUME TypeOK, TypeOK', MixInv, DropInv, FlightOrder', InFlight' \subseteq InFlight,
         UNCHANGED <<r, heard, seen, completed>>, call' = NoCall,
         epoch' > epoch \/ (epoch' = epoch /\ frame_no' > frame_no),
         \A w \in written' : w \in written \/ (SeenId(w) = Hand /\ w.n > 0 /\ IsTotal(Hand, w.n))
  PROVE  DropInv'
<1>1. epoch' \in Nat /\ frame_no' \in Nat /\ Hand' = Id(epoch', frame_no')
  BY DEF TypeOK, TxTypes, Hand, Id
<1>2. /\ \A c \in InFlight : IdOf(c) # Hand'
      /\ \A s \in seen : SeenId(s) # Hand'
      /\ \A w \in written : SeenId(w) # Hand' /\ Leq(SeenId(w), Hand')
      /\ heard # Hand'
  BY <1>1, AheadOfAll DEF DropInv
<1>3. Hand # Hand' /\ Leq(Hand, Hand')
  <2>1. epoch \in Nat /\ frame_no \in Nat /\ Hand.epoch = epoch /\ Hand.no = frame_no
        /\ Hand'.epoch = epoch' /\ Hand'.no = frame_no'
    BY DEF TypeOK, TxTypes, Hand, Id
  <2>2. epoch # epoch' \/ frame_no # frame_no'  BY <1>1, <2>1
  <2>3. Leq(Hand, Hand')  BY <1>1, <2>1 DEF Leq
  <2> QED BY <2>1, <2>2, <2>3
<1>4. ASSUME NEW f, NEW n, IsTotal(f, n)' PROVE IsTotal(f, n)
  <2>1. PICK w \in written' : SeenId(w) = f /\ w.n = n  BY <1>4 DEF IsTotal, NoCall, SeenId, Id
  <2>2. CASE w \in written  BY <2>1, <2>2 DEF IsTotal
  <2>3. CASE SeenId(w) = Hand /\ IsTotal(Hand, w.n)  BY <2>1, <2>3
  <2> QED BY <2>2, <2>3
<1>5. SeenInv'
  <2>1. ASSUME NEW s \in seen'
        PROVE  /\ Leq(SeenId(s), heard') /\ SeenId(s) # Hand'
               /\ \A c \in InFlight' : IdOf(c) = SeenId(s) => s.idx < c.chunk_idx
    BY <1>2 DEF DropInv, SeenInv
  <2>2. ASSUME NEW w \in written' PROVE Leq(SeenId(w), Hand') /\ SeenId(w) # Hand' /\ w.n > 0
    BY <1>2, <1>3 DEF DropInv, SeenInv
  <2>3. r'.active => \E s \in seen' : SeenId(s) = heard'  BY DEF DropInv, SeenInv
  <2> QED BY <2>1, <2>2, <2>3 DEF SeenInv, SeenId, Id
<1>6. CountInv'
  <2>1. ASSUME NEW c \in InFlight'
        PROVE  /\ c.piece.len <= ChunkPayload
               /\ c.flag = "frame_end" => c.chunk_count = c.chunk_idx + 1
               /\ IdOf(c) # Hand'
               /\ \A d \in InFlight' : IdOf(c) = IdOf(d) => Mode(c) = Mode(d)
    BY <1>2 DEF DropInv, CountInv
  <2>2. ASSUME NEW c \in InFlight', NEW n \in Nat, IsTotal(IdOf(c), n)', c.chunk_idx + 1 = n
        PROVE  c.chunk_count = n
    <3>1. IsTotal(IdOf(c), n)  BY <1>4, <2>2
    <3> QED BY <2>2, <3>1 DEF DropInv, CountInv
  <2>3. r'.active => r'.write_off <= r'.next_chunk_idx * ChunkPayload  BY DEF DropInv, CountInv
  <2>4. ASSUME r'.active, ~SeqReused(heard)'
        PROVE  \A c \in InFlight' : IdOf(c) = heard' => Mode(c) = r'.chunk_count
    <3>1. ~SeqReused(heard)  BY <2>4 DEF SeqReused
    <3> QED BY <2>4, <3>1 DEF DropInv, CountInv
  <2>5. heard' # Hand'  BY <1>2
  <2> QED BY <2>1, <2>2, <2>3, <2>4, <2>5 DEF CountInv
<1>7. KeptInv'
  <2>1. ASSUME NEW k \in Nat \ {0}, AllSeen(heard, k)', \A s \in seen : SeenId(s) = heard => s.idx < k,
               k * ChunkPayload <= ReasmCap, ~SeqReused(heard)'
        PROVE  heard' \in completed' \/ (r'.active /\ r'.next_chunk_idx = k)
    <3>1. AllSeen(heard, k) /\ ~SeqReused(heard)  BY <2>1 DEF AllSeen, SeqReused, SeenId, Id
    <3> QED BY <2>1, <3>1 DEF DropInv, KeptInv
  <2>2. ASSUME NEW f \in [epoch: Nat, no: Nat], NEW n \in Nat \ {0}, IsTotal(f, n)', AllSeen(f, n)',
               n * ChunkPayload <= ReasmCap, ~SeqReused(f)'
        PROVE  f \in completed'
    <3>1. IsTotal(f, n)  BY <1>4, <2>2
    <3>2. AllSeen(f, n) /\ ~SeqReused(f)  BY <2>2 DEF AllSeen, SeqReused, SeenId, Id
    <3> QED BY <2>2, <3>1, <3>2 DEF DropInv, KeptInv
  <2> QED BY <2>1, <2>2 DEF KeptInv
<1> QED BY <1>5, <1>6, <1>7 DEF DropInv

\* tx restarts: its numbers start over in a new run.
LEMMA TxRestartDrop ==
  ASSUME TypeOK, TypeOK', MixInv, DropInv, TxRestart
  PROVE  DropInv'
<1>1. UNCHANGED <<r, heard, seen, completed, written>> /\ call' = NoCall /\ epoch' = epoch + 1
  BY DEF TxRestart, rxVars, histVars
<1>2. InFlight' \subseteq InFlight /\ FlightOrder'
  <2>1. PICK d \in Nat : Loses(d)  BY QuietLoses
  <2> QED BY <2>1, LossFlight DEF DropInv
<1>3. epoch' > epoch  BY <1>1 DEF TypeOK, TxTypes
<1> QED BY <1>1, <1>2, <1>3, EndDrop

\* The chunker returns: a slice is counted into the open frame, or the frame is over, and if all
\* its chunks went out it was written with as many.
LEMMA TxReturnDrop ==
  ASSUME TypeOK, TypeOK', MixInv, SliceInv, ContentInv, DropInv, TxReturn
  PROVE  DropInv'
<1>1. /\ UNCHANGED <<epoch, r, heard, seen, completed>> /\ call' = NoCall /\ call.kind # "none"
  BY DEF TxReturn, rxVars, histVars
<1>2. InFlight' \subseteq InFlight /\ FlightOrder'
  <2>1. PICK d \in Nat : Loses(d)  BY QuietLoses
  <2> QED BY <2>1, LossFlight DEF DropInv
<1>3. /\ sf \in [open: BOOLEAN, failed: BOOLEAN, pts: Nat, next_idx: Nat, sent: Nat]
      /\ call.n \in Nat /\ call.s \in Nat \cup {-1} /\ epoch \in Nat /\ frame_no \in Nat
      /\ call.kind \in {"none", "part", "frame"} /\ call.partial \in BOOLEAN
  BY DEF TypeOK, TxTypes
<1> DEFINE f == [sf EXCEPT !.failed = sf.failed \/ call.s < 0 \/ call.s # call.n,
                           !.sent = IF call.s > 0 THEN sf.sent + call.s ELSE sf.sent,
                           !.next_idx = sf.next_idx + call.n]
<1>4. /\ f.open = sf.open /\ f.next_idx = sf.next_idx + call.n
      /\ f.failed = (sf.failed \/ call.s < 0 \/ call.s # call.n)
  BY <1>3
<1>5. CASE call.kind = "part" /\ call.partial
  <2>1. sf' = f /\ frame_no' = frame_no /\ written' = written  BY <1>5 DEF TxReturn
  <2> HIDE DEF f
  <2>2. sf'.open /\ sf.open /\ sf'.next_idx + call'.n = sf.next_idx + call.n
    BY <1>1, <1>3, <1>4, <1>5, <2>1 DEF SliceInv, NoCall
  <2>3. Hand' = Hand  BY <1>1, <2>1 DEF Hand, Id
  <2>4. call'.kind = "none"  BY <1>1 DEF NoCall
  <2>5. ASSUME NEW g, NEW n, IsTotal(g, n)' PROVE IsTotal(g, n)
    BY <2>1, <2>4, <2>5 DEF IsTotal, SeenId, Id
  <2>6. SeenInv'
    <3>1. ASSUME NEW s \in seen'
          PROVE  /\ Leq(SeenId(s), heard')
                 /\ \A c \in InFlight' : IdOf(c) = SeenId(s) => s.idx < c.chunk_idx
                 /\ SeenId(s) = Hand' => s.idx < sf'.next_idx + call'.n
      BY <1>1, <1>2, <1>5, <2>2, <2>3 DEF DropInv, SeenInv
    <3>2. \A w \in written' : Leq(SeenId(w), Hand') /\ SeenId(w) # Hand' /\ w.n > 0
      BY <2>1, <2>3 DEF DropInv, SeenInv
    <3>3. r'.active => \E s \in seen' : SeenId(s) = heard'  BY <1>1 DEF DropInv, SeenInv
    <3> QED BY <2>2, <3>1, <3>2, <3>3 DEF SeenInv, SeenId, Id
  <2>7. CountInv'
    <3>1. ASSUME NEW c \in InFlight'
          PROVE  /\ c.piece.len <= ChunkPayload
                 /\ c.flag = "frame_end" => c.chunk_count = c.chunk_idx + 1
                 /\ IdOf(c) = Hand' => sf'.open /\ Mode(c) = 0
                 /\ \A d \in InFlight' : IdOf(c) = IdOf(d) => Mode(c) = Mode(d)
      BY <1>2, <1>5, <2>2, <2>3 DEF DropInv, CountInv
    <3>2. ASSUME NEW c \in InFlight', NEW n \in Nat, IsTotal(IdOf(c), n)', c.chunk_idx + 1 = n
          PROVE  c.chunk_count = n
      <4>1. IsTotal(IdOf(c), n)  BY <2>5, <3>2
      <4> QED BY <1>2, <3>2, <4>1 DEF DropInv, CountInv
    <3>3. r'.active => r'.write_off <= r'.next_chunk_idx * ChunkPayload  BY <1>1 DEF DropInv, CountInv
    <3>4. ASSUME r'.active, ~SeqReused(heard)'
          PROVE  /\ \A c \in InFlight' : IdOf(c) = heard' => Mode(c) = r'.chunk_count
                 /\ heard' = Hand' => sf'.open /\ r'.chunk_count = 0
      <4>1. ~SeqReused(heard)  BY <1>1, <3>4 DEF SeqReused
      <4> QED BY <1>1, <1>2, <1>5, <2>2, <2>3, <3>4, <4>1 DEF DropInv, CountInv
    <3> QED BY <3>1, <3>2, <3>3, <3>4 DEF CountInv
  <2>8. KeptInv'
    <3>1. ASSUME NEW k \in Nat \ {0}, AllSeen(heard, k)', \A s \in seen : SeenId(s) = heard => s.idx < k,
                 k * ChunkPayload <= ReasmCap, ~SeqReused(heard)'
          PROVE  heard' \in completed' \/ (r'.active /\ r'.next_chunk_idx = k)
      <4>1. AllSeen(heard, k) /\ ~SeqReused(heard)  BY <1>1, <3>1 DEF AllSeen, SeqReused, SeenId, Id
      <4> QED BY <1>1, <3>1, <4>1 DEF DropInv, KeptInv
    <3>2. ASSUME NEW g \in [epoch: Nat, no: Nat], NEW n \in Nat \ {0}, IsTotal(g, n)', AllSeen(g, n)',
                 n * ChunkPayload <= ReasmCap, ~SeqReused(g)'
          PROVE  g \in completed'
      <4>1. IsTotal(g, n)  BY <2>5, <3>2
      <4>2. AllSeen(g, n) /\ ~SeqReused(g)  BY <1>1, <3>2 DEF AllSeen, SeqReused, SeenId, Id
      <4> QED BY <1>1, <3>2, <4>1, <4>2 DEF DropInv, KeptInv
    <3> QED BY <1>1, <3>1, <3>2 DEF KeptInv
  <2> QED BY <1>2, <2>6, <2>7, <2>8 DEF DropInv
<1>6. CASE (call.kind = "part" /\ ~call.partial) \/ call.kind = "frame"
  <2>1. frame_no' = frame_no + 1 /\ frame_no' > frame_no  BY <1>3, <1>6 DEF TxReturn, EndFrame
  <2>2. ASSUME NEW w \in written', w \notin written
        PROVE  SeenId(w) = Hand /\ w.n > 0 /\ IsTotal(Hand, w.n)
    <3>1. CASE call.kind = "frame"
      <4>1. EndFrame(call.s, call.n, TRUE)  BY <3>1 DEF TxReturn
      <4>2. w = [epoch |-> epoch, no |-> frame_no, n |-> call.s] /\ call.s = call.n
        BY <2>2, <4>1 DEF EndFrame
      <4>3. SeenId(w) = Hand /\ w.n = call.n  BY <4>2 DEF SeenId, Hand, Id
      <4>4. call.s # -1  BY <1>3, <4>2
      <4>5. call.n > 0  BY <1>1, <3>1, <4>4 DEF ContentInv, OpenCount, SliceInv
      <4> QED BY <3>1, <4>3, <4>4, <4>5 DEF IsTotal
    <3>2. CASE call.kind = "part" /\ ~call.partial
      <4>1. EndFrame(f.sent, f.next_idx, ~f.failed)  BY <3>2 DEF TxReturn
      <4> HIDE DEF f
      <4>2. w = [epoch |-> epoch, no |-> frame_no, n |-> f.sent] /\ f.sent = f.next_idx /\ ~f.failed
        BY <2>2, <4>1 DEF EndFrame
      <4>3. SeenId(w) = Hand /\ w.n = sf.next_idx + call.n  BY <1>4, <4>2 DEF SeenId, Hand, Id
      <4>4. ~sf.failed /\ call.s # -1
        <5>1. call.s = -1 => call.s < 0  OBVIOUS
        <5> QED BY <1>4, <4>2, <5>1
      <4>5. call.n > 0  BY <1>1, <4>4 DEF ContentInv, OpenCount
      <4>6. w.n > 0  BY <1>3, <4>3, <4>5
      <4> QED BY <3>2, <4>3, <4>4, <4>6 DEF IsTotal
    <3> QED BY <1>6, <3>1, <3>2
  <2> QED BY <1>1, <1>2, <2>1, <2>2, EndDrop
<1> QED BY <1>1, <1>3, <1>5, <1>6

\* The chunks of an entry come behind the ones of the open frame, or start a frame of which nothing
\* is known yet.
LEMMA TxReadDrop ==
  ASSUME TypeOK, TypeOK', MixInv, MixInv', ContentInv, DropInv, TxRead
  PROVE  DropInv'
<1> DEFINE e == Head(ring)
           New(c) == \E i \in DOMAIN call'.run : c = call'.run[i]
           first == IF call'.kind = "part" THEN sf'.next_idx ELSE 0
           GoesOn == sf.open /\ sf' = sf /\ call'.kind = "part"
<1>1. /\ UNCHANGED <<epoch, link, r, heard, seen, completed, written>>
      /\ call.kind = "none" /\ call = NoCall
  BY DEF TxRead, rxVars, histVars, ContentInv, OpenCount
<1>2. NoCall.kind = "none" /\ NoCall.run = << >> /\ NoCall.n = 0 /\ NoCall.s = 0  BY DEF NoCall
<1>3. Goes(e) /\ Makes(e) /\ call'.partial = e.partial  BY TxReadMakes
<1>4. e \in Entry  BY SeqFacts DEF TxRead, TypeOK, EncTypes
<1> HIDE DEF e
<1>5. ChunkCount(e.len) \in Nat \ {0}
  <2>1. e.len \in Nat  BY <1>4 DEF Entry
  <2> QED BY <2>1, ChunkCountFacts
<1>6. /\ epoch \in Nat /\ frame_no \in Nat /\ frame_no' \in Nat /\ sf.next_idx \in Nat
      /\ sf'.next_idx \in Nat /\ call'.n \in Nat /\ first \in Nat
      /\ call'.kind \in {"part", "frame"} /\ call'.run \in Seq(Chunk)
  <2>1. call'.kind \in {"part", "frame"}  BY <1>3 DEF Goes
  <2>2. sf'.next_idx \in Nat  BY DEF TypeOK, TxTypes
  <2>3. first \in Nat  BY <2>2
  <2> QED BY <2>1, <2>2, <2>3 DEF TypeOK, TxTypes
<1>7. GoesOn => first = sf.next_idx  OBVIOUS
<1>8. call'.kind = "part" => first = sf'.next_idx /\ sf'.open  BY <1>3 DEF Goes
<1>9. call'.kind = "frame" => first = 0 /\ ~e.partial  BY <1>3 DEF Goes
<1>10. Hand' = Id(epoch, frame_no')  BY <1>1 DEF Hand, Id
<1>11. \/ Hand' = Hand /\ (GoesOn \/ ~sf.open)
       \/ frame_no' > frame_no
  <2>1. CASE frame_no' = frame_no + 1  BY <1>6, <2>1
  <2>2. CASE frame_no' = frame_no /\ (GoesOn \/ ~sf.open)  BY <1>10, <2>2 DEF Hand
  <2> QED BY <1>3, <2>1, <2>2 DEF Goes
<1>12. frame_no' > frame_no =>
         /\ \A c \in InFlight : IdOf(c) # Hand'
         /\ \A s \in seen : SeenId(s) # Hand'
         /\ \A w \in written : SeenId(w) # Hand' /\ Leq(SeenId(w), Hand')
         /\ heard # Hand'
  BY <1>6, <1>10, AheadOfAll DEF DropInv
<1> HIDE DEF GoesOn, first
<1>13. ASSUME NEW c \in InFlight, IdOf(c) = Hand'
       PROVE  GoesOn /\ c.chunk_idx < first /\ c.chunk_idx \in Nat /\ Mode(c) = 0
  <2>1. Hand' = Hand /\ (GoesOn \/ ~sf.open)  BY <1>11, <1>12, <1>13
  <2>2. sf.open /\ Mode(c) = 0  BY <1>1, <1>2, <1>13, <2>1 DEF DropInv, CountInv
  <2>3. c \in Chunk /\ Stamped(c) /\ c.piece \in Around  BY FlightFacts
  <2>4. c.chunk_idx = c.piece.idx /\ c.chunk_idx \in Nat  BY <2>3 DEF Chunk, Stamped
  <2>5. PieceId(c.piece) = Hand  BY <1>13, <2>1 DEF IdOf, PieceId
  <2>6. c.piece.idx < sf.next_idx + call.n  BY <1>1, <1>2, <2>3, <2>5 DEF ContentInv, InHandInv
  <2>7. c.chunk_idx < sf.next_idx  BY <1>1, <1>2, <1>6, <2>4, <2>6
  <2> QED BY <1>7, <2>1, <2>2, <2>4, <2>7
<1>14. ASSUME NEW s \in seen, SeenId(s) = Hand'
       PROVE  GoesOn /\ s.idx < first /\ s.idx \in Nat
  <2>1. Hand' = Hand /\ (GoesOn \/ ~sf.open)  BY <1>11, <1>12, <1>14
  <2>2. sf.open /\ s.idx < sf.next_idx + call.n  BY <1>1, <1>2, <1>14, <2>1 DEF DropInv, SeenInv
  <2>3. s.idx \in Nat  BY DEF TypeOK, HistTypes
  <2>4. s.idx < sf.next_idx  BY <1>1, <1>2, <1>6, <2>2, <2>3
  <2> QED BY <1>7, <2>1, <2>2, <2>3, <2>4
<1>15. ASSUME NEW w \in written PROVE SeenId(w) # Hand' /\ Leq(SeenId(w), Hand') /\ w.n > 0
  BY <1>11, <1>12 DEF DropInv, SeenInv
<1>16. ASSUME r.active, ~SeqReused(heard), heard = Hand' PROVE GoesOn /\ r.chunk_count = 0
  <2>1. Hand' = Hand /\ (GoesOn \/ ~sf.open)  BY <1>11, <1>12, <1>16
  <2> QED BY <1>1, <1>2, <1>16, <2>1 DEF DropInv, CountInv
<1>17. ASSUME NEW i \in DOMAIN call'.run
       PROVE  /\ i \in 1..call'.n /\ call'.run[i].chunk_idx = first + i - 1
              /\ call'.run[i].piece.len <= ChunkPayload
              /\ Mode(call'.run[i]) = IF call'.kind = "part" THEN 0 ELSE call'.n
              /\ call'.run[i].flag = "frame_end" => call'.run[i].chunk_count = call'.run[i].chunk_idx + 1
              /\ ~e.partial /\ i = call'.n => call'.run[i].chunk_count = call'.run[i].chunk_idx + 1
              /\ IdOf(call'.run[i]) = Hand'
  <2>1. call'.run # << >>  BY <1>17
  <2>2. Cut(call'.run, e, first) /\ call'.n = ChunkCount(e.len)
        /\ Ends(call'.run, IF call'.kind = "part" THEN 0 ELSE call'.n, ~e.partial)
    BY <1>3, <2>1 DEF Makes, first
  <2>3. Stamped(call'.run[i]) /\ IdOf(call'.run[i]) = Id(epoch', frame_no')
    BY DEF MixInv, CallInv, Id, IdOf, Stamped
  <2>4. call'.n = Len(call'.run) /\ i \in 1..call'.n /\ call'.run[i].piece.idx = first + i - 1
    BY <2>2 DEF Cut
  <2>5. call'.run[i].chunk_idx = first + i - 1  BY <2>3, <2>4 DEF Stamped
  <2> QED BY <1>1, <1>10, <2>2, <2>3, <2>4, <2>5 DEF Ends
<1>18. InFlight' = InFlight \cup {call'.run[i] : i \in DOMAIN call'.run}
       /\ InFlight = {link[i] : i \in {k \in DOMAIN link : link[k].codec = "h265"}}
  BY <1>1, <1>2 DEF InFlight
<1>19. \A c \in InFlight' : c \in InFlight \/ New(c)  BY <1>18
<1>20. ASSUME NEW g, NEW n, IsTotal(g, n)'
       PROVE  \/ IsTotal(g, n) /\ g # Hand'
              \/ g = Hand' /\ ~e.partial /\ n = first + call'.n /\ call'.n > 0
  <2>1. CASE \E w \in written : SeenId(w) = g /\ w.n = n  BY <1>15, <2>1 DEF IsTotal
  <2>2. CASE /\ g = Hand' /\ call'.s # -1
             /\ \/ call'.kind = "frame" /\ n = call'.n
                \/ call'.kind = "part" /\ ~call'.partial /\ ~sf'.failed /\ n = sf'.next_idx + call'.n
    <3>1. call'.n = ChunkCount(e.len)  BY <1>3, <2>2 DEF Makes
    <3>2. n = first + call'.n /\ ~e.partial  BY <1>3, <1>6, <1>8, <1>9, <2>2
    <3> QED BY <1>5, <2>2, <3>1, <3>2
  <2> QED BY <1>1, <1>20, <2>1, <2>2 DEF IsTotal, SeenId, Id
<1>21. FlightOrder'
  <2>1. ASSUME NEW i \in DOMAIN call'.run, NEW j \in DOMAIN call'.run, i < j
        PROVE  call'.run[i].chunk_idx < call'.run[j].chunk_idx
    <3>1. call'.run[i].chunk_idx = first + i - 1 /\ call'.run[j].chunk_idx = first + j - 1
          /\ i \in Nat /\ j \in Nat
      BY <1>17
    <3> QED BY <1>6, <2>1, <3>1
  <2>2. ASSUME NEW i \in DOMAIN link, NEW j \in DOMAIN call'.run,
               link[i].codec = "h265", IdOf(link[i]) = IdOf(call'.run[j])
        PROVE  link[i].chunk_idx < call'.run[j].chunk_idx
    <3>1. link[i] \in InFlight  BY <1>18, <2>2
    <3>2. IdOf(link[i]) = Hand' /\ call'.run[j].chunk_idx = first + j - 1 /\ j \in 1..call'.n
      BY <1>17, <2>2
    <3>3. link[i].chunk_idx < first /\ link[i].chunk_idx \in Nat  BY <1>13, <3>1, <3>2
    <3> QED BY <1>6, <3>2, <3>3
  <2> QED BY <1>1, <2>1, <2>2 DEF DropInv, FlightOrder, IdOf, Id
<1>22. SeenInv'
  <2>1. ASSUME NEW s \in seen, NEW c \in InFlight', IdOf(c) = SeenId(s) PROVE s.idx < c.chunk_idx
    <3>1. CASE c \in InFlight  BY <2>1, <3>1 DEF DropInv, SeenInv
    <3>2. CASE New(c)
      <4>1. PICK j \in DOMAIN call'.run : c = call'.run[j]  BY <3>2
      <4>2. SeenId(s) = Hand' /\ c.chunk_idx = first + j - 1 /\ j \in 1..call'.n  BY <1>17, <2>1, <4>1
      <4>3. s.idx < first /\ s.idx \in Nat  BY <1>14, <4>2
      <4> QED BY <1>6, <4>2, <4>3
    <3> QED BY <1>19, <3>1, <3>2
  <2>2. ASSUME NEW s \in seen, SeenId(s) = Hand' PROVE sf'.open /\ s.idx < sf'.next_idx + call'.n
    <3>1. GoesOn /\ s.idx < first /\ s.idx \in Nat  BY <1>14, <2>2
    <3>2. first = sf'.next_idx /\ sf'.open  BY <1>8, <3>1 DEF GoesOn
    <3> QED BY <1>6, <3>1, <3>2
  <2>3. ASSUME NEW s \in seen PROVE Leq(SeenId(s), heard)  BY DEF DropInv, SeenInv
  <2>4. r.active => \E s \in seen : SeenId(s) = heard  BY DEF DropInv, SeenInv
  <2> QED BY <1>1, <1>15, <2>1, <2>2, <2>3, <2>4 DEF SeenInv, SeenId, Id
<1>23. CountInv'
  <2>1. ASSUME NEW c \in InFlight'
        PROVE  /\ c.piece.len <= ChunkPayload
               /\ c.flag = "frame_end" => c.chunk_count = c.chunk_idx + 1
               /\ IdOf(c) = Hand' => call'.kind = "frame" \/ (sf'.open /\ Mode(c) = 0)
               /\ IdOf(c) = Hand' => Mode(c) = IF call'.kind = "part" THEN 0 ELSE call'.n
    <3>1. CASE c \in InFlight
      <4>1. IdOf(c) = Hand' => GoesOn /\ Mode(c) = 0  BY <1>13, <3>1
      <4>2. GoesOn => call'.kind = "part" /\ sf'.open  BY <1>8 DEF GoesOn
      <4> QED BY <3>1, <4>1, <4>2 DEF DropInv, CountInv
    <3>2. CASE New(c)
      <4>1. PICK i \in DOMAIN call'.run : c = call'.run[i]  BY <3>2
      <4> QED BY <1>6, <1>8, <1>17, <4>1
    <3> QED BY <1>19, <3>1, <3>2
  <2>2. ASSUME NEW c \in InFlight', NEW d \in InFlight', IdOf(c) = IdOf(d) PROVE Mode(c) = Mode(d)
    <3>1. CASE IdOf(c) = Hand'  BY <2>1, <2>2, <3>1
    <3>2. CASE IdOf(c) # Hand'
      <4>1. c \in InFlight /\ d \in InFlight  BY <1>17, <1>19, <2>2, <3>2
      <4> QED BY <2>2, <4>1 DEF DropInv, CountInv
    <3> QED BY <3>1, <3>2
  <2>3. ASSUME NEW c \in InFlight', NEW n \in Nat, IsTotal(IdOf(c), n)', c.chunk_idx + 1 = n
        PROVE  c.chunk_count = n
    <3>1. CASE IsTotal(IdOf(c), n) /\ IdOf(c) # Hand'
      <4>1. c \in InFlight  BY <1>17, <1>19, <3>1
      <4> QED BY <2>3, <3>1, <4>1 DEF DropInv, CountInv
    <3>2. CASE IdOf(c) = Hand' /\ ~e.partial /\ n = first + call'.n /\ call'.n > 0
      <4>1. CASE c \in InFlight
        <5>1. c.chunk_idx < first /\ c.chunk_idx \in Nat  BY <1>13, <3>2, <4>1
        <5> QED BY <1>6, <2>3, <3>2, <5>1
      <4>2. CASE New(c)
        <5>1. PICK i \in DOMAIN call'.run : c = call'.run[i]  BY <4>2
        <5>2. c.chunk_idx = first + i - 1 /\ i \in 1..call'.n  BY <1>17, <5>1
        <5>3. i = call'.n  BY <1>6, <2>3, <3>2, <5>2
        <5> QED BY <1>17, <2>3, <3>2, <5>1, <5>3
      <4> QED BY <1>19, <4>1, <4>2
    <3>3. PICK g : g = IdOf(c)  OBVIOUS
    <3>4. IsTotal(g, n)'  BY <2>3, <3>3
    <3> QED BY <1>20, <3>1, <3>2, <3>3, <3>4
  <2>4. r.active => r.write_off <= r.next_chunk_idx * ChunkPayload  BY DEF DropInv, CountInv
  <2>5. ASSUME r.active, ~SeqReused(heard)'
        PROVE  /\ \A c \in InFlight' : IdOf(c) = heard => Mode(c) = r.chunk_count
               /\ heard = Hand' => sf'.open /\ r.chunk_count = 0
    <3>1. ~SeqReused(heard)  BY <1>1, <2>5 DEF SeqReused
    <3>2. heard = Hand' => GoesOn /\ r.chunk_count = 0  BY <1>16, <2>5, <3>1
    <3>3. heard = Hand' => sf'.open /\ call'.kind = "part"  BY <1>8, <3>2 DEF GoesOn
    <3>4. ASSUME NEW c \in InFlight', IdOf(c) = heard PROVE Mode(c) = r.chunk_count
      <4>1. CASE heard = Hand'  BY <2>1, <3>2, <3>3, <3>4, <4>1
      <4>2. CASE heard # Hand'
        <5>1. c \in InFlight  BY <1>17, <1>19, <3>4, <4>2
        <5> QED BY <2>5, <3>1, <3>4, <5>1 DEF DropInv, CountInv
      <4> QED BY <4>1, <4>2
    <3> QED BY <3>2, <3>3, <3>4
  <2> QED BY <1>1, <2>1, <2>2, <2>3, <2>4, <2>5 DEF CountInv
<1>24. KeptInv'
  <2>1. ASSUME NEW k \in Nat \ {0}, AllSeen(heard, k)', \A s \in seen : SeenId(s) = heard => s.idx < k,
               k * ChunkPayload <= ReasmCap, ~SeqReused(heard)'
        PROVE  heard \in completed \/ (r.active /\ r.next_chunk_idx = k)
    <3>1. AllSeen(heard, k) /\ ~SeqReused(heard)  BY <1>1, <2>1 DEF AllSeen, SeqReused, SeenId, Id
    <3> QED BY <2>1, <3>1 DEF DropInv, KeptInv
  <2>2. ASSUME NEW g \in [epoch: Nat, no: Nat], NEW n \in Nat \ {0}, IsTotal(g, n)', AllSeen(g, n)',
               n * ChunkPayload <= ReasmCap, ~SeqReused(g)'
        PROVE  g \in completed
    <3>1. AllSeen(g, n) /\ ~SeqReused(g)  BY <1>1, <2>2 DEF AllSeen, SeqReused, SeenId, Id
    <3>2. CASE IsTotal(g, n)  BY <2>2, <3>1, <3>2 DEF DropInv, KeptInv
    <3>3. CASE g = Hand' /\ n = first + call'.n /\ call'.n > 0
      <4>1. n - 1 \in 0..(n - 1)  BY <2>2
      <4>2. PICK s \in seen : SeenId(s) = g /\ s.idx = n - 1  BY <3>1, <4>1 DEF AllSeen
      <4>3. s.idx < first  BY <1>14, <3>3, <4>2
      <4> QED BY <1>6, <3>3, <4>2, <4>3
    <3> QED BY <1>20, <2>2, <3>2, <3>3
  <2> QED BY <1>1, <2>1, <2>2 DEF KeptInv
<1> QED BY <1>21, <1>22, <1>23, <1>24 DEF DropInv

\* The frame in progress keeps the mode of the chunk it started with.
LEMMA FeedMode ==
  ASSUME NEW q \in Reasm, NEW c \in Chunk
  PROVE  LET p == reassembly_feed(q, c)
         IN  p.active => p.chunk_count = IF IsNewFrame(q, c) THEN Mode(c) ELSE q.chunk_count
<1> DEFINE r1 == GiveUpStreamed(q, c)
           r2 == BeforeAppend(q, c)
           p  == reassembly_feed(q, c)
<1>1. c.frame_seq \in Nat /\ c.chunk_count \in Nat  BY DEF Chunk
<1>2. r1 \in Reasm  BY GiveUpFacts
<1>3. r2 \in Reasm  BY <1>2, StartFrameFacts DEF BeforeAppend
<1>4. r2.chunk_count = IF IsNewFrame(q, c) THEN Mode(c) ELSE q.chunk_count
  <2>1. CASE IsNewFrame(q, c)
    <3>1. r2 = StartFrame(r1, c)  BY <2>1 DEF BeforeAppend
    <3>2. StartFrame(r1, c).chunk_count = Mode(c)
      <4> HIDE DEF r1
      <4> QED BY <1>2 DEF StartFrame, Mode, Reasm
    <3> QED BY <2>1, <3>1, <3>2
  <2>2. CASE ~IsNewFrame(q, c)  BY <2>2 DEF BeforeAppend
  <2> QED BY <2>1, <2>2
<1>5. CASE p = reassembly_reset(note_dropped(r1, c.frame_seq))
  <2> HIDE DEF p, r1
  <2> QED BY <1>1, <1>2, <1>5, NoteDroppedFacts, ResetFacts DEF p
<1>6. CASE p = reassembly_reset(note_dropped(r2, c.frame_seq))
  <2> HIDE DEF p, r2
  <2> QED BY <1>1, <1>3, <1>6, NoteDroppedFacts, ResetFacts DEF p
<1>7. CASE p = AppendPiece(r2, c)
  <2>1. p.chunk_count = r2.chunk_count
    <3> HIDE DEF r2
    <3> QED BY <1>3, <1>7 DEF AppendPiece, Reasm
  <2> HIDE DEF p, r2
  <2> QED BY <1>4, <2>1 DEF p
<1>8. \/ p = reassembly_reset(note_dropped(r1, c.frame_seq))
      \/ p = reassembly_reset(note_dropped(r2, c.frame_seq))
      \/ p = AppendPiece(r2, c)
  BY DEF reassembly_feed
<1> QED BY <1>5, <1>6, <1>7, <1>8

\* The chunk that ends a frame completes it (reassembly.c:97-101).
LEMMA AppendCompletes ==
  ASSUME NEW q \in Reasm, NEW c \in Chunk,
         EndsStreamed(q, c) \/ q.next_chunk_idx + 1 = q.chunk_count
  PROVE  AppendPiece(q, c).completed_frames = q.completed_frames + 1
<1>1. PICK b : b = Append(q.buf, [at |-> q.write_off, piece |-> c.piece])  OBVIOUS
<1>2. PICK w : w = q.write_off + c.piece.len  OBVIOUS
<1>3. PICK x : x = q.next_chunk_idx + 1  OBVIOUS
<1>4. AppendPiece(q, c) = [q EXCEPT !.buf = b, !.write_off = w, !.next_chunk_idx = x,
                                    !.done = TRUE, !.completed_frames = q.completed_frames + 1]
  BY <1>1, <1>2, <1>3 DEF AppendPiece
<1>5. "completed_frames" \in DOMAIN q  BY DEF Reasm
<1> QED BY <1>4, <1>5

\* A chunk that comes in its turn, in the mode of its frame, and fits, is taken; and the one whose
\* chunk_count says so completes the frame.
LEMMA FeedTakes ==
  ASSUME NEW q \in Reasm, NEW c \in Chunk,
         c.flag = "frame_end" => c.chunk_count = c.chunk_idx + 1,
         \/ IsNewFrame(q, c) /\ c.chunk_idx = 0 /\ c.piece.len <= ReasmCap
         \/ /\ ~IsNewFrame(q, c) /\ c.chunk_idx = q.next_chunk_idx /\ q.chunk_count = Mode(c)
            /\ q.write_off + c.piece.len <= ReasmCap
  PROVE  LET p == reassembly_feed(q, c)
         IN  /\ p.active /\ p.next_chunk_idx = c.chunk_idx + 1
             /\ c.chunk_count = c.chunk_idx + 1 => p.completed_frames > q.completed_frames
<1> DEFINE r1 == GiveUpStreamed(q, c)
           r2 == BeforeAppend(q, c)
           p  == reassembly_feed(q, c)
<1>1. c.chunk_idx \in Nat /\ c.chunk_count \in Nat /\ c.piece.len \in Nat  BY DEF Chunk, Piece
<1>2. r1 \in Reasm /\ r1.completed_frames = q.completed_frames  BY GiveUpFacts
<1>3. r2 \in Reasm /\ r2.completed_frames = q.completed_frames /\ q.completed_frames \in Nat
  BY <1>2, StartFrameFacts DEF BeforeAppend, Reasm
<1>4. /\ r2.active /\ r2.next_chunk_idx = c.chunk_idx /\ r2.chunk_count = Mode(c)
      /\ r2.write_off + c.piece.len <= ReasmCap
  <2>1. CASE IsNewFrame(q, c)
    <3>1. r2 = StartFrame(r1, c)  BY <2>1 DEF BeforeAppend
    <3>2. StartFrame(r1, c).chunk_count = Mode(c)
      <4> HIDE DEF r1
      <4> QED BY <1>2 DEF StartFrame, Mode, Reasm
    <3>3. StartFrame(r1, c).active /\ StartFrame(r1, c).write_off = 0 /\ StartFrame(r1, c).next_chunk_idx = 0
      BY <1>2, StartFrameFacts
    <3> QED BY <1>1, <2>1, <3>1, <3>2, <3>3
  <2>2. CASE ~IsNewFrame(q, c)
    <3>1. r2 = q  BY <2>2 DEF BeforeAppend
    <3> QED BY <2>2, <3>1 DEF IsNewFrame
  <2> QED BY <2>1, <2>2
<1> HIDE DEF r2
<1>5. CASE c.flag = "frame_end"
  <2>1. EndsStreamed(r2, c)  BY <1>4, <1>5 DEF EndsStreamed, Mode
  <2> QED
    <3>1. Extends(r2, c)  BY <1>4, <2>1 DEF Extends
    <3>2. p = AppendPiece(r2, c)  BY <3>1 DEF reassembly_feed, r2
    <3>3. p.active /\ p.next_chunk_idx = c.chunk_idx + 1
      <4>1. /\ AppendPiece(r2, c).active = r2.active
            /\ AppendPiece(r2, c).next_chunk_idx = r2.next_chunk_idx + 1
        BY <1>3, AppendFacts
      <4> HIDE DEF p
      <4> QED BY <1>4, <3>2, <4>1
    <3>4. p.completed_frames = r2.completed_frames + 1
      BY <1>3, <2>1, <3>2, AppendCompletes
    <3> HIDE DEF p
    <3> QED BY <1>3, <1>4, <3>3, <3>4 DEF p
<1>6. CASE c.flag # "frame_end"
  <2>1. c.chunk_count = r2.chunk_count  BY <1>4, <1>6 DEF Mode
  <2>2. Extends(r2, c)  BY <1>4, <2>1 DEF Extends
  <2>3. p = AppendPiece(r2, c)  BY <2>2 DEF reassembly_feed, r2
  <2>4. p.active /\ p.next_chunk_idx = c.chunk_idx + 1
    <3>1. /\ AppendPiece(r2, c).active = r2.active
          /\ AppendPiece(r2, c).next_chunk_idx = r2.next_chunk_idx + 1
      BY <1>3, AppendFacts
    <3> HIDE DEF p
    <3> QED BY <1>4, <2>3, <3>1
  <2>5. c.chunk_count = c.chunk_idx + 1 => p.completed_frames = r2.completed_frames + 1
    <3>1. c.chunk_count = c.chunk_idx + 1 => r2.next_chunk_idx + 1 = r2.chunk_count  BY <1>4, <2>1
    <3> QED BY <1>3, <2>3, <3>1, AppendCompletes
  <2> HIDE DEF p
  <2> QED BY <1>3, <1>4, <2>4, <2>5 DEF p
<1> QED BY <1>5, <1>6

\* A chunk with the frame_seq of the frame in progress is of that frame, unless another tx run
\* used the number.
LEMMA SameFrame ==
  ASSUME TypeOK, MixInv, SeenInv, NEW c \in Chunk, Stamped(c), Leq(heard, IdOf(c)), WithinOutage(c),
         ~SeqReused(IdOf(c)), ~IsNewFrame(r, c)
  PROVE  r.active /\ heard = IdOf(c)
<1>1. /\ c.piece.epoch \in Nat /\ c.piece.no \in Nat /\ c.frame_seq = c.piece.no % SeqMod
      /\ IdOf(c).epoch = c.piece.epoch /\ IdOf(c).no = c.piece.no
  BY DEF Chunk, Piece, IdOf, Id, Stamped
<1>2. heard \in [epoch: Nat, no: Nat] /\ heard.epoch \in Nat /\ heard.no \in Nat  BY DEF TypeOK, HistTypes
<1>3. r.active /\ c.frame_seq = r.frame_seq  BY DEF IsNewFrame
<1>4. heard.no % SeqMod = c.piece.no % SeqMod  BY <1>1, <1>3 DEF MixInv, BufInv
<1>5. PICK s \in seen : SeenId(s) = heard  BY <1>3 DEF SeenInv
<1>6. s.epoch = heard.epoch /\ s.no = heard.no  BY <1>5 DEF SeenId, Id
<1>7. heard.epoch = c.piece.epoch  BY <1>1, <1>4, <1>6 DEF SeqReused
<1>8. heard.no <= c.piece.no  BY <1>1, <1>2, <1>7 DEF Leq
<1>9. c.piece.no - heard.no < SeqMod  BY <1>1, <1>2, <1>7, Constants DEF WithinOutage
<1>10. heard.no = c.piece.no  BY <1>1, <1>2, <1>4, <1>8, <1>9, Constants, ModSame
<1>11. heard = [epoch |-> heard.epoch, no |-> heard.no]  BY <1>2
<1> QED BY <1>3, <1>7, <1>10, <1>11 DEF IdOf, Id

\* A video chunk comes in: if its frame came in from chunk 0 so far, reassembly_feed() finds it in
\* progress and takes the chunk, and the last one completes it.
LEMMA RxVideoDrop ==
  ASSUME TypeOK, TypeOK', MixInv, ContentInv, DropInv, RxVideo
  PROVE  DropInv'
<1> DEFINE c  == Head(link)
           r1 == reassembly_feed(r, c)
           id == IdOf(c)
           new == [epoch |-> id.epoch, no |-> id.no, idx |-> c.chunk_idx, streamed |-> c.chunk_count = 0]
<1>1. /\ UNCHANGED <<epoch, frame_no, sf, call, written>> /\ link # << >> /\ link' = Tail(link)
      /\ c.codec = "h265" /\ WithinOutage(c) /\ heard' = id /\ seen' = seen \cup {new}
  BY DEF RxVideo, txVars, IdOf, Id
<1>2. c = link[1] /\ 1 \in DOMAIN link /\ c \in InFlight
  <2>1. link \in Seq(Chunk)  BY DEF TypeOK, TxTypes
  <2>2. c = link[1] /\ 1 \in DOMAIN link  BY <1>1, <2>1
  <2> QED BY <1>1, <2>2 DEF InFlight
<1>3. /\ c \in Chunk /\ Stamped(c) /\ id \in [epoch: Nat, no: Nat] /\ Leq(heard, id) /\ c.piece \in Around
      /\ c.chunk_idx \in Nat /\ c.chunk_count \in Nat /\ c.piece.len \in Nat /\ c.chunk_idx = c.piece.idx
  <2>1. c \in Chunk /\ Stamped(c) /\ id \in [epoch: Nat, no: Nat] /\ Leq(heard, id) /\ c.piece \in Around
    <3> HIDE DEF c
    <3> QED BY <1>2, FlightFacts
  <2>2. \A d \in Chunk : d.chunk_idx \in Nat /\ d.chunk_count \in Nat /\ d.piece.len \in Nat
    BY DEF Chunk, Piece
  <2> HIDE DEF c, id
  <2> QED BY <2>1, <2>2 DEF Stamped
<1>4. SeenId(new) = id /\ new.idx = c.chunk_idx /\ new.epoch = id.epoch /\ new.no = id.no
  <2>1. id = [epoch |-> id.epoch, no |-> id.no]  BY DEF IdOf, Id
  <2> HIDE DEF id, c
  <2> QED BY <2>1 DEF SeenId, Id
<1>5. /\ \/ r' = r1 /\ completed' = completed /\ ~(r1.completed_frames > r.completed_frames)
         \/ r' = reassembly_reset(r1) /\ completed' = completed \cup {id}
  BY DEF RxVideo, IdOf, Id
<1>6. r \in Reasm /\ r1 \in Reasm
  <2>1. r \in Reasm  BY DEF TypeOK, RxTypes
  <2> HIDE DEF c
  <2> QED BY <1>3, <2>1, FeedFacts
<1>7. \A i \in DOMAIN link' : i \in Nat /\ i + 1 \in DOMAIN link /\ link'[i] = link[i + 1] /\ 1 < i + 1
  <2>1. link' \in Seq(Chunk)  BY DEF TypeOK, TxTypes
  <2>2. \A i \in DOMAIN link' : i \in Nat  BY <2>1
  <2> QED BY <1>1, <2>2, TailFacts
<1> HIDE DEF c, r1, id, new
<1>8. r'.active => r' = r1  BY <1>5, <1>6, ResetFacts
<1>9. FlightOrder /\ SeenInv /\ CountInv /\ KeptInv  BY DEF DropInv
<1>10. InFlight' \subseteq InFlight /\ \A d \in InFlight' : IdOf(d) = id => c.chunk_idx < d.chunk_idx
  <2> SUFFICES ASSUME NEW d \in InFlight'
               PROVE  d \in InFlight /\ (IdOf(d) = id => c.chunk_idx < d.chunk_idx)
    OBVIOUS
  <2>1. CASE \E i \in DOMAIN call'.run : d = call'.run[i]
    <3>1. PICK i \in DOMAIN call.run : d = call.run[i]  BY <1>1, <2>1
    <3> QED BY <1>1, <1>2, <1>9, <3>1 DEF FlightOrder, InFlight, id
  <2>2. CASE \E i \in DOMAIN link' : link'[i].codec = "h265" /\ d = link'[i]
    <3>1. PICK i \in DOMAIN link' : link'[i].codec = "h265" /\ d = link'[i]  BY <2>2
    <3>2. i + 1 \in DOMAIN link /\ d = link[i + 1] /\ link[i + 1].codec = "h265" /\ 1 < i + 1
      BY <1>7, <3>1
    <3> QED BY <1>1, <1>2, <1>9, <3>2 DEF FlightOrder, InFlight, id
  <2> QED BY <2>1, <2>2 DEF InFlight
<1>11. FlightOrder'
  <2>1. ASSUME NEW i \in DOMAIN link', NEW j \in DOMAIN link', i < j,
               link'[i].codec = "h265", link'[j].codec = "h265", IdOf(link'[i]) = IdOf(link'[j])
        PROVE  link'[i].chunk_idx < link'[j].chunk_idx
    <3>1. i + 1 < j + 1  BY <1>7, <2>1
    <3> QED BY <1>7, <1>9, <2>1, <3>1 DEF FlightOrder
  <2>2. ASSUME NEW i \in DOMAIN link', NEW j \in DOMAIN call'.run,
               link'[i].codec = "h265", IdOf(link'[i]) = IdOf(call'.run[j])
        PROVE  link'[i].chunk_idx < call'.run[j].chunk_idx
    BY <1>1, <1>7, <1>9, <2>2 DEF FlightOrder
  <2> QED BY <1>1, <1>9, <2>1, <2>2 DEF FlightOrder, IdOf, Id
<1>12. Hand' = Hand  BY <1>1 DEF Hand, Id
<1>13. ASSUME NEW f, NEW n, IsTotal(f, n)' PROVE IsTotal(f, n)
  BY <1>1, <1>12, <1>13 DEF IsTotal, SeenId, Id
<1>14. SeenInv'
  <2>1. heard \in [epoch: Nat, no: Nat] /\ \A s \in seen : SeenId(s) \in [epoch: Nat, no: Nat]
    BY DEF TypeOK, HistTypes, SeenId, Id
  <2>2. ASSUME NEW s \in seen' PROVE Leq(SeenId(s), id)
    <3>1. CASE s \in seen  BY <1>3, <1>9, <2>1, <3>1, LeqTrans DEF SeenInv
    <3>2. CASE s = new
      <4>1. Leq(id, id)  BY <1>3 DEF Leq
      <4> QED BY <1>4, <3>2, <4>1
    <3> QED BY <1>1, <3>1, <3>2
  <2>3. ASSUME NEW s \in seen', NEW d \in InFlight', IdOf(d) = SeenId(s) PROVE s.idx < d.chunk_idx
    <3>1. CASE s \in seen  BY <1>9, <1>10, <2>3, <3>1 DEF SeenInv
    <3>2. CASE s = new  BY <1>4, <1>10, <2>3, <3>2
    <3> QED BY <1>1, <3>1, <3>2
  <2>4. ASSUME NEW s \in seen', SeenId(s) = Hand
        PROVE  call.kind = "frame" \/ (sf.open /\ s.idx < sf.next_idx + call.n)
    <3>1. CASE s \in seen  BY <1>9, <2>4, <3>1 DEF SeenInv
    <3>2. CASE s = new
      <4>1. PieceId(c.piece) = Hand  BY <1>4, <2>4, <3>2 DEF PieceId, IdOf, id
      <4> QED BY <1>3, <1>4, <3>2, <4>1 DEF ContentInv, InHandInv
    <3> QED BY <1>1, <3>1, <3>2
  <2>5. \E s \in seen' : SeenId(s) = id  BY <1>1, <1>4
  <2>6. \A w \in written : Leq(SeenId(w), Hand) /\ SeenId(w) # Hand /\ w.n > 0  BY <1>9 DEF SeenInv
  <2> QED BY <1>1, <1>12, <2>2, <2>3, <2>4, <2>5, <2>6 DEF SeenInv, SeenId, Id
<1>15. \A f : SeqReused(f) => SeqReused(f)'  BY <1>1 DEF SeqReused
<1>16. ASSUME ~SeqReused(heard)', ~IsNewFrame(r, c)
       PROVE  r.active /\ heard = id /\ ~SeqReused(heard) /\ r.chunk_count = Mode(c)
  <2>1. ~SeqReused(id)  BY <1>1, <1>16 DEF SeqReused
  <2>2. r.active /\ heard = id  BY <1>1, <1>3, <1>9, <1>16, <2>1, SameFrame DEF id
  <2> QED BY <1>2, <1>9, <2>1, <2>2 DEF CountInv, id
<1>17. CountInv'
  <2>1. ASSUME NEW d \in InFlight'
        PROVE  /\ d.piece.len <= ChunkPayload
               /\ d.flag = "frame_end" => d.chunk_count = d.chunk_idx + 1
               /\ IdOf(d) = Hand' => call'.kind = "frame" \/ (sf'.open /\ Mode(d) = 0)
               /\ \A g \in InFlight' : IdOf(d) = IdOf(g) => Mode(d) = Mode(g)
    BY <1>1, <1>9, <1>10, <1>12 DEF CountInv
  <2>2. ASSUME NEW d \in InFlight', NEW n \in Nat, IsTotal(IdOf(d), n)', d.chunk_idx + 1 = n
        PROVE  d.chunk_count = n
    <3>1. PICK g : g = IdOf(d)  OBVIOUS
    <3>2. IsTotal(g, n)  BY <1>13, <2>2, <3>1
    <3> QED BY <1>9, <1>10, <2>2, <3>1, <3>2 DEF CountInv
  <2>3. ASSUME r'.active PROVE r'.write_off <= r'.next_chunk_idx * ChunkPayload
    <3>1. r' = r1 /\ r1.active /\ ChunkPayload \in Nat /\ r.write_off \in Nat /\ r.next_chunk_idx \in Nat
      BY <1>6, <1>8, <2>3, ChunkerAssumption DEF Reasm
    <3>2. c.piece.len <= ChunkPayload  BY <1>2, <1>9 DEF CountInv
    <3>3. Takes(r, c, r1)  BY <1>3, <1>6, <3>1, FeedFacts DEF Refuses, r1
    <3>4. \/ r1.write_off = c.piece.len /\ c.chunk_idx = 0
          \/ r1.buf = Append(r.buf, [at |-> r.write_off, piece |-> c.piece]) /\ r.active
             /\ r1.write_off = r.write_off + c.piece.len
      BY <1>3, <1>6, <3>1, FeedOrder DEF r1
    <3>5. r1.next_chunk_idx = c.chunk_idx + 1  BY <3>3 DEF Takes
    <3>6. CASE r1.write_off = c.piece.len /\ c.chunk_idx = 0
      <4>1. r1.next_chunk_idx * ChunkPayload = ChunkPayload  BY <3>1, <3>5, <3>6
      <4> QED BY <3>1, <3>2, <3>6, <4>1
    <3>7. CASE r1.write_off = r.write_off + c.piece.len /\ r.active /\ r.next_chunk_idx = c.chunk_idx
      <4>1. r.write_off <= r.next_chunk_idx * ChunkPayload  BY <1>9, <3>7 DEF CountInv
      <4>2. r1.next_chunk_idx * ChunkPayload = r.next_chunk_idx * ChunkPayload + ChunkPayload
        <5>1. r1.next_chunk_idx = r.next_chunk_idx + 1  BY <3>5, <3>7
        <5> QED BY <3>1, <5>1
      <4>3. r.next_chunk_idx * ChunkPayload \in Nat  BY <3>1
      <4>4. r1.write_off <= r.next_chunk_idx * ChunkPayload + ChunkPayload
        BY <1>3, <3>1, <3>2, <3>7, <4>1, <4>3
      <4> QED BY <3>1, <4>2, <4>4
    <3>8. \/ r1.write_off = c.piece.len /\ c.chunk_idx = 0
          \/ r1.write_off = r.write_off + c.piece.len /\ r.active /\ r.next_chunk_idx = c.chunk_idx
      <4>1. CASE r.active /\ r1.buf = Append(r.buf, [at |-> r.write_off, piece |-> c.piece])
                 /\ r1.buf = <<[at |-> 0, piece |-> c.piece]>> /\ c.chunk_idx = 0
        <5>1. r.buf \in Seq(Placed) /\ Len(r1.buf) = 1  BY <1>6, <4>1 DEF Reasm
        <5>2. PICK h : r1.buf = Append(r.buf, h)  BY <4>1
        <5>3. Len(r.buf) = 0  BY <5>1, <5>2
        <5>4. r.next_chunk_idx = c.chunk_idx  BY <4>1, <5>3 DEF MixInv, BufInv
        <5> QED BY <3>4, <4>1, <5>4
      <4> QED BY <3>3, <3>4, <4>1 DEF Takes
    <3> QED BY <3>6, <3>7, <3>8
  <2>4. ASSUME r'.active, ~SeqReused(heard)'
        PROVE  /\ \A d \in InFlight' : IdOf(d) = id => Mode(d) = r'.chunk_count
               /\ id = Hand => call.kind = "frame" \/ (sf.open /\ r'.chunk_count = 0)
    <3>1. r' = r1 /\ r1.active  BY <1>8, <2>4
    <3>2. r1.chunk_count = IF IsNewFrame(r, c) THEN Mode(c) ELSE r.chunk_count
      BY <1>3, <1>6, <3>1, FeedMode DEF r1
    <3>3. r1.chunk_count = Mode(c)  BY <1>16, <2>4, <3>2
    <3> QED BY <1>2, <1>9, <1>10, <3>1, <3>3 DEF CountInv, id
  <2> QED BY <1>1, <1>12, <2>1, <2>2, <2>3, <2>4 DEF CountInv
<1>18. ASSUME \A i \in 0..(c.chunk_idx - 1) : \E s \in seen : SeenId(s) = id /\ s.idx = i,
              (c.chunk_idx + 1) * ChunkPayload <= ReasmCap, ~SeqReused(heard)'
       PROVE  /\ id \in completed' \/ (r'.active /\ r'.next_chunk_idx = c.chunk_idx + 1)
              /\ c.chunk_count = c.chunk_idx + 1 => id \in completed'
  <2>1. id \in completed \/ (r1.active /\ r1.next_chunk_idx = c.chunk_idx + 1
                             /\ (c.chunk_count = c.chunk_idx + 1 => r1.completed_frames > r.completed_frames))
    <3>1. /\ c.piece.len <= ChunkPayload /\ ChunkPayload \in Nat \ {0} /\ ReasmCap \in Nat
          /\ c.flag = "frame_end" => c.chunk_count = c.chunk_idx + 1
      BY <1>2, <1>9, ChunkerAssumption, ReassemblyAssumption DEF CountInv
    <3>2. (c.chunk_idx + 1) * ChunkPayload = c.chunk_idx * ChunkPayload + ChunkPayload
          /\ c.chunk_idx * ChunkPayload \in Nat
      BY <1>3, <3>1
    <3>3. \A s \in seen : SeenId(s) = id => s.idx < c.chunk_idx /\ s.idx \in Nat
      <4>1. \A s \in seen : s.idx \in Nat  BY DEF TypeOK, HistTypes
      <4> QED BY <1>2, <1>9, <4>1 DEF SeenInv, id
    <3>4. CASE c.chunk_idx = 0
      <4>1. IsNewFrame(r, c)
        <5> SUFFICES ASSUME ~IsNewFrame(r, c) PROVE FALSE  OBVIOUS
        <5>1. r.active /\ heard = id  BY <1>16, <1>18
        <5>2. PICK s \in seen : SeenId(s) = id  BY <1>9, <5>1 DEF SeenInv
        <5> QED BY <3>3, <3>4, <5>2
      <4>2. c.piece.len <= ReasmCap  BY <1>3, <1>18, <3>1, <3>2
      <4> QED BY <1>3, <1>6, <3>1, <3>4, <4>1, <4>2, FeedTakes DEF r1
    <3>5. CASE c.chunk_idx > 0 /\ id \notin completed
      <4>1. c.chunk_idx \in Nat \ {0} /\ 0 \in 0..(c.chunk_idx - 1)  BY <1>3, <3>5
      <4>2. PICK s \in seen : SeenId(s) = id  BY <1>18, <4>1
      <4>3. Leq(id, heard)  BY <1>9, <4>2 DEF SeenInv
      <4>4. heard = id
        <5>1. heard \in [epoch: Nat, no: Nat]  BY DEF TypeOK, HistTypes
        <5>2. heard.epoch = id.epoch /\ heard.no = id.no  BY <1>3, <4>3, <5>1 DEF Leq
        <5> QED BY <1>3, <5>1, <5>2
      <4>5. ~SeqReused(heard)  BY <1>1, <1>18, <4>4 DEF SeqReused
      <4>6. AllSeen(heard, c.chunk_idx)  BY <1>18, <4>4 DEF AllSeen
      <4>7. c.chunk_idx * ChunkPayload <= ReasmCap  BY <1>18, <3>1, <3>2
      <4>8. r.active /\ r.next_chunk_idx = c.chunk_idx
        BY <1>9, <3>3, <3>5, <4>1, <4>4, <4>5, <4>6, <4>7 DEF KeptInv
      <4>9. ~IsNewFrame(r, c)
        <5>1. r.frame_seq = heard.no % SeqMod  BY <4>8 DEF MixInv, BufInv
        <5>2. c.frame_seq = id.no % SeqMod  BY <1>3 DEF Stamped, id, IdOf, Id
        <5> QED BY <4>4, <4>8, <5>1, <5>2 DEF IsNewFrame
      <4>10. r.chunk_count = Mode(c)  BY <1>16, <1>18, <4>9
      <4>11. r.write_off + c.piece.len <= ReasmCap
        <5>1. r.write_off <= c.chunk_idx * ChunkPayload /\ r.write_off \in Nat
          BY <1>6, <1>9, <4>8 DEF CountInv, Reasm
        <5> QED BY <1>3, <1>18, <3>1, <3>2, <5>1
      <4> QED BY <1>3, <1>6, <3>1, <4>8, <4>9, <4>10, <4>11, FeedTakes DEF r1
    <3> QED BY <1>3, <3>4, <3>5
  <2> QED BY <1>5, <2>1
<1>19. KeptInv'
  <2>1. ASSUME NEW k \in Nat \ {0}, AllSeen(heard, k)', \A s \in seen' : SeenId(s) = id => s.idx < k,
               k * ChunkPayload <= ReasmCap, ~SeqReused(heard)'
        PROVE  id \in completed' \/ (r'.active /\ r'.next_chunk_idx = k)
    <3>1. \A i \in 0..(k - 1) : \E s \in seen' : SeenId(s) = id /\ s.idx = i
      BY <1>1, <2>1 DEF AllSeen, SeenId, Id
    <3>2. c.chunk_idx < k  BY <1>1, <1>4, <2>1
    <3>3. \A s \in seen : SeenId(s) = id => s.idx < c.chunk_idx /\ s.idx \in Nat
      <4>1. \A s \in seen : s.idx \in Nat  BY DEF TypeOK, HistTypes
      <4> QED BY <1>2, <1>9, <4>1 DEF SeenInv, id
    <3>4. k = c.chunk_idx + 1
      <4>1. PICK s \in seen' : SeenId(s) = id /\ s.idx = k - 1
        <5>1. k - 1 \in 0..(k - 1)  BY <2>1
        <5> QED BY <3>1, <5>1
      <4>2. CASE s \in seen  BY <1>3, <3>2, <3>3, <4>1, <4>2
      <4>3. CASE s = new  BY <1>3, <1>4, <4>1, <4>3
      <4> QED BY <1>1, <4>1, <4>2, <4>3
    <3>5. ASSUME NEW i \in 0..(c.chunk_idx - 1) PROVE \E s \in seen : SeenId(s) = id /\ s.idx = i
      <4>1. i \in 0..(k - 1) /\ i # c.chunk_idx  BY <1>3, <3>4
      <4>2. PICK s \in seen' : SeenId(s) = id /\ s.idx = i  BY <3>1, <4>1
      <4> QED BY <1>1, <1>4, <4>1, <4>2
    <3> QED BY <1>18, <2>1, <3>4, <3>5
  <2>2. ASSUME NEW f \in [epoch: Nat, no: Nat], NEW n \in Nat \ {0}, IsTotal(f, n)', AllSeen(f, n)',
               n * ChunkPayload <= ReasmCap, ~SeqReused(f)'
        PROVE  f \in completed'
    <3>1. completed \subseteq completed'  BY <1>5
    <3>2. IsTotal(f, n) /\ ~SeqReused(f)  BY <1>13, <1>15, <2>2
    <3>3. \A i \in 0..(n - 1) : \E s \in seen' : SeenId(s) = f /\ s.idx = i
      BY <2>2 DEF AllSeen, SeenId, Id
    <3>4. CASE AllSeen(f, n)  BY <1>9, <2>2, <3>1, <3>2, <3>4 DEF KeptInv
    <3>5. CASE ~AllSeen(f, n)
      <4>1. PICK i \in 0..(n - 1) : ~(\E s \in seen : SeenId(s) = f /\ s.idx = i)  BY <3>5 DEF AllSeen
      <4>2. f = id /\ c.chunk_idx = i  BY <1>1, <1>4, <3>3, <4>1
      <4>3. \A s \in seen : SeenId(s) = id => s.idx < c.chunk_idx /\ s.idx \in Nat
        <5>1. \A s \in seen : s.idx \in Nat  BY DEF TypeOK, HistTypes
        <5> QED BY <1>2, <1>9, <5>1 DEF SeenInv, id
      <4>4. n = c.chunk_idx + 1
        <5>1. n - 1 \in 0..(n - 1)  BY <2>2
        <5>2. PICK s \in seen' : SeenId(s) = f /\ s.idx = n - 1  BY <3>3, <5>1
        <5>3. CASE s \in seen
          <6>1. n - 1 < c.chunk_idx  BY <4>2, <4>3, <5>2, <5>3
          <6> QED BY <1>3, <2>2, <4>1, <4>2, <6>1
        <5>4. CASE s = new  BY <1>3, <1>4, <2>2, <5>2, <5>4
        <5> QED BY <1>1, <5>2, <5>3, <5>4
      <4>5. ASSUME NEW j \in 0..(c.chunk_idx - 1) PROVE \E s \in seen : SeenId(s) = id /\ s.idx = j
        <5>1. j \in 0..(n - 1) /\ j # c.chunk_idx  BY <1>3, <4>4
        <5>2. PICK s \in seen' : SeenId(s) = id /\ s.idx = j  BY <3>3, <4>2, <5>1
        <5> QED BY <1>1, <1>4, <5>1, <5>2
      <4>6. c.chunk_count = c.chunk_idx + 1  BY <1>2, <1>9, <2>2, <3>2, <4>2, <4>4 DEF CountInv, id
      <4>7. ~SeqReused(heard)'  BY <1>1, <2>2, <4>2 DEF SeqReused
      <4> QED BY <1>18, <2>2, <4>2, <4>4, <4>5, <4>6, <4>7
    <3> QED BY <3>4, <3>5
  <2> QED BY <1>1, <2>1, <2>2 DEF KeptInv, SeenId, Id
<1> QED BY <1>11, <1>14, <1>17, <1>19 DEF DropInv

\* DropInv is inductive.
THEOREM DropInvariant == Spec => []DropInv
<1>1. TypeOK /\ TypeOK' /\ MixInv /\ MixInv' /\ SliceInv /\ ContentInv /\ DropInv /\ [Next]_vars => DropInv'
  BY MovesDrop, TxReadDrop, TxReturnDrop, TxRestartDrop, RxVideoDrop DEF Next, Tx, Rx
<1>2. BalanceInv => SliceInv  BY DEF BalanceInv
<1> QED BY <1>1, <1>2, InitDrop, TypeCorrect, MixInvariant, BalanceInvariant, ContentInvariant, PTL DEF Spec

\* reassembly.c completes exactly the frames it can: what it completes is a whole picture, unless a
\* flush or a restart tore it, and a frame that tx wrote in full, that came in in full and that fits
\* the buffer is completed, however the chunks interleave with losses, flushes and restarts.
THEOREM CompletesExactlyHolds == Spec => []CompletesExactly
<1>1. TypeOK /\ DropInv => NoFalseDrop
  <2> SUFFICES ASSUME TypeOK, DropInv, NEW w \in written, AllReceived(w),
                      w.n * ChunkPayload <= ReasmCap, ~SeqReused(w)
               PROVE  Id(w.epoch, w.no) \in completed
    BY DEF NoFalseDrop
  <2>1. w \in [epoch: Nat, no: Nat, n: Nat] /\ w.n > 0  BY DEF TypeOK, HistTypes, DropInv, SeenInv
  <2>2. PICK f : f = Id(w.epoch, w.no)  OBVIOUS
  <2>3. f \in [epoch: Nat, no: Nat] /\ w.n \in Nat \ {0} /\ f.epoch = w.epoch /\ f.no = w.no
    BY <2>1, <2>2 DEF Id
  <2>4. IsTotal(f, w.n)  BY <2>2 DEF IsTotal, SeenId
  <2>5. AllSeen(f, w.n)
    <3>1. \A s \in seen : s.epoch = w.epoch /\ s.no = w.no => SeenId(s) = f  BY <2>2 DEF SeenId
    <3> QED BY <3>1 DEF AllSeen, AllReceived
  <2>6. ~SeqReused(f)  BY <2>3 DEF SeqReused
  <2> QED BY <2>2, <2>3, <2>4, <2>5, <2>6 DEF DropInv, KeptInv
<1>2. PictureIntegrity /\ NoFalseDrop => CompletesExactly  BY DEF CompletesExactly
<1> QED BY <1>1, <1>2, TypeCorrect, DropInvariant, PictureIntegrityHolds, PTL

-----------------------------------------------------------------------------
(* What rx sends on *)

\* Neither the ring nor the chunker's hands hold the start of source frame pts.
Begun(pts) ==
    /\ \A k \in DOMAIN ring : ring[k].pts = pts => ring[k].off > 0
    /\ \A i \in DOMAIN call.run : call.run[i].piece.src = pts => call.run[i].piece.off > 0

\* The source frames rx has in progress or sent something of.
Started ==
    (IF r.active THEN {r.frame_pts} ELSE {}) \cup (IF rtp.items # << >> THEN {rtp.ts} ELSE {})

\* The start of a source frame goes by once: nothing that comes later starts it again.
StartOnce ==
    /\ slices # << >> => enc_off > 0
    /\ \A j, k \in DOMAIN ring : j < k /\ ring[j].pts = ring[k].pts => ring[k].off > 0
    /\ \A i \in DOMAIN call.run :
         /\ \A k \in DOMAIN ring : ring[k].pts = call.run[i].piece.src => ring[k].off > 0
         /\ \A j \in DOMAIN call.run :
              i < j /\ call.run[j].piece.src = call.run[i].piece.src => call.run[j].piece.off > 0
    /\ \A i \in DOMAIN link : link[i].codec = "h265" =>
         /\ Begun(link[i].piece.src)
         /\ \A j \in DOMAIN link :
              i < j /\ link[j].codec = "h265" /\ link[j].piece.src = link[i].piece.src
              => link[j].piece.off > 0
    /\ \A pts \in Started :
         /\ pts <= encoded /\ Begun(pts)
         /\ \A j \in DOMAIN link :
              link[j].codec = "h265" /\ link[j].piece.src = pts => link[j].piece.off > 0

\* Every piece in the buffer of q has bytes, and the next one starts behind it.
Laid(q) ==
    /\ q.buf # << >> /\ q.buf[1].at = 0
    /\ \A i, j \in DOMAIN q.buf : i < j => q.buf[i].at < q.buf[j].at
    /\ \A i \in DOMAIN q.buf : q.buf[i].at < q.write_off

\* Of q's buffer the first k pieces, up to byte off, went out: they are what stream p holds
\* under the frame's timestamp, and vcl says whether a coded slice is among them.
SentUpTo(q, off, vcl, p, k) ==
    /\ k \in 0..Len(q.buf)
    /\ \A i \in DOMAIN q.buf : q.buf[i].at < off <=> i <= k
    /\ vcl <=> \E i \in 1..k : q.buf[i].piece.vcl
    /\ q.frame_pts \notin torn /\ k = 0 => p.ts # q.frame_pts
    /\ q.frame_pts \notin torn /\ k > 0 =>
         p.ts = q.frame_pts /\ p.sei = "none" /\ p.items = [i \in 1..k |-> q.buf[i].piece]

\* What went out of the frame in progress is its buffer up to fwd_off.
SentInv ==
    /\ r.active => Laid(r) /\ \E k \in 0..Len(r.buf) : SentUpTo(r, fwd_off, fwd_vcl, rtp, k)
    /\ rtp.items = << >> => rtp.ts = 0

\* All of the buffer.
Whole(q) == [i \in 1..Len(q.buf) |-> q.buf[i].piece]

\* The SEI of stream p stands ahead of the first coded slice if it is a prefix SEI, behind one if
\* it is a suffix SEI, and something comes after it.
SeiInPlace(p) ==
    p.sei # "none" =>
        /\ p.sei = "suffix" <=> HasVcl(SubSeq(p.items, 1, p.sei_at))
        /\ p.sei_at < Len(p.items)

\* The first k pieces of q, not all, are those ahead of byte off; and stream p holds them under
\* the timestamp of the frame.
Split(q, off, k) ==
    k \in 0..(Len(q.buf) - 1) /\ \A i \in DOMAIN q.buf : q.buf[i].at < off <=> i <= k
Holds(p, q, k) ==
    /\ k = 0 => p.ts # q.frame_pts
    /\ k > 0 => p.ts = q.frame_pts /\ p.items = [i \in 1..k |-> q.buf[i].piece]

\* If exactly the first k pieces start ahead of byte off, the buffer from off on is the rest.
LEMMA RestOfBuffer ==
  ASSUME NEW q \in Reasm, NEW off \in Nat, NEW k \in 0..Len(q.buf), q.write_off > off,
         \A i \in DOMAIN q.buf : q.buf[i].at < off <=> i <= k
  PROVE  PiecesFrom(q, off) = [i \in 1..(Len(q.buf) - k) |-> q.buf[k + i].piece]
<1> DEFINE S == {i \in DOMAIN q.buf : q.buf[i].at < off}
<1>1. q.buf \in Seq(Placed) /\ q.write_off \in Nat  BY DEF Reasm
<1>2. DOMAIN q.buf = 1..Len(q.buf) /\ Len(q.buf) \in Nat /\ k \in Nat /\ k <= Len(q.buf)  BY <1>1
<1>3. S = 1..k  BY <1>2
<1>4. Cardinality(1..k) = k
  <2>1. 1 \in Int /\ k \in Int /\ (IF 1 > k THEN 0 ELSE k - 1 + 1) = k  BY <1>2
  <2> QED BY <2>1, FS_Interval
<1>5. ~(q.write_off <= off)  BY <1>1
<1>6. PiecesFrom(q, off) = [i \in 1..(Len(q.buf) - Cardinality(S)) |-> q.buf[Cardinality(S) + i].piece]
  BY <1>5 DEF PiecesFrom
<1> HIDE DEF S
<1> QED BY <1>3, <1>4, <1>6

\* The two parts of a buffer make the whole.
LEMMA TwoParts ==
  ASSUME NEW b \in Seq(Placed), NEW k \in 0..Len(b)
  PROVE  [i \in 1..k |-> b[i].piece] \o [i \in 1..(Len(b) - k) |-> b[k + i].piece]
           = [i \in 1..Len(b) |-> b[i].piece]
<1>1. PICK x : x = [i \in 1..k |-> b[i].piece]  OBVIOUS
<1>2. PICK y : y = [i \in 1..(Len(b) - k) |-> b[k + i].piece]  OBVIOUS
<1>3. PICK z : z = [i \in 1..Len(b) |-> b[i].piece]  OBVIOUS
<1>4. Len(b) \in Nat /\ k \in Nat /\ k <= Len(b) /\ Len(b) - k \in Nat  OBVIOUS
<1>5. \A i \in 1..Len(b) : b[i].piece \in Piece
  <2>1. \A i \in 1..Len(b) : b[i] \in Placed  OBVIOUS
  <2> QED BY <2>1 DEF Placed
<1>6. x \in Seq(Piece) /\ Len(x) = k  BY <1>1, <1>4, <1>5
<1>7. y \in Seq(Piece) /\ Len(y) = Len(b) - k
  <2>1. \A i \in 1..(Len(b) - k) : k + i \in 1..Len(b)  BY <1>4
  <2> QED BY <1>2, <1>4, <1>5, <2>1
<1>8. z \in Seq(Piece) /\ Len(z) = Len(b)  BY <1>3, <1>4, <1>5
<1>9. x \o y \in Seq(Piece) /\ Len(x \o y) = Len(b)  BY <1>4, <1>6, <1>7
<1>10. ASSUME NEW i \in 1..Len(b) PROVE (x \o y)[i] = z[i]
  <2>1. CASE i <= k
    <3>1. (x \o y)[i] = x[i]  BY <1>4, <1>6, <1>7, <2>1
    <3>2. i \in 1..k  BY <1>4, <2>1
    <3> QED BY <1>1, <1>3, <3>1, <3>2
  <2>2. CASE ~(i <= k)
    <3>1. (x \o y)[i] = y[i - k]  BY <1>4, <1>6, <1>7, <2>2
    <3>2. i - k \in 1..(Len(b) - k) /\ k + (i - k) = i  BY <1>4, <2>2
    <3>3. y[i - k] = b[k + (i - k)].piece  BY <1>2, <3>2
    <3> QED BY <1>3, <3>1, <3>2, <3>3
  <2> QED BY <2>1, <2>2
<1>11. x \o y = z
  <2>1. PICK w : w = x \o y  OBVIOUS
  <2>2. w \in Seq(Piece) /\ Len(w) = Len(z) /\ \A i \in 1..Len(z) : w[i] = z[i]
    BY <1>8, <1>9, <1>10, <2>1
  <2>3. w = z  BY <1>8, <2>2
  <2> QED BY <2>1, <2>3
<1> QED BY <1>1, <1>2, <1>3, <1>11

\* The pieces ahead of the first coded slice: there is none among them, and one behind them.
LEMMA LeadingFacts ==
  ASSUME NEW s \in Seq(Piece), HasVcl(s)
  PROVE  /\ Leading(s) \in Nat /\ Leading(s) < Len(s)
         /\ \A i \in 1..Leading(s) : ~s[i].vcl
<1> DEFINE n == Len(s)
           S == {j \in DOMAIN s : \A i \in 1..j : ~s[i].vcl}
           m == Cardinality(S)
<1>1. n \in Nat /\ DOMAIN s = 1..n  OBVIOUS
<1>2. Leading(s) = m  BY DEF Leading
<1>3. S \subseteq 1..n /\ \A j \in S : j \in Nat /\ 1..j \subseteq S  BY <1>1
<1>4. n \notin S  BY <1>1 DEF HasVcl
<1> HIDE DEF S, n
<1>5. IsFiniteSet(S) /\ m \in Nat /\ m <= n
  <2>1. IsFiniteSet(1..n) /\ Cardinality(1..n) = n  BY <1>1, FS_Interval
  <2>2. IsFiniteSet(S) /\ Cardinality(S) <= Cardinality(1..n)  BY <1>3, <2>1, FS_Subset
  <2> QED BY <2>1, <2>2, FS_CardinalityType
<1> HIDE DEF m
<1>6. ASSUME NEW j \in S PROVE j \in 1..m
  <2>1. j \in Nat /\ j >= 1 /\ 1..j \subseteq S  BY <1>1, <1>3
  <2>2. Cardinality(1..j) = j
    <3>1. 1 \in Int /\ j \in Int /\ (IF 1 > j THEN 0 ELSE j - 1 + 1) = j  BY <2>1
    <3> QED BY <3>1, FS_Interval
  <2>3. Cardinality(1..j) <= Cardinality(S)  BY <1>5, <2>1, FS_Subset
  <2> QED BY <1>5, <2>1, <2>2, <2>3 DEF m
<1>7. S = 1..m
  <2>1. IsFiniteSet(1..m) /\ Cardinality(1..m) = m
    <3>1. 1 \in Int /\ m \in Int /\ (IF 1 > m THEN 0 ELSE m - 1 + 1) = m  BY <1>5
    <3> QED BY <3>1, FS_Interval
  <2>2. S \in SUBSET (1..m)  BY <1>6
  <2> QED BY <2>1, <2>2, FS_Subset DEF m
<1>8. m # n
  <2>1. n # 0  BY <1>1 DEF HasVcl, n
  <2> QED BY <1>1, <1>4, <1>7, <2>1
<1>9. \A i \in 1..m : ~s[i].vcl
  <2>1. \A j \in S : ~s[j].vcl
    <3>1. \A j \in S : j \in 1..j /\ \A i \in 1..j : ~s[i].vcl  BY <1>1, <1>3 DEF S
    <3> QED BY <3>1
  <2> QED BY <1>7, <2>1
<1>10. m \in Nat /\ m < n  BY <1>1, <1>5, <1>8
<1> QED BY <1>2, <1>9, <1>10 DEF n

\* Sending the rest of a frame after its first k pieces makes it whole.
LEMMA SendsRest ==
  ASSUME NEW q \in Reasm, Laid(q), NEW off \in Nat, NEW k, Split(q, off, k),
         NEW p \in RtpType, Holds(p, q, k), NEW m \in BOOLEAN,
         NEW s, s = PiecesFrom(q, off), NEW y, y = RtpSend(p, q.frame_pts, s, m)
  PROVE  /\ q.write_off > off /\ s \in Seq(Piece) /\ s # << >>
         /\ y \in RtpType /\ y.ts = q.frame_pts /\ y.items = Whole(q) /\ (y.marked => m)
         /\ k > 0 \/ (s = Whole(q) /\ y.sei = "none")
         /\ k > 0 => y.sei = p.sei /\ y.sei_at = p.sei_at
<1>1. s = PiecesFrom(q, off)  OBVIOUS
<1>2. y = RtpSend(p, q.frame_pts, s, m)  OBVIOUS
<1>3. q.buf \in Seq(Placed) /\ q.write_off \in Nat /\ q.frame_pts \in Nat  BY DEF Reasm
<1>4. Len(q.buf) \in Nat \ {0} /\ DOMAIN q.buf = 1..Len(q.buf) /\ k \in Nat /\ k \in 0..Len(q.buf)
      /\ k + 1 \in DOMAIN q.buf
  BY <1>3 DEF Laid, Split
<1>5. q.write_off > off
  <2>1. q.buf[k + 1] \in Placed /\ ~(q.buf[k + 1].at < off) /\ q.buf[k + 1].at < q.write_off
    BY <1>3, <1>4 DEF Laid, Split
  <2>2. q.buf[k + 1].at \in Nat  BY <2>1 DEF Placed
  <2> QED BY <1>3, <2>1, <2>2
<1>6. s = [i \in 1..(Len(q.buf) - k) |-> q.buf[k + i].piece]
  BY <1>1, <1>4, <1>5, RestOfBuffer DEF Split
<1>7. s \in Seq(Piece) /\ s # << >>
  <2>1. s \in Seq(Piece)  BY <1>1, PiecesFromType
  <2>2. 1 \in DOMAIN s  BY <1>4, <1>6
  <2> QED BY <2>1, <2>2
<1>8. y \in RtpType  BY <1>2, <1>3, <1>7, RtpSendType
<1>9. CASE k = 0
  <2>1. s = Whole(q)  BY <1>4, <1>6, <1>9 DEF Whole
  <2>2. y = [ts |-> q.frame_pts, items |-> s, marked |-> m, sei |-> "none", sei_at |-> 0]
    BY <1>2, <1>7, <1>9 DEF RtpSend, Holds
  <2>3. y.ts = q.frame_pts /\ y.items = s /\ y.sei = "none"  BY <2>2
  <2>4. y.marked => m  BY <2>2
  <2> QED BY <1>1, <1>2, <1>5, <1>7, <1>8, <1>9, <2>1, <2>3, <2>4
<1>10. CASE k > 0
  <2>1. PICK b : b = p.items \o s  OBVIOUS
  <2>2. b = Whole(q)
    <3>1. p.items = [i \in 1..k |-> q.buf[i].piece]  BY <1>10 DEF Holds
    <3>2. q.buf \in Seq(Placed) /\ k \in 0..Len(q.buf)  BY <1>3, <1>4
    <3>3. [i \in 1..k |-> q.buf[i].piece] \o [i \in 1..(Len(q.buf) - k) |-> q.buf[k + i].piece]
            = [i \in 1..Len(q.buf) |-> q.buf[i].piece]
      BY <3>2, TwoParts
    <3> QED BY <1>6, <2>1, <3>1, <3>3, Zenon DEF Whole
  <2>3. y = [p EXCEPT !.items = b, !.marked = m]  BY <1>2, <1>7, <1>10, <2>1 DEF RtpSend, Holds
  <2>4. y.ts = p.ts /\ y.items = b /\ y.sei = p.sei /\ y.sei_at = p.sei_at  BY <2>3 DEF RtpType
  <2>5. y.marked => m  BY <2>3 DEF RtpType
  <2> QED BY <1>1, <1>2, <1>4, <1>5, <1>7, <1>8, <1>10, <2>2, <2>4, <2>5 DEF Holds
<1> QED BY <1>4, <1>9, <1>10

\* rx/main.c:655-686: a complete frame of an untorn picture goes out whole, at once or after its
\* slices, with the SEI in place.
LEMMA FrameOut ==
  ASSUME NEW q \in Reasm, Laid(q), NEW off \in Nat, NEW vcl \in BOOLEAN, rtp \in RtpType,
         NEW k \in 0..(Len(q.buf) - 1), SentUpTo(q, off, vcl, rtp, k), q.frame_pts \notin torn,
         NEW sei \in BOOLEAN, ForwardFrame(q, off, vcl, sei)
  PROVE  rtp'.ts = q.frame_pts /\ rtp'.items = Whole(q) /\ SeiInPlace(rtp')
<1>1. PICK s : s = PiecesFrom(q, off)  OBVIOUS
<1>2. q.buf \in Seq(Placed) /\ Len(q.buf) \in Nat \ {0} /\ DOMAIN q.buf = 1..Len(q.buf) /\ k \in Nat
      /\ 1 \in DOMAIN q.buf
  BY DEF Laid, Reasm
<1>3. /\ \A i \in DOMAIN q.buf : q.buf[i].at < off <=> i <= k
      /\ k = 0 => rtp.ts # q.frame_pts
      /\ k > 0 => rtp.ts = q.frame_pts /\ rtp.sei = "none" /\ rtp.items = [i \in 1..k |-> q.buf[i].piece]
      /\ vcl <=> \E i \in 1..k : q.buf[i].piece.vcl
  BY DEF SentUpTo
<1>4. off = 0 <=> k = 0
  <2>1. q.buf[1].at = 0  BY DEF Laid
  <2>2. 0 < off <=> 1 <= k  BY <1>2, <1>3, <2>1
  <2> QED BY <1>2, <2>2
<1>5. CASE off = 0
  <2>1. PICK y : y = RtpSend(rtp, q.frame_pts, s, TRUE)  OBVIOUS
  <2>2. y \in RtpType /\ y.ts = q.frame_pts /\ y.items = Whole(q) /\ s = Whole(q) /\ s \in Seq(Piece)
        /\ y.sei = "none"
    <3>1. k = 0  BY <1>4, <1>5
    <3>2. PICK m \in BOOLEAN : m = TRUE  BY Zenon
    <3>3. y = RtpSend(rtp, q.frame_pts, s, m)  BY <2>1, <3>2, Zenon
    <3>4. Split(q, off, k) /\ Holds(rtp, q, k)  BY <1>3 DEF Split, Holds
    <3>5. /\ y.ts = q.frame_pts /\ y.items = Whole(q) /\ y \in RtpType /\ s \in Seq(Piece)
          /\ k > 0 \/ (s = Whole(q) /\ y.sei = "none")
      BY <1>1, <3>3, <3>4, SendsRest
    <3> QED BY <3>1, <3>5
  <2>3. \/ rtp' = y
        \/ /\ rtp' = [y EXCEPT !.sei = "prefix", !.sei_at = Len(y.items) - Len(s) + Leading(s)]
           /\ HasVcl(s)
    BY <1>1, <1>5, <2>1 DEF ForwardFrame, SendFrameWithSei
  <2>4. CASE rtp' = y  BY <2>2, <2>4 DEF SeiInPlace
  <2>5. CASE /\ rtp' = [y EXCEPT !.sei = "prefix", !.sei_at = Len(y.items) - Len(s) + Leading(s)]
             /\ HasVcl(s)
    <3>1. PICK m : m = Leading(s)  OBVIOUS
    <3>2. m \in Nat /\ m < Len(s) /\ \A i \in 1..m : ~s[i].vcl  BY <2>2, <2>5, <3>1, LeadingFacts
    <3>3. Len(y.items) - Len(s) + m = m  BY <2>2, <3>2
    <3>4. rtp' = [y EXCEPT !.sei = "prefix", !.sei_at = m]  BY <2>5, <3>1, <3>3
    <3>5. rtp'.ts = q.frame_pts /\ rtp'.items = Whole(q) /\ rtp'.sei = "prefix" /\ rtp'.sei_at = m
      BY <2>2, <3>4 DEF RtpType
    <3>6. ~HasVcl(SubSeq(s, 1, m))
      <4>1. \A i \in DOMAIN SubSeq(s, 1, m) : i \in 1..m /\ SubSeq(s, 1, m)[i] = s[i]  BY <2>2, <3>2
      <4> QED BY <3>2, <4>1 DEF HasVcl
    <3> QED BY <2>2, <3>2, <3>5, <3>6 DEF SeiInPlace
  <2> QED BY <2>3, <2>4, <2>5
<1>6. CASE off # 0
  <2>1. PICK kind : kind = IF vcl THEN "suffix" ELSE "prefix"  OBVIOUS
  <2>2. PICK m \in BOOLEAN : m <=> q.write_off = off  OBVIOUS
  <2>3. PICK p : p = IF sei THEN RtpSendSei(rtp, kind, q.write_off = off) ELSE rtp  OBVIOUS
  <2>4. rtp' = RtpSend(p, q.frame_pts, s, TRUE)  BY <1>1, <1>6, <2>1, <2>3 DEF ForwardFrame
  <2>5. /\ p \in RtpType /\ p.ts = rtp.ts /\ p.items = rtp.items
        /\ p.sei = "none" \/ (p.sei = kind /\ p.sei_at = Len(rtp.items))
    <3>1. Len(rtp.items) \in Nat /\ kind \in {"prefix", "suffix"} /\ rtp.sei = "none"
      BY <1>2, <1>3, <1>4, <1>6, <2>1 DEF RtpType
    <3>2. (q.write_off = off) \in BOOLEAN  OBVIOUS
    <3> QED BY <2>3, <3>1, <3>2 DEF RtpSendSei, RtpType
  <2>6. k > 0 /\ k # 0  BY <1>2, <1>4, <1>6
  <2>7. Split(q, off, k) /\ Holds(p, q, k)  BY <1>3, <2>5, <2>6 DEF Split, Holds
  <2>8. rtp'.ts = q.frame_pts /\ rtp'.items = Whole(q) /\ rtp'.sei = p.sei /\ rtp'.sei_at = p.sei_at
    <3>1. PICK t \in BOOLEAN : t = TRUE  BY Zenon
    <3>2. PICK y : y = RtpSend(p, q.frame_pts, s, t)  OBVIOUS
    <3>3. rtp' = y  BY <2>4, <3>1, <3>2, Zenon
    <3>4. y.ts = q.frame_pts /\ y.items = Whole(q) /\ y.sei = p.sei /\ y.sei_at = p.sei_at
      BY <1>1, <2>5, <2>6, <2>7, <3>2, SendsRest
    <3> QED BY <3>3, <3>4
  <2>9. Len(rtp.items) = k /\ Len(Whole(q)) = Len(q.buf)  BY <1>2, <1>3, <2>6 DEF Whole
  <2>10. HasVcl(SubSeq(Whole(q), 1, k)) <=> vcl
    <3>1. Whole(q) \in Seq(Piece)
      <4>1. \A i \in 1..Len(q.buf) : q.buf[i] \in Placed  BY <1>2
      <4>2. \A i \in 1..Len(q.buf) : q.buf[i].piece \in Piece  BY <4>1 DEF Placed
      <4> QED BY <1>2, <4>2 DEF Whole
    <3>2. DOMAIN SubSeq(Whole(q), 1, k) = 1..k
          /\ \A i \in 1..k : SubSeq(Whole(q), 1, k)[i] = Whole(q)[i]
      BY <1>2, <2>9, <3>1
    <3>3. \A i \in 1..k : Whole(q)[i] = q.buf[i].piece  BY <1>2 DEF Whole
    <3> QED BY <1>3, <3>2, <3>3 DEF HasVcl
  <2>11. kind = "suffix" <=> vcl  BY <2>1
  <2> QED BY <1>2, <2>5, <2>8, <2>9, <2>10, <2>11 DEF SeiInPlace
<1> QED BY <1>5, <1>6

\* What rx has of a frame when a chunk of it is handled: its pieces one behind the other, of which
\* those up to fwd_off went out, not the new one.
LEMMA FeedSent ==
  ASSUME TypeOK, MixInv, OrderInv, ContentInv, MarkInv, FwdWithinBuffer, StartOnce, SentInv, RxVideo
  PROVE  LET c  == Head(link)
             r1 == reassembly_feed(r, c)
         IN  r1.active =>
               /\ Laid(r1) /\ \A i \in DOMAIN r1.buf : r1.buf[i].piece \in Around
               /\ \E k \in 0..(Len(r1.buf) - 1) : SentUpTo(r1, FwdOff(r1, c), FwdVcl(r1, c), rtp, k)
<1>1. PICK c : c = Head(link)  OBVIOUS
<1>2. PICK r1 : r1 = reassembly_feed(r, c)  OBVIOUS
<1>3. c \in Chunk /\ c = link[1] /\ 1 \in DOMAIN link /\ c.codec = "h265"
  <2>1. link \in Seq(Chunk) /\ link # << >> /\ Head(link).codec = "h265"  BY DEF TypeOK, TxTypes, RxVideo
  <2> QED BY <1>1, <2>1
<1>4. c.piece \in Piece /\ c.piece.len \in Nat /\ c.piece.len > 0 /\ c.chunk_idx \in Nat
      /\ c.piece.src \in Nat
  <2>1. link[1].piece.len > 0  BY <1>3 DEF MarkInv
  <2> QED BY <1>3, <2>1 DEF Chunk, Piece
<1>5. r \in Reasm /\ r.buf \in Seq(Placed) /\ r.write_off \in Nat /\ fwd_off \in Nat
      /\ rtp \in RtpType
  BY DEF TypeOK, RxTypes, RtpType, Reasm
<1>6. r1 \in Reasm /\ (Refuses(r, r1) \/ Takes(r, c, r1))  BY <1>2, <1>3, <1>5, FeedFacts
<1>7. r1.active =>
        \/ r1.frame_pts = c.frame_pts /\ r1.buf = <<[at |-> 0, piece |-> c.piece]>>
           /\ r1.write_off = c.piece.len /\ c.chunk_idx = 0
        \/ r.active /\ r1.frame_pts = r.frame_pts
           /\ r1.buf = Append(r.buf, [at |-> r.write_off, piece |-> c.piece])
           /\ r1.write_off = r.write_off + c.piece.len
  BY <1>2, <1>3, <1>5, FeedOrder
<1>8. SUFFICES ASSUME r1.active
               PROVE  Laid(r1) /\ \E k \in 0..(Len(r1.buf) - 1) :
                                     SentUpTo(r1, FwdOff(r1, c), FwdVcl(r1, c), rtp, k)
  <2>1. r1.active => \A i \in DOMAIN r1.buf : r1.buf[i].piece \in Around
    BY <1>1, <1>2, FeedAround
  <2> QED BY <1>1, <1>2, <2>1
<1>9. Taken(r1, c) /\ Takes(r, c, r1)  BY <1>6, <1>8 DEF Refuses, Takes, Taken
<1>10. CASE /\ r1.frame_pts = c.frame_pts /\ r1.buf = <<[at |-> 0, piece |-> c.piece]>>
            /\ r1.write_off = c.piece.len /\ c.chunk_idx = 0
  <2>1. PICK h : h = [at |-> 0, piece |-> c.piece]  OBVIOUS
  <2>2. r1.buf = <<h>> /\ h.at = 0  BY <1>10, <2>1
  <2>3. DOMAIN r1.buf = {1} /\ r1.buf[1] = h /\ Len(r1.buf) = 1 /\ r1.buf # << >>  BY <2>2
  <2>4. Laid(r1)  BY <1>4, <1>10, <2>2, <2>3 DEF Laid
  <2>5. FwdOff(r1, c) = 0 /\ FwdVcl(r1, c) = FALSE  BY <1>9, <1>10 DEF FwdOff, FwdVcl, StartsFrame
  <2>6. r1.frame_pts = c.piece.src /\ Shown < c.piece.src
    BY <1>3, <1>10 DEF OrderInv, LinkOrder, Underway
  <2>7. ASSUME c.piece.src \notin torn PROVE rtp.ts # c.piece.src
    <3>1. c.piece \in Around  BY <1>3 DEF Around
    <3>2. c.piece.idx = 0  BY <1>3, <1>10 DEF MixInv, LinkInv, Stamped
    <3>3. c.piece.off = 0  BY <2>7, <3>1, <3>2 DEF ContentInv, Joined
    <3>4. CASE rtp.items = << >>
      <4>1. rtp.ts = 0  BY <3>4 DEF SentInv
      <4>2. Shown \in Nat  BY OrderTypes
      <4> QED BY <1>4, <2>6, <4>1, <4>2
    <3>5. CASE rtp.items # << >>
      <4>1. rtp.ts \in Started  BY <3>5 DEF Started
      <4>2. rtp.ts = c.piece.src => c.piece.off > 0  BY <1>3, <4>1 DEF StartOnce
      <4> QED BY <3>3, <4>2
    <3> QED BY <3>4, <3>5
  <2>8. SentUpTo(r1, 0, FALSE, rtp, 0)
    <3>1. 0 \in 0..Len(r1.buf) /\ ~(0 > 0)  BY <2>3
    <3>2. \A i \in DOMAIN r1.buf : r1.buf[i].at < 0 <=> i <= 0  BY <2>2, <2>3
    <3>3. ~\E i \in 1..0 : r1.buf[i].piece.vcl  OBVIOUS
    <3> QED BY <2>6, <2>7, <3>1, <3>2, <3>3 DEF SentUpTo
  <2>9. 0 \in 0..(Len(r1.buf) - 1)  BY <2>3
  <2>10. SentUpTo(r1, FwdOff(r1, c), FwdVcl(r1, c), rtp, 0)  BY <2>5, <2>8, Zenon
  <2> QED BY <2>4, <2>9, <2>10
<1>11. CASE /\ r.active /\ r1.frame_pts = r.frame_pts
            /\ r1.buf = Append(r.buf, [at |-> r.write_off, piece |-> c.piece])
            /\ r1.write_off = r.write_off + c.piece.len
  <2>1. PICK h : h = [at |-> r.write_off, piece |-> c.piece]  OBVIOUS
  <2>2. PICK n : n = Len(r.buf)  OBVIOUS
  <2>3. h.at = r.write_off /\ h.piece = c.piece /\ r1.buf = Append(r.buf, h)  BY <1>11, <2>1
  <2>4. h \in Placed  BY <1>4, <1>5, <2>1 DEF Placed
  <2>5. n \in Nat \ {0} /\ DOMAIN r.buf = 1..n /\ Laid(r)
    BY <1>5, <1>11, <2>2 DEF SentInv, Laid
  <2>6. DOMAIN r1.buf = 1..(n + 1) /\ Len(r1.buf) = n + 1 /\ r1.buf[n + 1] = h
        /\ \A i \in 1..n : r1.buf[i] = r.buf[i]
    BY <1>5, <2>2, <2>3, <2>4, <2>5
  <2>7. c.chunk_idx # 0
    <3>1. r.next_chunk_idx = n  BY <1>11, <2>2 DEF MixInv, BufInv
    <3>2. CASE r.next_chunk_idx = c.chunk_idx  BY <2>5, <3>1, <3>2
    <3>3. CASE r1.buf = <<[at |-> 0, piece |-> c.piece]>>
      <4>1. Len(r1.buf) = 1  BY <3>3
      <4> QED BY <2>5, <2>6, <4>1
    <3> QED BY <1>9, <3>2, <3>3 DEF Takes
  <2>8. FwdOff(r1, c) = fwd_off /\ FwdVcl(r1, c) = fwd_vcl
    BY <2>7 DEF FwdOff, FwdVcl, StartsFrame
  <2>9. \A i \in 1..n : r.buf[i].at \in Nat /\ r.buf[i].at < r.write_off
    <3>1. \A i \in 1..n : r.buf[i] \in Placed  BY <1>5, <2>2
    <3>2. \A i \in 1..n : r.buf[i].at \in Nat  BY <3>1 DEF Placed
    <3> QED BY <2>5, <3>2 DEF Laid
  <2>10. r.write_off < r1.write_off /\ r1.write_off \in Nat  BY <1>4, <1>5, <1>11
  <2>11. Laid(r1)
    <3>1. r1.buf # << >> /\ r1.buf[1].at = 0  BY <2>5, <2>6 DEF Laid
    <3>2. ASSUME NEW i \in 1..(n + 1) PROVE r1.buf[i].at < r1.write_off
      <4>1. CASE i \in 1..n  BY <1>5, <2>6, <2>9, <2>10, <4>1
      <4>2. CASE i = n + 1  BY <1>5, <2>3, <2>6, <2>10, <4>2
      <4> QED BY <2>5, <4>1, <4>2
    <3>3. ASSUME NEW i \in 1..(n + 1), NEW j \in 1..(n + 1), i < j PROVE r1.buf[i].at < r1.buf[j].at
      <4>1. i \in 1..n  BY <2>5, <3>3
      <4>2. CASE j \in 1..n  BY <2>5, <2>6, <3>3, <4>1, <4>2 DEF Laid
      <4>3. CASE j = n + 1  BY <2>3, <2>6, <2>9, <4>1, <4>3
      <4> QED BY <2>5, <4>2, <4>3
    <3> QED BY <2>6, <3>1, <3>2, <3>3 DEF Laid
  <2>12. PICK k \in 0..n : SentUpTo(r, fwd_off, fwd_vcl, rtp, k)
    BY <1>11, <2>2 DEF SentInv
  <2>13. k \in Nat /\ k <= n /\ k \in 0..(Len(r1.buf) - 1) /\ k \in 0..Len(r1.buf)  BY <2>5, <2>6
  <2>14. \A i \in DOMAIN r1.buf : r1.buf[i].at < fwd_off <=> i <= k
    <3>1. ASSUME NEW i \in 1..n PROVE r1.buf[i].at < fwd_off <=> i <= k
      <4>1. r1.buf[i] = r.buf[i] /\ i \in DOMAIN r.buf  BY <2>5, <2>6
      <4>2. r.buf[i].at < fwd_off <=> i <= k  BY <2>12, <4>1 DEF SentUpTo
      <4> QED BY <4>1, <4>2
    <3>2. ~(r1.buf[n + 1].at < fwd_off) /\ ~(n + 1 <= k)
      <4>1. fwd_off <= r.write_off  BY <1>11 DEF FwdWithinBuffer
      <4> QED BY <1>5, <2>3, <2>5, <2>6, <2>13, <4>1
    <3>3. \A i \in 1..(n + 1) : i \in 1..n \/ i = n + 1  BY <2>5
    <3> QED BY <2>6, <3>1, <3>2, <3>3
  <2>15. \A i \in 1..k : r1.buf[i] = r.buf[i]
    <3>1. \A i \in 1..k : i \in 1..n  BY <2>5, <2>13
    <3> QED BY <2>6, <3>1
  <2>16. SentUpTo(r1, fwd_off, fwd_vcl, rtp, k)
    <3>1. fwd_vcl <=> \E i \in 1..k : r1.buf[i].piece.vcl
      <4>1. fwd_vcl <=> \E i \in 1..k : r.buf[i].piece.vcl  BY <2>12 DEF SentUpTo
      <4> QED BY <2>15, <4>1
    <3>2. r1.frame_pts \notin torn /\ k = 0 => rtp.ts # r1.frame_pts  BY <1>11, <2>12 DEF SentUpTo
    <3>3. ASSUME r1.frame_pts \notin torn, k > 0
          PROVE  rtp.ts = r1.frame_pts /\ rtp.sei = "none" /\ rtp.items = [i \in 1..k |-> r1.buf[i].piece]
      <4>1. rtp.ts = r.frame_pts /\ rtp.sei = "none" /\ rtp.items = [i \in 1..k |-> r.buf[i].piece]
        BY <1>11, <2>12, <3>3 DEF SentUpTo
      <4>2. [i \in 1..k |-> r.buf[i].piece] = [i \in 1..k |-> r1.buf[i].piece]  BY <2>15
      <4> QED BY <1>11, <4>1, <4>2
    <3> QED BY <2>13, <2>14, <3>1, <3>2, <3>3 DEF SentUpTo
  <2> QED BY <2>8, <2>11, <2>13, <2>16
<1> QED BY <1>7, <1>8, <1>10, <1>11

\* Something sent under a timestamp stands in the stream under it.
LEMMA SendsSome ==
  ASSUME NEW p \in RtpType, NEW ts \in Nat, NEW s \in Seq(Piece), s # << >>, NEW m
  PROVE  LET y == RtpSend(p, ts, s, m) IN y.ts = ts /\ y.items # << >> /\ y.marked = m
<1> DEFINE y == RtpSend(p, ts, s, m)
<1>1. CASE p.ts = ts
  <2>1. PICK b : b = p.items \o s  OBVIOUS
  <2>2. y = [p EXCEPT !.items = b, !.marked = m]  BY <1>1, <2>1 DEF RtpSend
  <2> HIDE DEF y
  <2>3. y.ts = p.ts /\ y.items = b  BY <2>2 DEF RtpType
  <2>4. y.marked = m  BY <2>2 DEF RtpType
  <2>5. b # << >>
    <3>1. p.items \in Seq(Piece)  BY DEF RtpType
    <3>2. Len(b) = Len(p.items) + Len(s) /\ Len(s) > 0 /\ Len(p.items) >= 0  BY <2>1, <3>1
    <3> QED BY <3>1, <3>2
  <2> QED BY <1>1, <2>3, <2>4, <2>5 DEF y
<1>2. CASE p.ts # ts
  <2>1. y = [ts |-> ts, items |-> s, marked |-> m, sei |-> "none", sei_at |-> 0]  BY <1>2 DEF RtpSend
  <2> HIDE DEF y
  <2>2. y.ts = ts /\ y.items = s  BY <2>1
  <2>3. y.marked = m  BY <2>1
  <2> QED BY <2>2, <2>3 DEF y
<1> QED BY <1>1, <1>2

\* A complete frame goes out under its timestamp, torn or not.
LEMMA FrameSome ==
  ASSUME rtp \in RtpType, NEW q \in Reasm, NEW off \in Nat, NEW vcl \in BOOLEAN, NEW sei \in BOOLEAN,
         PiecesFrom(q, off) # << >>, ForwardFrame(q, off, vcl, sei)
  PROVE  rtp'.ts = q.frame_pts /\ rtp'.items # << >>
<1>1. PICK s : s = PiecesFrom(q, off)  OBVIOUS
<1>2. s \in Seq(Piece) /\ s # << >> /\ q.frame_pts \in Nat  BY <1>1, PiecesFromType DEF Reasm
<1>3. PICK t \in BOOLEAN : t = TRUE  BY Zenon
<1>4. CASE off = 0
  <2>1. PICK y : y = RtpSend(rtp, q.frame_pts, s, t)  OBVIOUS
  <2>2. y \in RtpType /\ y.ts = q.frame_pts /\ y.items # << >>
    <3>1. y \in RtpType  BY <1>2, <2>1, RtpSendType
    <3>2. y.ts = q.frame_pts /\ y.items # << >>  BY <1>2, <2>1, SendsSome
    <3> QED BY <3>1, <3>2
  <2>3. y = RtpSend(rtp, q.frame_pts, s, TRUE)  BY <1>3, <2>1, Zenon
  <2>4. PICK at : at = Len(y.items) - Len(s) + Leading(s)  OBVIOUS
  <2>5. rtp' = y \/ rtp' = [y EXCEPT !.sei = "prefix", !.sei_at = at]
    BY <1>1, <1>4, <2>3, <2>4 DEF ForwardFrame, SendFrameWithSei
  <2> QED BY <2>2, <2>5 DEF RtpType
<1>5. CASE off # 0
  <2>1. PICK kind : kind = IF vcl THEN "suffix" ELSE "prefix"  OBVIOUS
  <2>2. PICK p : p = IF sei THEN RtpSendSei(rtp, kind, q.write_off = off) ELSE rtp  OBVIOUS
  <2>3. rtp' = RtpSend(p, q.frame_pts, s, TRUE)  BY <1>1, <1>5, <2>1, <2>2 DEF ForwardFrame
  <2>4. p \in RtpType
    <3>1. Len(rtp.items) \in Nat /\ kind \in {"prefix", "suffix"}  BY <2>1 DEF RtpType
    <3>2. (q.write_off = off) \in BOOLEAN  OBVIOUS
    <3> QED BY <2>2, <3>1, <3>2 DEF RtpSendSei, RtpType
  <2>5. PICK y : y = RtpSend(p, q.frame_pts, s, t)  OBVIOUS
  <2>6. rtp' = y  BY <1>3, <2>3, <2>5, Zenon
  <2>7. y.ts = q.frame_pts /\ y.items # << >>  BY <1>2, <2>4, <2>5, SendsSome
  <2> QED BY <2>6, <2>7
<1> QED BY <1>4, <1>5

\* What a video chunk does to the stream: nothing, or all that the buffer holds by then has gone
\* out; with a marker only when the frame is complete.
LEMMA RxVideoSends ==
  ASSUME TypeOK, TypeOK', MixInv, OrderInv, ContentInv, MarkInv, FwdWithinBuffer, StartOnce, SentInv,
         RxVideo, NEW c, c = Head(link), NEW r1, r1 = reassembly_feed(r, c)
  PROVE  /\ r'.active => r' = r1 /\ \E k \in 0..Len(r1.buf) : SentUpTo(r1, fwd_off', fwd_vcl', rtp', k)
         /\ \/ rtp' = rtp /\ got' = got
            \/ /\ r1.active /\ rtp'.ts = r1.frame_pts /\ rtp'.items # << >>
               /\ r1.frame_pts \notin torn => /\ rtp'.items = Whole(r1) /\ SeiInPlace(rtp')
                                              /\ rtp'.marked => got' = Whole(r1)
<1>1. c \in Chunk
  <2>1. link \in Seq(Chunk) /\ link # << >>  BY DEF TypeOK, TxTypes, RxVideo
  <2> QED BY <2>1
<1>2. r \in Reasm /\ fwd_off \in Nat /\ fwd_vcl \in BOOLEAN /\ rtp \in RtpType
      /\ r.completed_frames \in Nat
  BY DEF TypeOK, RxTypes, RtpType, Reasm
<1>3. r1 \in Reasm /\ (Refuses(r, r1) \/ Takes(r, c, r1))
      /\ r1.completed_frames \in {r.completed_frames, r.completed_frames + 1}
  BY <1>1, <1>2, FeedFacts
<1>4. PICK off0 : off0 = FwdOff(r1, c)  OBVIOUS
<1>5. PICK vcl0 : vcl0 = FwdVcl(r1, c)  OBVIOUS
<1>6. off0 \in Nat /\ vcl0 \in BOOLEAN  BY <1>2, <1>4, <1>5 DEF FwdOff, FwdVcl
<1>7. r1.active => /\ Laid(r1)
                   /\ \E k \in 0..(Len(r1.buf) - 1) : SentUpTo(r1, off0, vcl0, rtp, k)
  BY <1>4, <1>5, FeedSent
<1>8. \/ /\ r' = r1 /\ ForwardSlice(r1, c, off0, vcl0) /\ got' = got
      \/ /\ r1.completed_frames > r.completed_frames /\ r' = reassembly_reset(r1)
         /\ \E sei \in BOOLEAN : ForwardFrame(r1, off0, vcl0, sei)
         /\ got' = [i \in DOMAIN r1.buf |-> r1.buf[i].piece]
  BY <1>4, <1>5 DEF RxVideo
<1>9. r1.buf \in Seq(Placed) /\ r1.write_off \in Nat /\ r1.frame_pts \in Nat  BY <1>3 DEF Reasm
<1>10. CASE r' = r1 /\ ForwardSlice(r1, c, off0, vcl0) /\ got' = got /\ ~r1.active
  <2>1. rtp' = rtp  BY <1>10 DEF ForwardSlice, Taken
  <2> QED BY <1>10, <2>1
<1>11. CASE r' = r1 /\ ForwardSlice(r1, c, off0, vcl0) /\ got' = got /\ r1.active
  <2>1. PICK k \in 0..(Len(r1.buf) - 1) : SentUpTo(r1, off0, vcl0, rtp, k)  BY <1>7, <1>11
  <2>2. k \in 0..Len(r1.buf) /\ Laid(r1) /\ k \in Nat  BY <1>7, <1>9, <1>11
  <2>3. PICK s : s = PiecesFrom(r1, off0)  OBVIOUS
  <2>4. \/ rtp' = rtp /\ fwd_off' = off0 /\ fwd_vcl' = vcl0
        \/ /\ r1.write_off > off0 /\ fwd_off' = r1.write_off
           /\ rtp' = RtpSend(rtp, r1.frame_pts, s, FALSE)
           /\ fwd_vcl' = (vcl0 \/ HasVcl(s))
    BY <1>11, <2>3 DEF ForwardSlice
  <2>5. CASE rtp' = rtp /\ fwd_off' = off0 /\ fwd_vcl' = vcl0
    <3>1. SentUpTo(r1, fwd_off', fwd_vcl', rtp', k)  BY <2>1, <2>5, Zenon
    <3> QED BY <1>11, <2>2, <2>5, <3>1
  <2>6. CASE /\ r1.write_off > off0 /\ fwd_off' = r1.write_off
             /\ rtp' = RtpSend(rtp, r1.frame_pts, s, FALSE)
             /\ fwd_vcl' = (vcl0 \/ HasVcl(s))
    <3>1. PICK n : n = Len(r1.buf)  OBVIOUS
    <3>2. n \in Nat \ {0} /\ DOMAIN r1.buf = 1..n /\ n \in 0..Len(r1.buf) /\ k < n  BY <1>9, <2>2, <3>1 DEF Laid
    <3>3. /\ \A i \in DOMAIN r1.buf : r1.buf[i].at < off0 <=> i <= k
          /\ vcl0 <=> \E i \in 1..k : r1.buf[i].piece.vcl
          /\ r1.frame_pts \notin torn => /\ k = 0 => rtp.ts # r1.frame_pts
                                         /\ k > 0 => rtp.ts = r1.frame_pts /\ rtp.sei = "none"
                                              /\ rtp.items = [i \in 1..k |-> r1.buf[i].piece]
      BY <2>1 DEF SentUpTo
    <3>4. s = [i \in 1..(n - k) |-> r1.buf[k + i].piece]
      BY <1>3, <1>6, <2>2, <2>3, <2>6, <3>1, <3>3, RestOfBuffer
    <3>5. s \in Seq(Piece) /\ s # << >>
      <4>1. s \in Seq(Piece)  BY <1>3, <1>6, <2>3, PiecesFromType
      <4>2. 1 \in DOMAIN s  BY <3>2, <3>4
      <4> QED BY <4>1, <4>2
    <3>6. PICK f \in BOOLEAN : f = FALSE  BY Zenon
    <3>7. PICK y : y = RtpSend(rtp, r1.frame_pts, s, f)  OBVIOUS
    <3>8. rtp' = y  BY <2>6, <3>6, <3>7, Zenon
    <3>9. rtp'.ts = r1.frame_pts /\ rtp'.items # << >> /\ rtp'.marked = f
      BY <1>2, <1>9, <3>5, <3>7, <3>8, SendsSome
    <3>10. ASSUME r1.frame_pts \notin torn PROVE rtp'.items = Whole(r1) /\ rtp'.sei = "none"
      <4>1. /\ k = 0 => rtp.ts # r1.frame_pts
            /\ k > 0 => rtp.ts = r1.frame_pts /\ rtp.items = [i \in 1..k |-> r1.buf[i].piece]
            /\ k > 0 => rtp.sei = "none"
        BY <3>3, <3>10
      <4>2. Split(r1, off0, k) /\ Holds(rtp, r1, k)  BY <3>3, <4>1 DEF Split, Holds
      <4>3. /\ y.items = Whole(r1) /\ (k > 0 => y.sei = rtp.sei)
            /\ k > 0 \/ y.sei = "none"
        BY <1>2, <1>3, <1>6, <2>2, <2>3, <3>7, <4>2, SendsRest
      <4> QED BY <3>8, <4>1, <4>3
    <3>11. fwd_vcl' <=> \E i \in 1..n : r1.buf[i].piece.vcl
      <4>1. HasVcl(s) <=> \E i \in 1..(n - k) : r1.buf[k + i].piece.vcl  BY <3>4 DEF HasVcl
      <4>2. fwd_vcl' <=> vcl0 \/ HasVcl(s)  BY <2>6
      <4>3. ASSUME NEW i \in 1..n PROVE i \in 1..k \/ (i - k \in 1..(n - k) /\ k + (i - k) = i)
        BY <2>2, <3>2
      <4>4. \A i \in 1..k : i \in 1..n  BY <2>2, <3>2
      <4>5. \A i \in 1..(n - k) : k + i \in 1..n  BY <2>2, <3>2
      <4> QED BY <3>3, <4>1, <4>2, <4>3, <4>4, <4>5
    <3>12. \A i \in DOMAIN r1.buf : r1.buf[i].at < fwd_off' <=> i <= n
      BY <2>2, <2>6, <3>2 DEF Laid
    <3>13. SentUpTo(r1, fwd_off', fwd_vcl', rtp', n)
      <4>1. n # 0 /\ n > 0  BY <3>2
      <4>2. r1.frame_pts \notin torn => rtp'.items = [i \in 1..n |-> r1.buf[i].piece]
        BY <3>1, <3>10 DEF Whole
      <4> QED BY <3>2, <3>9, <3>10, <3>11, <3>12, <4>1, <4>2 DEF SentUpTo
    <3>14. ~rtp'.marked  BY <3>6, <3>9, Zenon
    <3>15. r1.frame_pts \notin torn => SeiInPlace(rtp')  BY <3>10 DEF SeiInPlace
    <3> QED BY <1>11, <3>2, <3>9, <3>10, <3>13, <3>14, <3>15
  <2> QED BY <2>4, <2>5, <2>6
<1>12. CASE /\ r1.completed_frames > r.completed_frames /\ r' = reassembly_reset(r1)
            /\ \E sei \in BOOLEAN : ForwardFrame(r1, off0, vcl0, sei)
            /\ got' = [i \in DOMAIN r1.buf |-> r1.buf[i].piece]
  <2>1. r1.active /\ ~r'.active
    <3>1. r1.active  BY <1>2, <1>3, <1>12 DEF Refuses, Takes
    <3>2. ~r'.active  BY <1>3, <1>12, ResetFacts
    <3> QED BY <3>1, <3>2
  <2>2. PICK k \in 0..(Len(r1.buf) - 1) : SentUpTo(r1, off0, vcl0, rtp, k)  BY <1>7, <2>1
  <2>3. PICK sei \in BOOLEAN : ForwardFrame(r1, off0, vcl0, sei)  BY <1>12
  <2>4. Laid(r1)  BY <1>7, <2>1
  <2>5. got' = Whole(r1)  BY <1>9, <1>12 DEF Whole
  <2>6. r1.frame_pts \notin torn => rtp'.items = Whole(r1) /\ SeiInPlace(rtp')
    BY <1>2, <1>3, <1>6, <2>2, <2>3, <2>4, FrameOut
  <2>7. PiecesFrom(r1, off0) # << >>
    <3>1. PICK n : n = Len(r1.buf)  OBVIOUS
    <3>2. n \in Nat \ {0} /\ DOMAIN r1.buf = 1..n /\ n \in DOMAIN r1.buf /\ ~(n <= k) /\ r1.buf # << >>
      BY <1>9, <2>4, <3>1 DEF Laid
    <3>3. ~(r1.buf[n].at < off0) /\ r1.buf[n].at < r1.write_off
      BY <2>2, <2>4, <3>2 DEF SentUpTo, Laid
    <3>4. r1.buf[n] \in Placed  BY <1>9, <3>2
    <3>5. r1.buf[n].at \in Nat  BY <3>4 DEF Placed
    <3>6. r1.buf[n].at >= off0 /\ r1.write_off > off0  BY <1>6, <1>9, <3>3, <3>5
    <3> QED BY <1>3, <1>6, <3>1, <3>2, <3>6, RestNotEmpty
  <2>8. rtp'.ts = r1.frame_pts /\ rtp'.items # << >>  BY <1>2, <1>3, <1>6, <2>3, <2>7, FrameSome
  <2> QED BY <2>1, <2>5, <2>6, <2>8
<1> QED BY <1>8, <1>10, <1>11, <1>12

-----------------------------------------------------------------------------
(* StartOnce *)

\* Losing things starts nothing.
LEMMA LossStarts ==
  ASSUME TypeOK, TypeOK', StartOnce, NEW d \in Nat, Loses(d), enc_off' = enc_off, rtp' = rtp
  PROVE  StartOnce'
<1>1. encoded' = encoded /\ slices' \in {slices, << >>} /\ ring' \in {ring, << >>}
      /\ call'.run \in {call.run, << >>} /\ Started' = Started
  BY DEF Loses, Started
<1>2. \A k \in DOMAIN ring' : k \in DOMAIN ring /\ ring'[k] = ring[k]  BY <1>1
<1>3. \A i \in DOMAIN call'.run : i \in DOMAIN call.run /\ call'.run[i] = call.run[i]  BY <1>1
<1>4. \A i \in DOMAIN link' : link'[i].codec = "h265" =>
        i \in Nat /\ i + d \in DOMAIN link /\ link'[i] = link[i + d]
  <2>1. link' \in Seq(Chunk)  BY DEF TypeOK, TxTypes
  <2> QED BY <2>1 DEF Loses
<1>5. \A pts : Begun(pts) => Begun(pts)'  BY <1>2, <1>3 DEF Begun
<1>6. slices' # << >> => enc_off' > 0  BY <1>1 DEF StartOnce
<1>7. \A j, k \in DOMAIN ring' : j < k /\ ring'[j].pts = ring'[k].pts => ring'[k].off > 0
  BY <1>2 DEF StartOnce
<1>8. \A i \in DOMAIN call'.run :
        /\ \A k \in DOMAIN ring' : ring'[k].pts = call'.run[i].piece.src => ring'[k].off > 0
        /\ \A j \in DOMAIN call'.run :
             i < j /\ call'.run[j].piece.src = call'.run[i].piece.src => call'.run[j].piece.off > 0
  BY <1>2, <1>3 DEF StartOnce
<1>9. ASSUME NEW i \in DOMAIN link', link'[i].codec = "h265"
      PROVE  /\ Begun(link'[i].piece.src)
             /\ \A j \in DOMAIN link' :
                  i < j /\ link'[j].codec = "h265" /\ link'[j].piece.src = link'[i].piece.src
                  => link'[j].piece.off > 0
  <2>1. i \in Nat /\ i + d \in DOMAIN link /\ link'[i] = link[i + d]  BY <1>4, <1>9
  <2>2. ASSUME NEW j \in DOMAIN link', i < j, link'[j].codec = "h265",
               link'[j].piece.src = link'[i].piece.src
        PROVE  link'[j].piece.off > 0
    <3>1. j \in Nat /\ j + d \in DOMAIN link /\ link'[j] = link[j + d]  BY <1>4, <2>2
    <3>2. i + d < j + d  BY <2>1, <2>2, <3>1
    <3> QED BY <1>9, <2>1, <2>2, <3>1, <3>2 DEF StartOnce
  <2> QED BY <1>9, <2>1, <2>2 DEF StartOnce
<1>10. ASSUME NEW pts \in Started
       PROVE  /\ pts <= encoded /\ Begun(pts)
              /\ \A j \in DOMAIN link' :
                   link'[j].codec = "h265" /\ link'[j].piece.src = pts => link'[j].piece.off > 0
  <2>1. \A j \in DOMAIN link' : link'[j].codec = "h265" =>
          \E m \in DOMAIN link : link'[j] = link[m]  BY <1>4
  <2> QED BY <2>1 DEF StartOnce
<1>11. \A i \in DOMAIN link' : link'[i].codec = "h265" =>
         \A pts : pts = link'[i].piece.src => Begun(pts)'
  BY <1>5, <1>9
<1>12. \A i \in DOMAIN link' : link'[i].codec = "h265" => Begun(link[i].piece.src)'
  BY <1>11
<1> QED BY <1>1, <1>5, <1>6, <1>7, <1>8, <1>9, <1>10, <1>12 DEF StartOnce

\* Nor do the steps that lose things.
LEMMA QuietStarts ==
  ASSUME TypeOK, TypeOK', StartOnce,
         \/ EncoderRestart \/ OutqPush \/ TxWriteFails \/ TxReturn \/ TxTimeout \/ TxReconnect
         \/ TxRestart \/ LinkLose \/ RxAux \/ UNCHANGED vars
  PROVE  StartOnce'
<1>1. PICK d \in Nat : Loses(d)  BY QuietLoses
<1>2. enc_off' = enc_off /\ rtp' = rtp
  BY DEF EncoderRestart, OutqPush, TxWriteFails, TxReturn, TxTimeout, TxReconnect, TxRestart,
         LinkLose, RxAux, vars, encVars, rxVars
<1> QED BY <1>1, <1>2, LossStarts

\* The encoder starts each source frame once.
LEMMA PublishStarts ==
  ASSUME TypeOK, OrderInv, StartOnce, NEW pts \in Nat, NEW rest \in Seq([len: Nat, vcl: BOOLEAN]),
         rest # << >>, rest[1].len > 0, NEW off \in Nat, Publish(pts, rest, off),
         (pts = encoded + 1 /\ slices = << >>) \/ (pts = encoded /\ off > 0)
  PROVE  StartOnce'
<1>1. PICK e : e = [pts |-> pts, off |-> off, len |-> Head(rest).len,
                    partial |-> Len(rest) > 1, vcl |-> Head(rest).vcl]
  OBVIOUS
<1>2. encoded' = pts /\ call' = call /\ link' = link /\ r' = r /\ rtp' = rtp
  BY DEF Publish, txVars, rxVars
<1>3. \/ ring' = Append(ring, e) /\ enc_off' = off + Head(rest).len
      \/ ring' = ring /\ slices' = << >>
  BY <1>1 DEF Publish
<1>4. encoded \in Nat /\ ring \in Seq(Entry)  BY DEF TypeOK, EncTypes
<1>5. slices' # << >> => enc_off' > 0
  <2>1. Head(rest) = rest[1] /\ rest[1] \in [len: Nat, vcl: BOOLEAN]  BY SeqFacts
  <2>2. off + Head(rest).len > 0  BY <2>1
  <2> QED BY <1>3, <2>2
<1>6. e.pts = pts /\ e.off = off /\ e \in Entry
  <2>1. Head(rest) \in [len: Nat, vcl: BOOLEAN]  BY SeqFacts
  <2> QED BY <1>1, <2>1 DEF Entry
<1>7. \A k \in DOMAIN ring' : \/ k \in DOMAIN ring /\ ring'[k] = ring[k]
                              \/ ring'[k] = e /\ k \notin DOMAIN ring
  <2>1. CASE ring' = Append(ring, e)
    <3>1. DOMAIN ring' = 1..(Len(ring) + 1) /\ DOMAIN ring = 1..Len(ring) /\ Len(ring) \in Nat
          /\ ring'[Len(ring) + 1] = e /\ \A i \in 1..Len(ring) : ring'[i] = ring[i]
      BY <1>4, <1>6, <2>1
    <3>2. \A k \in 1..(Len(ring) + 1) : k \in 1..Len(ring) \/ k = Len(ring) + 1  BY <3>1
    <3>3. Len(ring) + 1 \notin 1..Len(ring)  BY <3>1
    <3> QED BY <3>1, <3>2, <3>3
  <2> QED BY <1>3, <2>1
<1>8. ASSUME NEW p \in Nat, p <= encoded, p = pts PROVE off > 0  BY <1>4, <1>8
<1>9. \A p \in Nat : p <= encoded /\ Begun(p) => Begun(p)'
  BY <1>2, <1>6, <1>7, <1>8 DEF Begun
<1>10. \A p \in Nat : p <= encoded => p <= pts  BY <1>4
<1>11. ASSUME NEW j \in DOMAIN ring', NEW k \in DOMAIN ring', j < k, ring'[j].pts = ring'[k].pts
       PROVE  ring'[k].off > 0
  <2>1. j \in DOMAIN ring /\ ring'[j] = ring[j]
    <3>1. CASE ring' = ring  BY <3>1
    <3>2. CASE ring' = Append(ring, e)
      <4>1. DOMAIN ring' = 1..(Len(ring) + 1) /\ DOMAIN ring = 1..Len(ring) /\ Len(ring) \in Nat
        BY <1>4, <1>6, <3>2
      <4>2. j \in 1..Len(ring)  BY <1>11, <4>1
      <4> QED BY <1>7, <4>1, <4>2
    <3> QED BY <1>3, <3>1, <3>2
  <2>2. CASE k \in DOMAIN ring /\ ring'[k] = ring[k]  BY <1>11, <2>1, <2>2 DEF StartOnce
  <2>3. CASE ring'[k] = e
    <3>1. ring[j].pts \in Nat /\ ring[j].pts <= encoded
      BY <2>1, OrderTypes DEF OrderInv, RingOrder
    <3> QED BY <1>6, <1>8, <1>11, <2>1, <2>3, <3>1
  <2> QED BY <1>7, <2>2, <2>3
<1>12. ASSUME NEW i \in DOMAIN call.run
       PROVE  /\ \A k \in DOMAIN ring' : ring'[k].pts = call.run[i].piece.src => ring'[k].off > 0
              /\ \A j \in DOMAIN call.run :
                   i < j /\ call.run[j].piece.src = call.run[i].piece.src => call.run[j].piece.off > 0
  <2>1. call.run[i].piece.src \in Nat /\ call.run[i].piece.src <= encoded
    BY OrderTypes DEF OrderInv, RunOrder, Underway
  <2> QED BY <1>6, <1>7, <1>8, <2>1 DEF StartOnce
<1>13. ASSUME NEW i \in DOMAIN link, link[i].codec = "h265"
       PROVE  Begun(link[i].piece.src)'
  <2>1. PICK p : p = link[i].piece.src  OBVIOUS
  <2>2. p \in Nat /\ p <= encoded /\ Begun(p)
    BY <1>13, <2>1, OrderTypes DEF OrderInv, LinkOrder, Underway, StartOnce
  <2>3. Begun(p)'  BY <1>9, <2>2
  <2>4. p = link'[i].piece.src  BY <1>2, <2>1
  <2> QED BY <2>3, <2>4
<1>14. ASSUME NEW p \in Started PROVE p <= pts /\ Begun(p)'
  <2>1. p \in Nat
    <3>1. r.frame_pts \in Nat /\ rtp.ts \in Nat  BY DEF TypeOK, RxTypes, Reasm
    <3> QED BY <3>1 DEF Started
  <2>2. p <= encoded /\ Begun(p)  BY DEF StartOnce
  <2> QED BY <1>9, <1>10, <2>1, <2>2
<1>15. Started' = Started  BY <1>2 DEF Started
<1> QED BY <1>2, <1>5, <1>11, <1>12, <1>13, <1>14, <1>15 DEF StartOnce

\* Nothing is started when the loops start.
LEMMA InitStarts == Init => StartOnce /\ SentInv
<1> SUFFICES ASSUME Init PROVE StartOnce /\ SentInv  OBVIOUS
<1>1. slices = << >> /\ ring = << >> /\ link = << >> /\ call.run = << >> /\ ~r.active
      /\ rtp.items = << >> /\ rtp.ts = 0
  BY DEF Init, NoCall, reassembly_init
<1>2. Started = {}  BY <1>1 DEF Started
<1> QED BY <1>1, <1>2 DEF StartOnce, SentInv

\* Cutting an entry starts its frame only with its first chunk.
LEMMA TxReadStarts ==
  ASSUME TypeOK, TypeOK', MarkInv', StartOnce, TxRead
  PROVE  StartOnce'
<1>1. slices' = slices /\ enc_off' = enc_off /\ encoded' = encoded /\ link' = link /\ r' = r /\ rtp' = rtp
      /\ ring' = Tail(ring) /\ ring # << >>
  BY DEF TxRead, encVars, rxVars
<1>2. PICK e : e = Head(ring)  OBVIOUS
<1>3. e = ring[1] /\ 1 \in DOMAIN ring /\ e \in Entry
      /\ \A k \in DOMAIN ring' : k \in Nat /\ k + 1 \in DOMAIN ring /\ ring'[k] = ring[k + 1] /\ 1 < k + 1
  <2>1. ring \in Seq(Entry)  BY DEF TypeOK, EncTypes
  <2> QED BY <1>1, <1>2, <2>1
<1>4. call'.run = << >> \/ \E first : Cut(call'.run, e, first)
  <2>1. Makes(e)  BY <1>2, TxReadMakes
  <2> QED BY <2>1 DEF Makes
<1>5. \A i \in DOMAIN call'.run : call'.run[i].piece.src = e.pts /\ (i = 1 => call'.run[i].piece.off = e.off)
  BY <1>4 DEF Cut
<1>6. ASSUME NEW j \in DOMAIN call'.run, j # 1 PROVE call'.run[j].piece.off > 0
  <2>1. call'.run \in Seq(Chunk)  BY DEF TypeOK, TxTypes
  <2>2. PICK i : i = j - 1  OBVIOUS
  <2>3. i \in DOMAIN call'.run /\ j = i + 1  BY <1>6, <2>1, <2>2
  <2>4. call'.run[j].piece.off = call'.run[i].piece.off + call'.run[i].piece.len  BY <1>4, <2>3 DEF Cut
  <2>5. call'.run[i].piece.len > 0  BY <2>3 DEF MarkInv
  <2>6. call'.run[i] \in Chunk  BY <2>1, <2>3
  <2>7. call'.run[i].piece.off \in Nat /\ call'.run[i].piece.len \in Nat  BY <2>6 DEF Chunk, Piece
  <2> QED BY <2>4, <2>5, <2>7
<1>7. ASSUME NEW p, Begun(p) PROVE Begun(p)'
  <2>1. \A k \in DOMAIN ring' : ring'[k].pts = p => ring'[k].off > 0  BY <1>3, <1>7 DEF Begun
  <2>2. e.pts = p => e.off > 0  BY <1>3, <1>7 DEF Begun
  <2>3. \A i \in DOMAIN call'.run : call'.run[i].piece.src = p => call'.run[i].piece.off > 0
    BY <1>5, <1>6, <2>2
  <2> QED BY <2>1, <2>3 DEF Begun
<1>8. ASSUME NEW j \in DOMAIN ring', NEW k \in DOMAIN ring', j < k, ring'[j].pts = ring'[k].pts
      PROVE  ring'[k].off > 0
  <2>1. j + 1 < k + 1  BY <1>3, <1>8
  <2> QED BY <1>3, <1>8, <2>1 DEF StartOnce
<1>9. ASSUME NEW i \in DOMAIN call'.run
      PROVE  /\ \A k \in DOMAIN ring' : ring'[k].pts = call'.run[i].piece.src => ring'[k].off > 0
             /\ \A j \in DOMAIN call'.run :
                  i < j /\ call'.run[j].piece.src = call'.run[i].piece.src => call'.run[j].piece.off > 0
  <2>1. \A k \in DOMAIN ring' : ring'[k].pts = e.pts => ring'[k].off > 0  BY <1>3 DEF StartOnce
  <2>2. ASSUME NEW j \in DOMAIN call'.run, i < j PROVE j # 1
    <3>1. call'.run \in Seq(Chunk)  BY DEF TypeOK, TxTypes
    <3> QED BY <2>2, <3>1
  <2> QED BY <1>5, <1>6, <2>1, <2>2
<1>10. \A i \in DOMAIN link : link[i].codec = "h265" => Begun(link[i].piece.src)'
  <2> SUFFICES ASSUME NEW i \in DOMAIN link, link[i].codec = "h265" PROVE Begun(link[i].piece.src)'
    OBVIOUS
  <2>1. PICK p : p = link[i].piece.src  OBVIOUS
  <2>2. Begun(p)'  BY <1>7, <2>1 DEF StartOnce
  <2>3. p = link'[i].piece.src  BY <1>1, <2>1
  <2> QED BY <2>2, <2>3
<1>11. Started' = Started  BY <1>1 DEF Started
<1>12. \A p \in Started : p <= encoded /\ Begun(p)'  BY <1>7 DEF StartOnce
<1> QED BY <1>1, <1>8, <1>9, <1>10, <1>11, <1>12 DEF StartOnce

\* A chunk that is written starts its frame if it did in the chunker's hands.
LEMMA TxWriteStarts ==
  ASSUME TypeOK, StartOnce, TxWrite
  PROVE  StartOnce'
<1>1. PICK run : run = call.run  OBVIOUS
<1>2. PICK h : h = Head(run)  OBVIOUS
<1>3. PICK l : l = link \o AuxChunks(outq)  OBVIOUS
<1>4. slices' = slices /\ enc_off' = enc_off /\ encoded' = encoded /\ ring' = ring /\ r' = r /\ rtp' = rtp
      /\ run # << >> /\ link' = l \o <<h>>
  BY <1>1, <1>2, <1>3 DEF TxWrite, encVars, rxVars
<1>5. run \in Seq(Chunk) /\ call'.run = Tail(run)
  <2>1. call' = [call EXCEPT !.run = Tail(call.run), !.s = call.s + 1]  BY DEF TxWrite
  <2> QED BY <1>1, <2>1 DEF TypeOK, TxTypes
<1>6. /\ h \in Chunk /\ h = run[1] /\ 1 \in DOMAIN run
      /\ \A i \in DOMAIN call'.run : i \in Nat /\ i + 1 \in DOMAIN run /\ 1 < i + 1 /\ call'.run[i] = run[i + 1]
  BY <1>2, <1>4, <1>5
<1>7. /\ l \in Seq(Chunk)
      /\ \A i \in DOMAIN l : l[i].codec = "h265" => i \in DOMAIN link /\ l[i] = link[i]
  <2>1. outq \in Nat  BY Constants DEF TypeOK, TxTypes
  <2> QED BY <1>3, <2>1, AuxAppended
<1>8. \A i \in DOMAIN link' : \/ i \in 1..Len(l) /\ i \in DOMAIN l /\ link'[i] = l[i]
                              \/ i = Len(l) + 1 /\ link'[i] = h
  <2>1. link' = Append(l, h)  BY <1>4, <1>6, <1>7
  <2> QED BY <1>6, <1>7, <2>1
<1>9. ASSUME NEW p, Begun(p) PROVE Begun(p)' /\ (h.piece.src = p => h.piece.off > 0)
  BY <1>1, <1>4, <1>6, <1>9 DEF Begun
<1>10. ASSUME NEW i \in DOMAIN call'.run
       PROVE  /\ \A k \in DOMAIN ring' : ring'[k].pts = call'.run[i].piece.src => ring'[k].off > 0
              /\ \A j \in DOMAIN call'.run :
                   i < j /\ call'.run[j].piece.src = call'.run[i].piece.src => call'.run[j].piece.off > 0
  <2>1. i + 1 \in DOMAIN call.run /\ call'.run[i] = call.run[i + 1]  BY <1>1, <1>6
  <2>2. \A k \in DOMAIN ring' : ring'[k].pts = call'.run[i].piece.src => ring'[k].off > 0
    BY <1>4, <2>1 DEF StartOnce
  <2>3. ASSUME NEW j \in DOMAIN call'.run, i < j, call'.run[j].piece.src = call'.run[i].piece.src
        PROVE  call'.run[j].piece.off > 0
    <3>1. j + 1 \in DOMAIN call.run /\ call'.run[j] = call.run[j + 1] /\ i + 1 < j + 1
      BY <1>1, <1>6, <2>3
    <3> QED BY <2>1, <2>3, <3>1 DEF StartOnce
  <2> QED BY <2>2, <2>3
<1>11. PICK q : q = h.piece.src  OBVIOUS
<1>12. Begun(q)'
  <2>1. \A k \in DOMAIN ring' : ring'[k].pts = q => ring'[k].off > 0
    BY <1>1, <1>4, <1>6, <1>11 DEF StartOnce
  <2>2. \A i \in DOMAIN call'.run : call'.run[i].piece.src = q => call'.run[i].piece.off > 0
    BY <1>1, <1>6, <1>11 DEF StartOnce
  <2> QED BY <2>1, <2>2 DEF Begun
<1>13. ASSUME NEW i \in DOMAIN link', link'[i].codec = "h265" PROVE Begun(link[i].piece.src)'
  <2>1. PICK p : p = link'[i].piece.src  OBVIOUS
  <2>2. CASE i \in DOMAIN l /\ link'[i] = l[i]
    <3>1. i \in DOMAIN link /\ link'[i] = link[i]  BY <1>7, <1>13, <2>2
    <3>2. Begun(p)'  BY <1>9, <1>13, <2>1, <3>1 DEF StartOnce
    <3> QED BY <2>1, <3>2
  <2>3. CASE link'[i] = h
    <3>1. p = q  BY <1>11, <2>1, <2>3
    <3> QED BY <1>12, <2>1, <3>1
  <2> QED BY <1>8, <2>2, <2>3
<1>14. ASSUME NEW i \in DOMAIN link', NEW j \in DOMAIN link', i < j, link'[i].codec = "h265",
              link'[j].codec = "h265", link'[j].piece.src = link'[i].piece.src
       PROVE  link'[j].piece.off > 0
  <2>1. Len(l) \in Nat  BY <1>7
  <2>2. i \in DOMAIN l /\ link'[i] = l[i]
    <3>1. i # Len(l) + 1
      <4>1. j \in Nat /\ j <= Len(l) + 1  BY <1>8, <2>1
      <4> QED BY <1>14, <2>1, <4>1
    <3> QED BY <1>8, <3>1
  <2>3. i \in DOMAIN link /\ link'[i] = link[i]  BY <1>7, <1>14, <2>2
  <2>4. CASE j \in DOMAIN l /\ link'[j] = l[j]
    <3>1. j \in DOMAIN link /\ link'[j] = link[j]  BY <1>7, <1>14, <2>4
    <3> QED BY <1>14, <2>3, <3>1 DEF StartOnce
  <2>5. CASE link'[j] = h
    <3>1. PICK p : p = link[i].piece.src  OBVIOUS
    <3>2. Begun(p)  BY <1>14, <2>3, <3>1 DEF StartOnce
    <3> QED BY <1>9, <1>14, <2>3, <2>5, <3>1, <3>2
  <2> QED BY <1>8, <2>4, <2>5
<1>15. Started' = Started  BY <1>4 DEF Started
<1>16. ASSUME NEW p \in Started
       PROVE  /\ p <= encoded /\ Begun(p)'
              /\ \A j \in DOMAIN link' :
                   link'[j].codec = "h265" /\ link'[j].piece.src = p => link'[j].piece.off > 0
  <2>1. p <= encoded /\ Begun(p)  BY DEF StartOnce
  <2>2. Begun(p)' /\ (h.piece.src = p => h.piece.off > 0)  BY <1>9, <2>1
  <2>3. ASSUME NEW j \in DOMAIN link', link'[j].codec = "h265", link'[j].piece.src = p
        PROVE  link'[j].piece.off > 0
    <3>1. CASE link'[j] = h  BY <2>2, <2>3, <3>1
    <3>2. CASE j \in DOMAIN l /\ link'[j] = l[j]
      <4>1. j \in DOMAIN link /\ link'[j] = link[j]  BY <1>7, <2>3, <3>2
      <4> QED BY <2>3, <4>1 DEF StartOnce
    <3> QED BY <1>8, <3>1, <3>2
  <2> QED BY <2>1, <2>2, <2>3
<1>17. slices' # << >> => enc_off' > 0  BY <1>4 DEF StartOnce
<1>18. \A j, k \in DOMAIN ring' : j < k /\ ring'[j].pts = ring'[k].pts => ring'[k].off > 0
  BY <1>4 DEF StartOnce
<1> QED BY <1>4, <1>10, <1>13, <1>14, <1>15, <1>16, <1>17, <1>18 DEF StartOnce

\* A chunk that comes in starts its own frame at most.
LEMMA RxVideoStarts ==
  ASSUME TypeOK, TypeOK', MixInv, OrderInv, ContentInv, MarkInv, FwdWithinBuffer, StartOnce, SentInv,
         RxVideo
  PROVE  StartOnce'
<1>1. PICK c : c = Head(link)  OBVIOUS
<1>2. PICK r1 : r1 = reassembly_feed(r, c)  OBVIOUS
<1>3. slices' = slices /\ enc_off' = enc_off /\ encoded' = encoded /\ ring' = ring /\ call' = call
      /\ link # << >> /\ link' = Tail(link) /\ c.codec = "h265"
  BY <1>1 DEF RxVideo, encVars, txVars
<1>4. c = link[1] /\ 1 \in DOMAIN link /\ c \in Chunk
  <2>1. link \in Seq(Chunk)  BY OrderTypes
  <2> QED BY <1>1, <1>3, <2>1
<1>5. \A i \in DOMAIN link' : i + 1 \in DOMAIN link /\ link'[i] = link[i + 1] /\ 1 < i + 1 /\ i \in Nat
  <2>1. link' \in Seq(Chunk)  BY DEF TypeOK, TxTypes
  <2> QED BY <1>3, <2>1, TailFacts
<1>6. PICK src : src = c.piece.src  OBVIOUS
<1>7. src <= encoded /\ c.frame_pts = src  BY <1>3, <1>4, <1>6 DEF OrderInv, LinkOrder, Underway
<1>8. Begun(src) /\ \A j \in DOMAIN link : 1 < j /\ link[j].codec = "h265" /\ link[j].piece.src = src
                       => link[j].piece.off > 0
  BY <1>3, <1>4, <1>6 DEF StartOnce
<1>9. Started' \subseteq Started \cup {src}
  <2>1. /\ r'.active => r' = r1
        /\ \/ rtp' = rtp
           \/ r1.active /\ rtp'.ts = r1.frame_pts
    BY <1>1, <1>2, RxVideoSends
  <2>2. r1.active => r1.frame_pts = src \/ (r.active /\ r1.frame_pts = r.frame_pts)
    <3>1. r \in Reasm  BY DEF TypeOK, RxTypes
    <3> QED BY <1>2, <1>4, <1>7, <3>1, FeedOrder
  <2>3. r1.active => r1.frame_pts \in Started \cup {src}  BY <2>2 DEF Started
  <2> QED BY <2>1, <2>3 DEF Started
<1>10. \A p : Begun(p) => Begun(p)'  BY <1>3 DEF Begun
<1>11. ASSUME NEW p \in Started'
       PROVE  /\ p <= encoded' /\ Begun(p)'
              /\ \A j \in DOMAIN link' :
                   link'[j].codec = "h265" /\ link'[j].piece.src = p => link'[j].piece.off > 0
  <2>1. CASE p = src  BY <1>3, <1>5, <1>7, <1>8, <1>10, <2>1
  <2>2. CASE p \in Started  BY <1>3, <1>5, <1>10, <2>2 DEF StartOnce
  <2> QED BY <1>9, <2>1, <2>2
<1>12. ASSUME NEW i \in DOMAIN link', link'[i].codec = "h265" PROVE Begun(link[i].piece.src)'
  <2>1. PICK p : p = link'[i].piece.src  OBVIOUS
  <2>2. i + 1 \in DOMAIN link /\ link'[i] = link[i + 1]  BY <1>5
  <2>3. Begun(p)  BY <1>12, <2>1, <2>2 DEF StartOnce
  <2>4. Begun(p)'  BY <1>10, <2>3
  <2> QED BY <2>1, <2>4
<1>13. ASSUME NEW i \in DOMAIN link', NEW j \in DOMAIN link', i < j, link'[i].codec = "h265",
              link'[j].codec = "h265", link'[j].piece.src = link'[i].piece.src
       PROVE  link'[j].piece.off > 0
  <2>1. /\ i + 1 \in DOMAIN link /\ link'[i] = link[i + 1] /\ j + 1 \in DOMAIN link
        /\ link'[j] = link[j + 1] /\ i + 1 < j + 1
    BY <1>5, <1>13
  <2> QED BY <1>13, <2>1 DEF StartOnce
<1>14. slices' # << >> => enc_off' > 0  BY <1>3 DEF StartOnce
<1>15. \A j, k \in DOMAIN ring' : j < k /\ ring'[j].pts = ring'[k].pts => ring'[k].off > 0
  BY <1>3 DEF StartOnce
<1>16. \A i \in DOMAIN call'.run :
         /\ \A k \in DOMAIN ring' : ring'[k].pts = call'.run[i].piece.src => ring'[k].off > 0
         /\ \A j \in DOMAIN call'.run :
              i < j /\ call'.run[j].piece.src = call'.run[i].piece.src => call'.run[j].piece.off > 0
  BY <1>3 DEF StartOnce
<1> QED BY <1>11, <1>12, <1>13, <1>14, <1>15, <1>16 DEF StartOnce

\* A frame starts or goes on in the encoder.
LEMMA EncodeStarts ==
  ASSUME SlicesHaveBytes, TypeOK, OrderInv, MarkInv, StartOnce, EncodeFrame \/ EncodeSlice
  PROVE  StartOnce'
<1>1. encoded \in Nat /\ enc_off \in Nat /\ slices \in Seq([len: Nat, vcl: BOOLEAN])
  BY DEF TypeOK, EncTypes
<1>2. CASE EncodeFrame
  <2>1. PICK s \in Slicings : Publish(encoded + 1, s, 0)  BY <1>2 DEF EncodeFrame
  <2>2. s \in Seq([len: Nat, vcl: BOOLEAN]) /\ s # << >>  BY VideoLinkAssumption
  <2>3. 1 \in DOMAIN s  BY <2>2
  <2>4. s[1].len > 0  BY <2>3 DEF SlicesHaveBytes
  <2>5. slices = << >> /\ encoded + 1 \in Nat /\ 0 \in Nat  BY <1>1, <1>2 DEF EncodeFrame
  <2> QED BY <2>1, <2>2, <2>4, <2>5, PublishStarts
<1>3. CASE EncodeSlice
  <2>1. slices # << >> /\ Publish(encoded, slices, enc_off)  BY <1>3 DEF EncodeSlice
  <2>2. 1 \in DOMAIN slices  BY <1>1, <2>1
  <2>3. slices[1].len > 0  BY <2>2 DEF MarkInv
  <2>4. enc_off > 0  BY <2>1 DEF StartOnce
  <2> QED BY <1>1, <2>1, <2>3, <2>4, PublishStarts
<1> QED BY <1>2, <1>3

-----------------------------------------------------------------------------
(* SentInv and OutputFaithful *)

\* Only a video chunk moves what rx has and sends.
LEMMA RxOnly ==
  ASSUME [Next]_vars
  PROVE  RxVideo \/ (UNCHANGED <<r, fwd_off, fwd_vcl, rtp, got>> /\ torn \subseteq torn')
BY DEF Next, Tx, Rx, EncodeFrame, EncodeSlice, EncoderRestart, Publish, OutqPush, TxRead, TxWrite,
       TxWriteFails, TxReturn, TxTimeout, TxReconnect, TxRestart, LinkLose, RxAux, vars, rxVars, histVars

\* SentInv is kept by every step.
LEMMA SentStep ==
  ASSUME TypeOK, TypeOK', MixInv, OrderInv, ContentInv, MarkInv, FwdWithinBuffer, StartOnce, SentInv,
         [Next]_vars
  PROVE  SentInv'
<1>1. CASE UNCHANGED <<r, fwd_off, fwd_vcl, rtp, got>> /\ torn \subseteq torn'
  <2>1. rtp'.items = << >> => rtp'.ts = 0  BY <1>1 DEF SentInv
  <2>2. ASSUME r'.active PROVE Laid(r)' /\ \E k \in 0..Len(r'.buf) : SentUpTo(r, fwd_off, fwd_vcl, rtp, k)'
    <3>1. Laid(r)  BY <1>1, <2>2 DEF SentInv
    <3>2. PICK k \in 0..Len(r.buf) : SentUpTo(r, fwd_off, fwd_vcl, rtp, k)  BY <1>1, <2>2 DEF SentInv
    <3>3. Laid(r)'  BY <1>1, <3>1 DEF Laid
    <3>4. SentUpTo(r, fwd_off, fwd_vcl, rtp, k)'  BY <1>1, <3>2 DEF SentUpTo
    <3> QED BY <1>1, <3>3, <3>4
  <2> QED BY <2>1, <2>2 DEF SentInv
<1>2. CASE RxVideo
  <2>1. PICK c : c = Head(link)  OBVIOUS
  <2>2. PICK r1 : r1 = reassembly_feed(r, c)  OBVIOUS
  <2>3. torn' = torn  BY <1>2 DEF RxVideo
  <2>4. /\ r'.active => r' = r1 /\ \E k \in 0..Len(r1.buf) : SentUpTo(r1, fwd_off', fwd_vcl', rtp', k)
        /\ rtp' = rtp \/ rtp'.items # << >>
    BY <1>2, <2>1, <2>2, RxVideoSends
  <2>5. rtp'.items = << >> => rtp'.ts = 0  BY <2>4 DEF SentInv
  <2>6. ASSUME r'.active PROVE Laid(r)' /\ \E k \in 0..Len(r'.buf) : SentUpTo(r, fwd_off, fwd_vcl, rtp, k)'
    <3>1. Laid(r1)  BY <1>2, <2>1, <2>2, <2>4, <2>6, FeedSent
    <3>2. PICK k \in 0..Len(r1.buf) : SentUpTo(r1, fwd_off', fwd_vcl', rtp', k)  BY <2>4, <2>6
    <3>3. Laid(r)'  BY <2>4, <2>6, <3>1 DEF Laid
    <3>4. SentUpTo(r, fwd_off, fwd_vcl, rtp, k)'  BY <2>3, <2>4, <2>6, <3>2 DEF SentUpTo
    <3> QED BY <2>4, <2>6, <3>3, <3>4
  <2> QED BY <2>5, <2>6 DEF SentInv
<1> QED BY <1>1, <1>2, RxOnly

\* The buffer is named after its first piece.
LEMMA FeedNames ==
  ASSUME TypeOK, OrderInv, RxVideo, NEW c, c = Head(link), NEW r1, r1 = reassembly_feed(r, c), r1.active
  PROVE  r1 \in Reasm /\ r1.buf # << >> /\ r1.buf[1].piece.src = r1.frame_pts
<1>1. c \in Chunk /\ c = link[1] /\ 1 \in DOMAIN link /\ c.codec = "h265"
  <2>1. link \in Seq(Chunk) /\ link # << >> /\ Head(link).codec = "h265"  BY DEF TypeOK, TxTypes, RxVideo
  <2> QED BY <2>1
<1>2. c.frame_pts = c.piece.src  BY <1>1 DEF OrderInv, LinkOrder, Underway
<1>3. r \in Reasm /\ r.buf \in Seq(Placed)  BY DEF TypeOK, RxTypes, Reasm
<1>4. r1 \in Reasm  BY <1>1, <1>3, FeedFacts
<1>5. \/ r1.frame_pts = c.frame_pts /\ r1.buf = <<[at |-> 0, piece |-> c.piece]>>
      \/ r.active /\ r1.frame_pts = r.frame_pts
         /\ r1.buf = Append(r.buf, [at |-> r.write_off, piece |-> c.piece])
  BY <1>1, <1>3, FeedOrder
<1>6. CASE r1.frame_pts = c.frame_pts /\ r1.buf = <<[at |-> 0, piece |-> c.piece]>>
  BY <1>2, <1>4, <1>6
<1>7. CASE /\ r.active /\ r1.frame_pts = r.frame_pts
           /\ r1.buf = Append(r.buf, [at |-> r.write_off, piece |-> c.piece])
  <2>1. r.buf # << >> /\ r.buf[1].piece.src = r.frame_pts  BY <1>7 DEF OrderInv, ShownOrder
  <2>2. PICK h : r1.buf = Append(r.buf, h)  BY <1>7
  <2>3. r1.buf # << >> /\ r1.buf[1] = r.buf[1]  BY <1>3, <2>1, <2>2
  <2> QED BY <1>4, <1>7, <2>1, <2>3
<1> QED BY <1>5, <1>6, <1>7

\* What went out is the frame in order after every chunk that comes in.
LEMMA RxVideoFaithful ==
  ASSUME TypeOK, TypeOK', MixInv, NoMixing', OrderInv, ContentInv, MarkInv, FwdWithinBuffer, StartOnce,
         SentInv, OutputFaithful, RxVideo
  PROVE  OutputFaithful'
<1>1. PICK c : c = Head(link)  OBVIOUS
<1>2. PICK r1 : r1 = reassembly_feed(r, c)  OBVIOUS
<1>3. torn' = torn  BY DEF RxVideo
<1>4. \/ rtp' = rtp /\ got' = got
      \/ /\ r1.active /\ rtp'.ts = r1.frame_pts /\ rtp'.items # << >>
         /\ r1.frame_pts \notin torn => /\ rtp'.items = Whole(r1) /\ SeiInPlace(rtp')
                                        /\ rtp'.marked => got' = Whole(r1)
  BY <1>1, <1>2, RxVideoSends
<1>5. CASE rtp' = rtp /\ got' = got
  BY <1>3, <1>5 DEF OutputFaithful, ForwardedIsReassembled, SlicesInOrder, SeiPlacement, OneRun,
                    Contiguous, HasVcl
<1>6. CASE rtp'.ts \in torn
  BY <1>3, <1>6 DEF OutputFaithful, ForwardedIsReassembled, SlicesInOrder, SeiPlacement
<1>7. CASE /\ r1.active /\ rtp'.ts = r1.frame_pts /\ rtp'.ts \notin torn
           /\ rtp'.items = Whole(r1) /\ SeiInPlace(rtp') /\ (rtp'.marked => got' = Whole(r1))
  <2>1. r1 \in Reasm /\ r1.buf # << >> /\ r1.buf[1].piece.src = r1.frame_pts
    BY <1>1, <1>2, <1>7, FeedNames
  <2>2. PICK s : s = Whole(r1)  OBVIOUS
  <2>3. r1.buf \in Seq(Placed) /\ DOMAIN r1.buf = 1..Len(r1.buf) /\ Len(r1.buf) \in Nat \ {0}
    BY <2>1 DEF Reasm
  <2>4. rtp'.items = s /\ s \in Seq(Piece)  BY <1>7, <2>2 DEF TypeOK, RxTypes
  <2>5. DOMAIN s = DOMAIN r1.buf /\ 1 \in DOMAIN s /\ s # << >> /\ \A i \in DOMAIN s : s[i] = r1.buf[i].piece
    <3>1. DOMAIN s = 1..Len(r1.buf) /\ \A i \in 1..Len(r1.buf) : s[i] = r1.buf[i].piece
      BY <2>2 DEF Whole
    <3> QED BY <2>3, <3>1
  <2>6. \A i \in DOMAIN s : s[i] \in Around  BY <1>1, <1>2, <1>7, <2>5, FeedAround
  <2>7. OneFrame(s)
    <3>1. r' = r1 \/ got' = [i \in DOMAIN r1.buf |-> r1.buf[i].piece]  BY <1>1, <1>2 DEF RxVideo
    <3>2. CASE r' = r1
      <4>1. OneFrame(BufPieces(r))'  BY <1>7, <3>2 DEF NoMixing
      <4>2. BufPieces(r)' = s  BY <2>2, <2>3, <3>2 DEF BufPieces, Whole
      <4> QED BY <4>1, <4>2 DEF OneFrame
    <3>3. CASE got' = [i \in DOMAIN r1.buf |-> r1.buf[i].piece]
      <4>1. got' = s  BY <2>2, <2>3, <3>3 DEF Whole
      <4> QED BY <4>1 DEF NoMixing, OneFrame
    <3> QED BY <3>1, <3>2, <3>3
  <2>8. s[1].src = rtp'.ts  BY <1>7, <2>1, <2>5
  <2>9. OneRun(s) => Contiguous(s) /\ s[1].off = 0  BY <1>7, <2>4, <2>5, <2>6, <2>7, <2>8, RunsOn
  <2>10. SlicesInOrder'  BY <2>4, <2>8, <2>9 DEF SlicesInOrder, OneRun, Contiguous
  <2>11. ForwardedIsReassembled'  BY <1>7 DEF ForwardedIsReassembled
  <2>12. SeiPlacement'
    <3>1. rtp'.sei # "none" =>
            /\ rtp'.sei = "suffix" <=> HasVcl(SubSeq(rtp'.items, 1, rtp'.sei_at))
            /\ rtp'.sei_at < Len(rtp'.items)
      BY <1>7 DEF SeiInPlace
    <3> QED BY <3>1 DEF SeiPlacement, HasVcl
  <2> QED BY <2>10, <2>11, <2>12 DEF OutputFaithful
<1> QED BY <1>4, <1>5, <1>6, <1>7

\* StartOnce and SentInv are inductive next to the invariants before them.
THEOREM SentInvariant == ASSUME SlicesHaveBytes PROVE Spec => [](StartOnce /\ SentInv)
<1> DEFINE Before == TypeOK /\ MixInv /\ OrderInv /\ ContentInv /\ MarkInv /\ FwdWithinBuffer
<1>1. Before /\ Before' /\ StartOnce /\ SentInv /\ [Next]_vars => (StartOnce /\ SentInv)'
  <2> SUFFICES ASSUME Before, Before', StartOnce, SentInv, [Next]_vars PROVE StartOnce' /\ SentInv'
    OBVIOUS
  <2>1. SentInv'  BY SentStep
  <2>2. CASE EncodeFrame \/ EncodeSlice  BY <2>1, <2>2, EncodeStarts
  <2>3. CASE TxRead  BY <2>1, <2>3, TxReadStarts
  <2>4. CASE TxWrite  BY <2>1, <2>4, TxWriteStarts
  <2>5. CASE RxVideo  BY <2>1, <2>5, RxVideoStarts
  <2>6. CASE \/ EncoderRestart \/ OutqPush \/ TxWriteFails \/ TxReturn \/ TxTimeout \/ TxReconnect
             \/ TxRestart \/ LinkLose \/ RxAux \/ UNCHANGED vars
    BY <2>1, <2>6, QuietStarts
  <2> QED BY <2>1, <2>2, <2>3, <2>4, <2>5, <2>6 DEF Next, Tx, Rx
<1>2. Spec => []MarkInv  BY MarkInvariant
<1> QED BY <1>1, <1>2, InitStarts, TypeCorrect, MixInvariant, OrderInvariant, ContentInvariant,
           FwdWithinBufferHolds, PTL DEF Spec

\* rx/main.c:593-613, :655-686: what rx sends on under an RTP timestamp, slice by slice or at once, is
\* at any time the reassembled frame as far as it has come in, without a hole and nothing twice, all
\* of it when the marker goes out, with the timing SEI where a decoder expects it; only a source frame
\* that a flush of the ring or a restart of tx tore apart may break this.
THEOREM OutputFaithfulHolds == ASSUME SlicesHaveBytes PROVE Spec => []OutputFaithful
<1> DEFINE Before == TypeOK /\ MixInv /\ OrderInv /\ ContentInv /\ MarkInv /\ FwdWithinBuffer /\ NoMixing
<1>1. Init => OutputFaithful
  BY DEF Init, OutputFaithful, ForwardedIsReassembled, SlicesInOrder, SeiPlacement
<1>2. Before /\ Before' /\ StartOnce /\ SentInv /\ OutputFaithful /\ [Next]_vars => OutputFaithful'
  <2> SUFFICES ASSUME Before, Before', StartOnce, SentInv, OutputFaithful, [Next]_vars
               PROVE  OutputFaithful'
    OBVIOUS
  <2>1. CASE RxVideo  BY <2>1, RxVideoFaithful
  <2>2. CASE UNCHANGED <<r, fwd_off, fwd_vcl, rtp, got>> /\ torn \subseteq torn'
    BY <2>2 DEF OutputFaithful, ForwardedIsReassembled, SlicesInOrder, SeiPlacement, OneRun,
                Contiguous, HasVcl
  <2> QED BY <2>1, <2>2, RxOnly
<1>3. Spec => []MarkInv  BY MarkInvariant
<1>4. Spec => [](StartOnce /\ SentInv)  BY SentInvariant
<1> QED BY <1>1, <1>2, <1>3, <1>4, TypeCorrect, MixInvariant, OrderInvariant, ContentInvariant,
           FwdWithinBufferHolds, NoMixingHolds, PTL DEF Spec

-----------------------------------------------------------------------------
(* The loss counters *)

\* The chunker has the last chunks of its frame.
Ending == call.kind = "frame" \/ (call.kind = "part" /\ ~call.partial)

\* tx has no more to send of a frame whose last chunk is in flight, and of a completed frame
\* nothing more comes.
OverInv ==
    /\ \A c \in InFlight : c.chunk_count = c.chunk_idx + 1 /\ IdOf(c) = Hand => Ending
    /\ \A f \in completed :
         /\ Leq(f, heard) /\ (f = Hand => Ending)
         /\ \A c \in InFlight : IdOf(c) # f

\* Nothing is in flight or completed yet.
LEMMA InitOver == Init => OverInv
<1> SUFFICES ASSUME Init PROVE OverInv  OBVIOUS
<1>1. completed = {} /\ InFlight = {}  BY DEF Init, InFlight, NoCall
<1> QED BY <1>1 DEF OverInv

\* Steps that bring no chunk and leave the frame in hand.
LEMMA MoveOver ==
  ASSUME OverInv, InFlight' \subseteq InFlight, UNCHANGED <<epoch, frame_no, heard, completed>>,
         call'.kind = call.kind, call'.partial = call.partial
  PROVE  OverInv'
<1>1. Hand' = Hand  BY DEF Hand, Id
<1>2. Ending' <=> Ending  BY DEF Ending
<1> QED BY <1>1, <1>2 DEF OverInv

\* A step that moves tx on to another frame.
LEMMA EndOver ==
  ASSUME TypeOK, TypeOK', MixInv, OverInv, InFlight' \subseteq InFlight, UNCHANGED <<heard, completed>>,
         epoch' > epoch \/ (epoch' = epoch /\ frame_no' > frame_no)
  PROVE  OverInv'
<1>1. epoch \in Nat /\ frame_no \in Nat /\ epoch' \in Nat /\ frame_no' \in Nat  BY DEF TypeOK, TxTypes
<1>2. heard \in [epoch: Nat, no: Nat] /\ completed \subseteq [epoch: Nat, no: Nat]
  BY DEF TypeOK, HistTypes
<1>3. Hand' = [epoch |-> epoch', no |-> frame_no'] /\ Hand = [epoch |-> epoch, no |-> frame_no]
  BY DEF Hand, Id
<1>4. ASSUME NEW f \in [epoch: Nat, no: Nat], Leq(f, Hand) PROVE f # Hand'
  BY <1>1, <1>3, <1>4 DEF Leq
<1>5. ASSUME NEW f \in completed PROVE f # Hand'
  <2>1. Leq(f, heard) /\ Leq(heard, Hand)  BY DEF OverInv, MixInv, LinkInv, Hand
  <2>2. Hand \in [epoch: Nat, no: Nat]  BY <1>1, <1>3
  <2>3. Leq(f, Hand)  BY <1>2, <2>1, <2>2, LeqTrans
  <2> QED BY <1>2, <1>4, <2>3
<1>6. ASSUME NEW c \in InFlight PROVE IdOf(c) # Hand'
  <2>1. IdOf(c) \in [epoch: Nat, no: Nat] /\ Leq(IdOf(c), Hand)  BY FlightFacts
  <2> QED BY <1>4, <2>1
<1> QED BY <1>5, <1>6 DEF OverInv

\* The chunker returns from a slice with more to come, or from the end of the frame.
LEMMA TxReturnOver ==
  ASSUME TypeOK, TypeOK', MixInv, OverInv, TxReturn
  PROVE  OverInv'
<1>1. UNCHANGED <<epoch, heard, completed>> /\ call.kind # "none"  BY DEF TxReturn, histVars
<1>2. InFlight' \subseteq InFlight
  <2>1. link' = link /\ call'.run = << >>  BY DEF TxReturn, NoCall
  <2> QED BY <2>1 DEF InFlight
<1>3. call.kind \in {"none", "part", "frame"} /\ frame_no \in Nat  BY DEF TypeOK, TxTypes
<1>4. CASE Ending
  <2>1. frame_no' = frame_no + 1 /\ frame_no' > frame_no  BY <1>3, <1>4 DEF TxReturn, EndFrame, Ending
  <2> QED BY <1>1, <1>2, <2>1, EndOver
<1>5. CASE ~Ending
  <2>1. frame_no' = frame_no  BY <1>1, <1>3, <1>5 DEF TxReturn, Ending
  <2>2. Hand' = Hand  BY <1>1, <2>1 DEF Hand, Id
  <2> QED BY <1>1, <1>2, <1>5, <2>2 DEF OverInv
<1> QED BY <1>4, <1>5

\* The chunks of a slice that more slices follow say so; those of the next frame are of none
\* that was completed.
LEMMA TxReadOver ==
  ASSUME TypeOK, TypeOK', MixInv, MixInv', ContentInv, OverInv, TxRead
  PROVE  OverInv'
<1> DEFINE e == Head(ring)
<1>1. UNCHANGED <<epoch, link, heard, completed>> /\ call.kind = "none" /\ call = NoCall
  BY DEF TxRead, histVars, ContentInv, OpenCount
<1>2. Goes(e) /\ Makes(e) /\ call'.partial = e.partial  BY TxReadMakes
<1> HIDE DEF e
<1>3. ~Ending  BY <1>1 DEF Ending
<1>4. InFlight = {link[i] : i \in {k \in DOMAIN link : link[k].codec = "h265"}}
      /\ InFlight' = InFlight \cup {call'.run[i] : i \in DOMAIN call'.run}
  BY <1>1 DEF InFlight, NoCall
<1>5. /\ epoch \in Nat /\ frame_no \in Nat /\ frame_no' \in Nat
      /\ Hand \in [epoch: Nat, no: Nat] /\ Hand = [epoch |-> epoch, no |-> frame_no]
      /\ Hand' = [epoch |-> epoch, no |-> frame_no']
  BY <1>1 DEF TypeOK, TxTypes, Hand, Id
<1>6. frame_no' \in {frame_no, frame_no + 1}  BY <1>2 DEF Goes
<1>7. heard \in [epoch: Nat, no: Nat] /\ completed \subseteq [epoch: Nat, no: Nat]
  BY DEF TypeOK, HistTypes
<1>8. ASSUME NEW f \in completed PROVE f # Hand' /\ Leq(f, heard)
  <2>1. Leq(f, heard) /\ Leq(heard, Hand) /\ f # Hand  BY <1>3 DEF OverInv, MixInv, LinkInv, Hand
  <2>2. Leq(f, Hand)  BY <1>5, <1>7, <2>1, LeqTrans
  <2>3. f \in [epoch: Nat, no: Nat]  BY <1>7
  <2>4. CASE frame_no' = frame_no  BY <1>5, <2>1, <2>4
  <2>5. CASE frame_no' = frame_no + 1
    <3>1. f.epoch < epoch \/ (f.epoch = epoch /\ f.no <= frame_no)  BY <1>5, <2>2 DEF Leq
    <3>2. Hand'.epoch = epoch /\ Hand'.no = frame_no + 1  BY <1>5, <2>5
    <3>3. f.epoch \in Nat /\ f.no \in Nat  BY <2>3
    <3> QED BY <1>5, <2>1, <3>1, <3>2, <3>3
  <2> QED BY <1>6, <2>1, <2>4, <2>5
<1>9. ASSUME NEW i \in DOMAIN call'.run
      PROVE  /\ IdOf(call'.run[i]) = Hand'
             /\ call'.run[i].chunk_count = call'.run[i].chunk_idx + 1 => Ending'
  <2>1. call'.run # << >>  BY <1>9
  <2>2. Ends(call'.run, IF call'.kind = "part" THEN 0 ELSE call'.n, ~e.partial)  BY <1>2, <2>1 DEF Makes
  <2>3. IdOf(call'.run[i]) = Id(epoch', frame_no')  BY DEF MixInv, CallInv, Id, IdOf
  <2>4. call'.kind \in {"part", "frame"}  BY <1>2 DEF Goes
  <2>5. call'.run[i].chunk_count = call'.run[i].chunk_idx + 1 => ~e.partial  BY <2>2 DEF Ends
  <2>6. ~e.partial => Ending'  BY <1>2, <2>4 DEF Ending
  <2> QED BY <1>5, <2>3, <2>5, <2>6 DEF Hand
<1>10. ASSUME NEW c \in InFlight, c.chunk_count = c.chunk_idx + 1 PROVE IdOf(c) # Hand'
  <2>1. IdOf(c) \in [epoch: Nat, no: Nat] /\ Leq(IdOf(c), Hand)  BY FlightFacts
  <2>2. IdOf(c) # Hand  BY <1>3, <1>10 DEF OverInv
  <2>3. CASE frame_no' = frame_no  BY <1>5, <2>2, <2>3
  <2>4. CASE frame_no' = frame_no + 1  BY <1>5, <2>1, <2>4 DEF Leq
  <2> QED BY <1>6, <2>3, <2>4
<1>11. ASSUME NEW f \in completed, NEW c \in InFlight' PROVE IdOf(c) # f
  BY <1>4, <1>8, <1>9 DEF OverInv
<1> QED BY <1>1, <1>4, <1>8, <1>9, <1>10, <1>11 DEF OverInv

\* A chunk that completes its frame is the last one of it.
LEMMA RxVideoOver ==
  ASSUME TypeOK, TypeOK', MixInv, OrderInv, ContentInv, OverInv, RxVideo
  PROVE  OverInv'
<1> DEFINE c  == Head(link)
           r1 == reassembly_feed(r, c)
           id == IdOf(c)
<1>1. /\ UNCHANGED <<epoch, frame_no, sf, call>> /\ link # << >> /\ link' = Tail(link)
      /\ c.codec = "h265" /\ heard' = id
  BY DEF RxVideo, txVars, IdOf, Id
<1>2. c = link[1] /\ 1 \in DOMAIN link /\ c \in InFlight
  <2>1. link \in Seq(Chunk)  BY DEF TypeOK, TxTypes
  <2>2. c = link[1] /\ 1 \in DOMAIN link  BY <1>1, <2>1
  <2> QED BY <1>1, <2>2 DEF InFlight
<1>3. \/ completed' = completed
      \/ completed' = completed \cup {id} /\ r1.completed_frames > r.completed_frames
  BY DEF RxVideo, IdOf, Id
<1>4. r \in Reasm  BY DEF TypeOK, RxTypes
<1>5. r1.completed_frames > r.completed_frames => c.chunk_count = c.chunk_idx + 1
  <2>1. c \in Chunk  BY <1>2, FlightFacts
  <2>2. r1.completed_frames # r.completed_frames => c.chunk_count = c.chunk_idx + 1
    <3> HIDE DEF c
    <3> QED BY <1>4, <2>1, FeedOrder
  <2>3. r1.completed_frames \in Nat /\ r.completed_frames \in Nat
    <3>1. r1 \in Reasm
      <4> HIDE DEF c
      <4> QED BY <1>4, <2>1, FeedFacts
    <3> HIDE DEF r1
    <3> QED BY <1>4, <3>1 DEF Reasm
  <2> HIDE DEF r1, c
  <2> QED BY <2>2, <2>3
<1>6. /\ c \in Chunk /\ c.piece \in Around /\ id \in [epoch: Nat, no: Nat] /\ Leq(heard, id)
      /\ PieceId(c.piece) = id
  BY <1>2, FlightFacts DEF PieceId, IdOf
<1>7. \A i \in DOMAIN link' : i \in Nat /\ i + 1 \in DOMAIN link /\ link'[i] = link[i + 1] /\ 1 < i + 1
  <2>1. link' \in Seq(Chunk)  BY DEF TypeOK, TxTypes
  <2>2. \A i \in DOMAIN link' : i \in Nat  BY <2>1
  <2> QED BY <1>1, <2>2, TailFacts
<1> HIDE DEF c, r1, id
<1>8. ASSUME NEW d \in InFlight'
      PROVE  d \in InFlight /\ Follows(d.piece.src, c)
  <2>1. CASE \E i \in DOMAIN call'.run : d = call'.run[i]
    <3>1. PICK i \in DOMAIN call.run : d = call.run[i]  BY <1>1, <2>1
    <3> QED BY <1>1, <1>2, <3>1 DEF OrderInv, LinkOrder, InFlight
  <2>2. CASE \E i \in DOMAIN link' : link'[i].codec = "h265" /\ d = link'[i]
    <3>1. PICK i \in DOMAIN link' : link'[i].codec = "h265" /\ d = link'[i]  BY <2>2
    <3>2. i + 1 \in DOMAIN link /\ d = link[i + 1] /\ link[i + 1].codec = "h265" /\ 1 < i + 1
      BY <1>7, <3>1
    <3> QED BY <1>1, <1>2, <3>2 DEF OrderInv, LinkOrder, InFlight
  <2> QED BY <2>1, <2>2 DEF InFlight
<1>9. ASSUME NEW d \in InFlight', c.chunk_count = c.chunk_idx + 1 PROVE IdOf(d) # id
  <2>1. c.piece.end  BY <1>1, <1>2, <1>9 DEF OrderInv, LinkOrder, Underway
  <2>2. d \in InFlight /\ c.piece.src < d.piece.src  BY <1>8, <2>1 DEF Follows
  <2>3. d.piece \in Around /\ d \in Chunk  BY <2>2, FlightFacts
  <2>4. c.piece.src \in Nat /\ d.piece.src \in Nat  BY <1>6, <2>3 DEF Chunk, Piece
  <2>5. c.piece.src # d.piece.src  BY <2>2, <2>4
  <2>6. PieceId(d.piece) # PieceId(c.piece)  BY <1>6, <2>3, <2>5 DEF ContentInv, Joined
  <2> QED BY <1>6, <2>6 DEF PieceId, IdOf
<1>10. Hand' = Hand /\ (Ending' <=> Ending)  BY <1>1 DEF Hand, Id, Ending
<1>11. heard \in [epoch: Nat, no: Nat] /\ completed \subseteq [epoch: Nat, no: Nat]
  BY DEF TypeOK, HistTypes
<1>12. ASSUME NEW f \in completed
       PROVE  Leq(f, id) /\ (f = Hand => Ending) /\ \A d \in InFlight' : IdOf(d) # f
  <2>1. Leq(f, heard)  BY DEF OverInv
  <2>2. f \in [epoch: Nat, no: Nat]  BY <1>11
  <2>3. Leq(f, id)  BY <1>6, <1>11, <2>1, <2>2, LeqTrans
  <2> QED BY <1>8, <2>3 DEF OverInv
<1>13. ASSUME c.chunk_count = c.chunk_idx + 1
       PROVE  Leq(id, id) /\ (id = Hand => Ending) /\ \A d \in InFlight' : IdOf(d) # id
  <2>1. Leq(id, id)  BY <1>6 DEF Leq
  <2>2. id = Hand => Ending  BY <1>2, <1>13 DEF OverInv, id
  <2> QED BY <1>9, <1>13, <2>1, <2>2
<1>14. \A f \in completed' : f \in completed \/ (f = id /\ c.chunk_count = c.chunk_idx + 1)
  BY <1>3, <1>5
<1>15. \A f \in completed' : Leq(f, id) /\ (f = Hand => Ending) /\ \A d \in InFlight' : IdOf(d) # f
  BY <1>12, <1>13, <1>14
<1>16. \A d \in InFlight' : d.chunk_count = d.chunk_idx + 1 /\ IdOf(d) = Hand => Ending
  BY <1>8 DEF OverInv
<1> QED BY <1>1, <1>10, <1>15, <1>16 DEF OverInv

\* OverInv is inductive.
THEOREM OverInvariant == Spec => []OverInv
<1>1. ASSUME TypeOK, TypeOK', ContentInv, FlightOrder, OverInv,
             \/ EncodeFrame \/ EncodeSlice \/ EncoderRestart \/ OutqPush \/ TxWrite \/ TxWriteFails
             \/ TxTimeout \/ TxReconnect \/ LinkLose \/ RxAux \/ UNCHANGED vars
      PROVE  OverInv'
  BY <1>1, MovesFlight, MoveOver
<1>2. ASSUME TypeOK, TypeOK', MixInv, OverInv, TxRestart PROVE OverInv'
  <2>1. UNCHANGED <<heard, completed, link>> /\ call' = NoCall /\ epoch' = epoch + 1
    BY <1>2 DEF TxRestart, histVars
  <2>2. InFlight' \subseteq InFlight  BY <2>1 DEF InFlight, NoCall
  <2>3. epoch' > epoch  BY <1>2, <2>1 DEF TypeOK, TxTypes
  <2> QED BY <1>2, <2>1, <2>2, <2>3, EndOver
<1>3. TypeOK /\ TypeOK' /\ MixInv /\ MixInv' /\ OrderInv /\ ContentInv /\ DropInv /\ OverInv /\ [Next]_vars => OverInv'
  BY <1>1, <1>2, TxReadOver, TxReturnOver, RxVideoOver DEF Next, Tx, Rx, DropInv
<1> QED BY <1>3, InitOver, TypeCorrect, MixInvariant, OrderInvariant, ContentInvariant, DropInvariant, PTL DEF Spec

-----------------------------------------------------------------------------
(* What reassembly_feed() does to the drop statistics *)

\* p has the drop statistics of q, or those of q with one more drop, of frame_seq seq, unless
\* that one was counted last.
SameCount(q, p) ==
    /\ p.dropped_frames = q.dropped_frames /\ p.last_bad_seq = q.last_bad_seq
    /\ p.have_last_bad_seq = q.have_last_bad_seq
Counted(q, p, seq) ==
    /\ p.have_last_bad_seq /\ p.last_bad_seq = seq
    /\ p.dropped_frames = IF q.have_last_bad_seq /\ q.last_bad_seq = seq THEN q.dropped_frames
                          ELSE q.dropped_frames + 1

\* note_dropped() counts, reassembly_reset() and StartFrame do not.
LEMMA CountFacts ==
  ASSUME NEW q \in Reasm, NEW seq \in Nat, NEW c \in Chunk
  PROVE  /\ Counted(q, note_dropped(q, seq), seq)
         /\ SameCount(q, reassembly_reset(q)) /\ ~reassembly_reset(q).done
         /\ SameCount(q, StartFrame(q, c)) /\ ~StartFrame(q, c).done
         /\ SameCount(q, AppendPiece(q, c))
<1> DEFINE p == [q EXCEPT !.dropped_frames = q.dropped_frames + 1, !.last_bad_seq = seq,
                          !.have_last_bad_seq = TRUE]
<1>1. note_dropped(q, seq) = IF q.have_last_bad_seq /\ q.last_bad_seq = seq THEN q ELSE p
  BY DEF note_dropped
<1>2. p.dropped_frames = q.dropped_frames + 1 /\ p.last_bad_seq = seq /\ p.have_last_bad_seq = TRUE
  BY DEF Reasm
<1> HIDE DEF p
<1>3. Counted(q, note_dropped(q, seq), seq)  BY <1>1, <1>2 DEF Counted
<1>4. SameCount(q, reassembly_reset(q)) /\ ~reassembly_reset(q).done
  BY DEF SameCount, reassembly_reset, Reasm
<1>5. SameCount(q, StartFrame(q, c)) /\ ~StartFrame(q, c).done  BY DEF SameCount, StartFrame, Reasm
<1>6. SameCount(q, AppendPiece(q, c))  BY DEF SameCount, AppendPiece, Reasm
<1> QED BY <1>3, <1>4, <1>5, <1>6

\* Appending sets done only when it completes the frame.
LEMMA AppendDone ==
  ASSUME NEW q \in Reasm, NEW c \in Chunk, AppendPiece(q, c).done
  PROVE  q.done \/ AppendPiece(q, c).completed_frames > q.completed_frames
<1> DEFINE complete == EndsStreamed(q, c) \/ q.next_chunk_idx + 1 = q.chunk_count
<1>1. AppendPiece(q, c).done = (complete \/ q.done)  BY DEF AppendPiece, Reasm
<1>2. complete => AppendPiece(q, c).completed_frames = q.completed_frames + 1  BY AppendCompletes
<1>3. q.completed_frames + 1 > q.completed_frames  BY DEF Reasm
<1> HIDE DEF complete
<1>4. complete \/ q.done  BY <1>1, Zenon
<1> QED BY <1>2, <1>3, <1>4

\* A streamed frame in progress that chunk c finds without its end.
Unended(q, c) == IsNewFrame(q, c) /\ q.active /\ ~q.done /\ q.chunk_count = 0

\* reassembly_feed(): the frame in progress is counted if it was a streamed one without its end,
\* then the chunk's own frame if the chunk is refused.
LEMMA FeedCounts ==
  ASSUME NEW q \in Reasm, NEW c \in Chunk
  PROVE  LET p == reassembly_feed(q, c)
         IN  /\ \E g \in Reasm :
                  /\ IF Unended(q, c) THEN Counted(q, g, q.frame_seq) ELSE SameCount(q, g)
                  /\ IF p.active THEN SameCount(g, p) ELSE Counted(g, p, c.frame_seq)
             /\ p.active /\ p.done => (q.active /\ q.done) \/ p.completed_frames > q.completed_frames
             /\ p.active /\ c.chunk_count = 0 => p.chunk_count = 0
             /\ p.active /\ IsNewFrame(q, c) => c.chunk_idx = 0
<1> DEFINE r1 == GiveUpStreamed(q, c)
           r2 == BeforeAppend(q, c)
           p  == reassembly_feed(q, c)
<1>1. c.frame_seq \in Nat /\ c.chunk_idx \in Nat /\ q.frame_seq \in Nat  BY DEF Chunk, Reasm
<1>2. r1 \in Reasm /\ r1.completed_frames = q.completed_frames  BY GiveUpFacts
<1>3. IF Unended(q, c) THEN Counted(q, r1, q.frame_seq) ELSE SameCount(q, r1)
  <2>1. CASE Unended(q, c)
    <3>1. r1 = note_dropped(q, q.frame_seq)  BY <2>1 DEF Unended, GiveUpStreamed
    <3> QED BY <1>1, <2>1, <3>1, CountFacts
  <2>2. CASE ~Unended(q, c)
    <3>1. r1 = q  BY <2>2 DEF Unended, GiveUpStreamed
    <3> QED BY <2>2, <3>1 DEF SameCount
  <2> QED BY <2>1, <2>2
<1>4. r2 \in Reasm /\ SameCount(r1, r2) /\ r2.completed_frames = q.completed_frames
      /\ (r2.done => q.active /\ q.done) /\ r2.active
  <2>1. CASE IsNewFrame(q, c)
    <3>1. r2 = StartFrame(r1, c)  BY <2>1 DEF BeforeAppend
    <3> HIDE DEF r1, r2
    <3> QED BY <1>1, <1>2, <3>1, StartFrameFacts, CountFacts
  <2>2. CASE ~IsNewFrame(q, c)
    <3>1. r2 = q /\ r1 = q /\ q.active  BY <2>2 DEF BeforeAppend, GiveUpStreamed, IsNewFrame
    <3> QED BY <3>1 DEF SameCount
  <2> QED BY <2>1, <2>2
<1>5. CASE IsNewFrame(q, c) /\ c.chunk_idx # 0
  <2>1. p = reassembly_reset(note_dropped(r1, c.frame_seq))  BY <1>5 DEF reassembly_feed
  <2> HIDE DEF r1, r2
  <2>2. PICK g : g = note_dropped(r1, c.frame_seq)  OBVIOUS
  <2>3. g \in Reasm /\ Counted(r1, g, c.frame_seq)  BY <1>1, <1>2, <2>2, NoteDroppedFacts, CountFacts
  <2>4. p = reassembly_reset(g)  BY <2>1, <2>2
  <2> HIDE DEF p
  <2>5. SameCount(g, p) /\ ~p.active  BY <1>1, <2>3, <2>4, CountFacts, ResetFacts
  <2>6. Counted(r1, p, c.frame_seq)  BY <2>3, <2>5 DEF Counted, SameCount
  <2> QED BY <1>2, <1>3, <2>5, <2>6 DEF p
<1>6. CASE ~(IsNewFrame(q, c) /\ c.chunk_idx # 0) /\ ~Extends(r2, c)
  <2>1. p = reassembly_reset(note_dropped(r2, c.frame_seq))  BY <1>6 DEF reassembly_feed
  <2> HIDE DEF r1, r2
  <2>2. PICK g : g = note_dropped(r2, c.frame_seq)  OBVIOUS
  <2>3. g \in Reasm /\ Counted(r2, g, c.frame_seq)  BY <1>1, <1>4, <2>2, NoteDroppedFacts, CountFacts
  <2>4. p = reassembly_reset(g)  BY <2>1, <2>2
  <2> HIDE DEF p
  <2>5. SameCount(g, p) /\ ~p.active  BY <1>1, <2>3, <2>4, CountFacts, ResetFacts
  <2>6. Counted(r1, p, c.frame_seq)  BY <1>4, <2>3, <2>5 DEF Counted, SameCount
  <2> QED BY <1>2, <1>3, <2>5, <2>6 DEF p
<1>7. CASE ~(IsNewFrame(q, c) /\ c.chunk_idx # 0) /\ Extends(r2, c)
  <2>1. p = AppendPiece(r2, c)  BY <1>7 DEF reassembly_feed
  <2>2. c.chunk_count = 0 => r2.chunk_count = 0  BY <1>7 DEF Extends, EndsStreamed
  <2> HIDE DEF r1, r2
  <2>3. p.chunk_count = r2.chunk_count  BY <1>4, <2>1 DEF AppendPiece, Reasm
  <2>4. p.active /\ SameCount(r2, p)
    <3> HIDE DEF p
    <3> QED BY <1>1, <1>4, <2>1, AppendFacts, CountFacts
  <2>5. SameCount(r1, p)  BY <1>4, <2>4 DEF SameCount
  <2>6. p.done => (q.active /\ q.done) \/ p.completed_frames > q.completed_frames  BY <1>4, <2>1, AppendDone
  <2> HIDE DEF p
  <2> QED BY <1>2, <1>3, <1>7, <2>2, <2>3, <2>4, <2>5, <2>6 DEF p
<1> QED BY <1>5, <1>6, <1>7

-----------------------------------------------------------------------------
(* Every drop is a frame that was given up *)

\* The frame heard last is not in the buffer and was not completed: it was counted.
GivenUp == heard \in SeenFrames /\ heard \notin completed /\ ~r.active
One(b) == IF b THEN 1 ELSE 0

\* The frames of which a chunk without a count came in.
StreamedIds == {SeenId(s) : s \in {t \in seen : t.streamed}}

\* One run of tx, and frame_seq has not wrapped yet.
NoWrap == epoch = 0 /\ frame_no < SeqMod

\* What reassembly.c knows of the frame heard last.
NotedInv ==
    /\ IsFiniteSet(SeenFrames) /\ (seen # {} => heard \in SeenFrames)
    /\ r.active => heard \notin completed /\ ~r.done
    /\ GivenUp => r.have_last_bad_seq /\ r.last_bad_seq = heard.no % SeqMod
    /\ r.have_last_bad_seq => seen # {}
    /\ NoWrap =>
         /\ r.have_last_bad_seq => r.last_bad_seq <= heard.no
         /\ r.have_last_bad_seq /\ r.active => r.last_bad_seq < heard.no
         /\ r.active /\ heard \in StreamedIds => r.chunk_count = 0

\* The drops are frames given up, the one heard last among them, and no streamed one is missing.
DropsInv ==
    /\ r.dropped_frames <= Cardinality(Abandoned) + One(GivenUp)
    /\ NoWrap => r.dropped_frames >= Cardinality(Abandoned \cap StreamedIds) + One(GivenUp)

\* With one more frame at most, the set has one more element at most.
LEMMA OneMore ==
  ASSUME NEW S, IsFiniteSet(S), NEW x, NEW b \in BOOLEAN
  PROVE  LET T == IF b THEN S \cup {x} ELSE S
         IN  /\ IsFiniteSet(T) /\ Cardinality(S) \in Nat
             /\ x \notin S => Cardinality(T) = Cardinality(S) + One(b)
<1>1. Cardinality(S) \in Nat  BY FS_CardinalityType
<1>2. IsFiniteSet(S \cup {x}) /\ (x \notin S => Cardinality(S \cup {x}) = Cardinality(S) + 1)
  BY FS_AddElement
<1>3. CASE b  BY <1>1, <1>2, <1>3 DEF One
<1>4. CASE ~b  BY <1>1, <1>4 DEF One
<1> QED BY <1>3, <1>4

\* A video chunk comes in.
LEMMA RxVideoCounts ==
  ASSUME TypeOK, TypeOK', MixInv, SeenInv, OverInv, NotedInv, DropsInv, RxVideo
  PROVE  NotedInv' /\ DropsInv'
<1> DEFINE c  == Head(link)
           r1 == reassembly_feed(r, c)
           id == IdOf(c)
           new == [epoch |-> id.epoch, no |-> id.no, idx |-> c.chunk_idx, streamed |-> c.chunk_count = 0]
           complete == r1.completed_frames > r.completed_frames
<1>1. /\ UNCHANGED <<epoch, frame_no>> /\ link # << >> /\ link' = Tail(link)
      /\ c.codec = "h265" /\ WithinOutage(c) /\ heard' = id /\ seen' = seen \cup {new}
  BY DEF RxVideo, txVars, IdOf, Id
<1>2. c \in InFlight
  <2>1. link \in Seq(Chunk)  BY DEF TypeOK, TxTypes
  <2>2. c = link[1] /\ 1 \in DOMAIN link  BY <1>1, <2>1
  <2> QED BY <1>1, <2>2 DEF InFlight
<1>3. /\ c \in Chunk /\ Stamped(c) /\ id \in [epoch: Nat, no: Nat] /\ Leq(heard, id) /\ Leq(id, Hand)
      /\ c.chunk_idx \in Nat /\ c.frame_seq = id.no % SeqMod /\ c.frame_seq \in Nat
  <2>1. c \in Chunk /\ Stamped(c) /\ id \in [epoch: Nat, no: Nat] /\ Leq(heard, id) /\ Leq(id, Hand)
    <3> HIDE DEF c
    <3> QED BY <1>2, FlightFacts
  <2>2. \A d \in Chunk : d.chunk_idx \in Nat /\ d.frame_seq \in Nat  BY DEF Chunk
  <2>3. c.frame_seq = id.no % SeqMod
    <3> HIDE DEF c
    <3> QED BY <2>1 DEF Stamped, IdOf, Id
  <2> HIDE DEF c, id
  <2> QED BY <2>1, <2>2, <2>3
<1>4. SeenId(new) = id /\ new.idx = c.chunk_idx /\ (new.streamed => c.chunk_count = 0)
  <2>1. id = [epoch |-> id.epoch, no |-> id.no]  BY DEF IdOf, Id
  <2> HIDE DEF id, c
  <2> QED BY <2>1 DEF SeenId, Id
<1>5. \/ r' = r1 /\ completed' = completed /\ ~complete
      \/ r' = reassembly_reset(r1) /\ completed' = completed \cup {id} /\ complete
  BY DEF RxVideo, IdOf, Id
<1>6. r \in Reasm /\ r1 \in Reasm /\ (complete => r1.active)
  <2>1. r \in Reasm  BY DEF TypeOK, RxTypes
  <2>2. r1 \in Reasm /\ (r1.completed_frames # r.completed_frames => r1.active)
    <3> HIDE DEF c
    <3> QED BY <1>3, <2>1, FeedFacts, FeedOrder
  <2>3. r1.completed_frames \in Nat /\ r.completed_frames \in Nat
    <3> HIDE DEF r1
    <3> QED BY <2>1, <2>2 DEF Reasm
  <2> HIDE DEF r1
  <2> QED BY <2>1, <2>2, <2>3
<1>7. /\ r1.active /\ r1.done => (r.active /\ r.done) \/ complete
      /\ r1.active /\ c.chunk_count = 0 => r1.chunk_count = 0
      /\ r1.active /\ IsNewFrame(r, c) => c.chunk_idx = 0
      /\ \E h \in Reasm : /\ IF Unended(r, c) THEN Counted(r, h, r.frame_seq) ELSE SameCount(r, h)
                          /\ IF r1.active THEN SameCount(h, r1) ELSE Counted(h, r1, c.frame_seq)
  <2> HIDE DEF c
  <2> QED BY <1>3, <1>6, FeedCounts
<1>8. r1.active => r1.chunk_count = IF IsNewFrame(r, c) THEN Mode(c) ELSE r.chunk_count
  <2> HIDE DEF c
  <2> QED BY <1>3, <1>6, FeedMode
<1> HIDE DEF c, r1, id, new, complete
<1>9. PICK g \in Reasm : /\ IF Unended(r, c) THEN Counted(r, g, r.frame_seq) ELSE SameCount(r, g)
                         /\ IF r1.active THEN SameCount(g, r1) ELSE Counted(g, r1, c.frame_seq)
  BY <1>7
<1>10. SameCount(r1, r') /\ (r'.active <=> r1.active /\ ~complete) /\ (r'.active => r' = r1)
  <2>1. SameCount(r1, reassembly_reset(r1)) /\ ~reassembly_reset(r1).active
    BY <1>3, <1>6, CountFacts, ResetFacts
  <2>2. SameCount(r1, r1)  BY DEF SameCount
  <2> QED BY <1>5, <2>1, <2>2
<1>11. id \notin completed  BY <1>2 DEF OverInv, id
<1>12. heard \in [epoch: Nat, no: Nat] /\ (r.active => r.frame_seq = heard.no % SeqMod)
  BY DEF TypeOK, HistTypes, MixInv, BufInv
<1>13. /\ \A s \in seen : Leq(SeenId(s), heard) /\ SeenId(s) \in [epoch: Nat, no: Nat]
       /\ \A s \in seen : SeenId(s) = id => s.idx < c.chunk_idx /\ s.idx \in Nat
       /\ r.active => heard \in SeenFrames
  BY <1>2 DEF SeenInv, TypeOK, HistTypes, SeenId, Id, SeenFrames, id
<1>14. SeenFrames = {SeenId(s) : s \in seen} /\ SeenFrames' = SeenFrames \cup {id}
  <2>1. SeenFrames = {SeenId(s) : s \in seen}  BY DEF SeenFrames, SeenId
  <2>2. SeenFrames' = {SeenId(s) : s \in seen'}  BY DEF SeenFrames, SeenId, Id
  <2> QED BY <1>1, <1>4, <2>1, <2>2
<1>15. id # heard => id \notin SeenFrames
  <2> SUFFICES ASSUME id \in SeenFrames PROVE id = heard  OBVIOUS
  <2>1. Leq(id, heard)  BY <1>13, <1>14
  <2>2. id.epoch = heard.epoch /\ id.no = heard.no  BY <1>3, <1>12, <2>1 DEF Leq
  <2> QED BY <1>3, <1>12, <2>2
<1>16. id = heard /\ seen # {} => c.chunk_idx # 0
  <2> SUFFICES ASSUME id = heard, seen # {} PROVE c.chunk_idx # 0  OBVIOUS
  <2>1. heard \in SeenFrames  BY DEF NotedInv
  <2>2. PICK s \in seen : SeenId(s) = heard  BY <1>14, <2>1
  <2> QED BY <1>3, <1>13, <2>2
<1>17. GivenUp' <=> ~r1.active  BY <1>1, <1>5, <1>6, <1>10, <1>11, <1>14 DEF GivenUp
<1>18. id = heard /\ r.active => ~IsNewFrame(r, c) /\ ~Unended(r, c)
  BY <1>3, <1>12 DEF IsNewFrame, Unended
<1>19. id = heard /\ ~r.active /\ seen # {} => GivenUp /\ ~r1.active
  BY <1>7, <1>11, <1>16 DEF IsNewFrame, NotedInv, GivenUp
<1>20. r.active => heard \in SeenFrames /\ heard \notin completed /\ ~r.done /\ ~GivenUp
  BY <1>13 DEF NotedInv, GivenUp
<1>21. ASSUME NoWrap
       PROVE  /\ id.no \in Nat /\ heard.no \in Nat /\ c.frame_seq = id.no /\ heard.no <= id.no
              /\ id # heard => heard.no < id.no
              /\ r.active => r.frame_seq = heard.no
  <2>1. frame_no \in Nat /\ epoch = 0 /\ frame_no < SeqMod /\ SeqMod \in Nat \ {0}
    BY <1>21, Constants DEF NoWrap, TypeOK, TxTypes
  <2>2. Hand.epoch = 0 /\ Hand.no = frame_no  BY <2>1 DEF Hand, Id
  <2>3. id.epoch = 0 /\ heard.epoch = 0 /\ heard.no <= id.no /\ id.no <= frame_no
    BY <1>3, <1>12, <2>2 DEF Leq
  <2>4. id # heard => id.no # heard.no
    <3>1. id = [epoch |-> id.epoch, no |-> id.no] /\ heard = [epoch |-> heard.epoch, no |-> heard.no]
      BY <1>3, <1>12
    <3> QED BY <2>3, <3>1
  <2>5. id.no \in Nat /\ heard.no \in Nat  BY <1>3, <1>12
  <2>6. id.no % SeqMod = id.no /\ heard.no % SeqMod = heard.no
    <3>1. ASSUME NEW a \in Nat, a < SeqMod PROVE a % SeqMod = a
      <4>1. 0 \in Nat /\ a \in 0..(SeqMod - 1) /\ a = SeqMod * 0 + a  BY <2>1, <3>1
      <4> QED BY <2>1, <4>1, ModUnique
    <3>2. id.no < SeqMod /\ heard.no < SeqMod  BY <2>1, <2>3, <2>5
    <3> QED BY <2>5, <3>1, <3>2
  <2> QED BY <1>3, <1>12, <2>3, <2>4, <2>5, <2>6
<1>22. NoWrap' <=> NoWrap  BY <1>1 DEF NoWrap
<1>23. StreamedIds \subseteq SeenFrames /\ StreamedIds' \subseteq StreamedIds \cup {id}
       /\ StreamedIds \subseteq StreamedIds' /\ (id \in StreamedIds' => id \in StreamedIds \/ c.chunk_count = 0)
  <2>1. StreamedIds' = {SeenId(s) : s \in {t \in seen' : t.streamed}}  BY DEF StreamedIds, SeenId, Id
  <2>2. StreamedIds = {SeenId(s) : s \in {t \in seen : t.streamed}}  BY DEF StreamedIds
  <2> QED BY <1>1, <1>4, <1>14, <2>1, <2>2
<1>24. NotedInv'
  <2>1. IsFiniteSet(SeenFrames')
    <3>1. IsFiniteSet(SeenFrames)  BY DEF NotedInv
    <3>2. IsFiniteSet(SeenFrames \cup {id})  BY <3>1, FS_AddElement
    <3> QED BY <1>14, <3>2
  <2>2. heard' \in SeenFrames' /\ seen' # {}  BY <1>1, <1>14
  <2>3. ASSUME r'.active PROVE heard' \notin completed' /\ ~r'.done
    <3>1. r' = r1 /\ r1.active /\ ~complete  BY <1>10, <2>3
    <3>2. completed' = completed  BY <1>5, <3>1
    <3>3. r1.done => r.active /\ r.done  BY <1>7, <3>1
    <3>4. ~r1.done  BY <1>20, <3>3
    <3> QED BY <1>1, <1>11, <3>1, <3>2, <3>4
  <2>4. GivenUp' => r'.have_last_bad_seq /\ r'.last_bad_seq = heard'.no % SeqMod
    BY <1>1, <1>3, <1>9, <1>10, <1>17 DEF Counted, SameCount
  <2>5. ASSUME NoWrap
        PROVE  /\ r'.have_last_bad_seq => r'.last_bad_seq <= id.no
               /\ r'.have_last_bad_seq /\ r'.active => r'.last_bad_seq < id.no
               /\ r'.active /\ id \in StreamedIds' => r'.chunk_count = 0
    <3>1. r.last_bad_seq \in Nat /\ g.last_bad_seq \in Nat /\ r'.last_bad_seq = r1.last_bad_seq
          /\ r'.have_last_bad_seq = r1.have_last_bad_seq
      BY <1>6, <1>9, <1>10 DEF Reasm, SameCount
    <3>2. /\ id.no \in Nat /\ heard.no \in Nat /\ c.frame_seq = id.no /\ heard.no <= id.no
          /\ id # heard => heard.no < id.no
          /\ r.active => r.frame_seq = heard.no
      BY <1>21, <2>5
    <3>3. g.have_last_bad_seq => g.last_bad_seq <= heard.no
      <4>1. CASE Unended(r, c)
        <5>1. g.last_bad_seq = r.frame_seq /\ r.active  BY <1>9, <4>1 DEF Counted, Unended
        <5> QED BY <3>2, <5>1
      <4>2. CASE ~Unended(r, c)
        <5>1. SameCount(r, g)  BY <1>9, <4>2
        <5> QED BY <2>5, <5>1 DEF NotedInv, SameCount
      <4> QED BY <4>1, <4>2
    <3>4. r1.have_last_bad_seq => r1.last_bad_seq <= id.no
      <4>1. CASE r1.active
        <5>1. SameCount(g, r1)  BY <1>9, <4>1
        <5>2. g.have_last_bad_seq => g.last_bad_seq <= id.no  BY <3>1, <3>2, <3>3
        <5> QED BY <5>1, <5>2 DEF SameCount
      <4>2. CASE ~r1.active
        <5>1. r1.last_bad_seq = id.no  BY <1>9, <3>2, <4>2 DEF Counted
        <5> QED BY <3>2, <5>1
      <4> QED BY <4>1, <4>2
    <3>5. ASSUME r1.have_last_bad_seq, r1.active PROVE r1.last_bad_seq < id.no
      <4>1. SameCount(g, r1)  BY <1>9, <3>5
      <4>2. g.have_last_bad_seq /\ g.last_bad_seq = r1.last_bad_seq  BY <3>5, <4>1 DEF SameCount
      <4>3. CASE id = heard
        <5>1. SameCount(r, g)  BY <1>9, <1>18, <4>3 DEF Unended
        <5>2. r.have_last_bad_seq /\ seen # {}  BY <4>2, <5>1 DEF SameCount, NotedInv
        <5>3. r.active  BY <1>19, <3>5, <4>3, <5>2
        <5>4. r.last_bad_seq < heard.no  BY <2>5, <5>2, <5>3 DEF NotedInv
        <5> QED BY <4>2, <4>3, <5>1, <5>4 DEF SameCount
      <4>4. CASE id # heard  BY <3>1, <3>2, <3>3, <4>2, <4>4
      <4> QED BY <4>3, <4>4
    <3>6. ASSUME r'.active, id \in StreamedIds' PROVE r'.chunk_count = 0
      <4>1. r' = r1 /\ r1.active  BY <1>10, <3>6
      <4>2. CASE c.chunk_count = 0  BY <1>7, <4>1, <4>2
      <4>3. CASE id \in StreamedIds
        <5>1. id = heard /\ seen # {}  BY <1>14, <1>15, <1>23, <4>3
        <5>2. r.active /\ ~IsNewFrame(r, c)  BY <1>18, <1>19, <4>1, <5>1
        <5>3. r.chunk_count = 0  BY <2>5, <4>3, <5>1, <5>2 DEF NotedInv
        <5> QED BY <1>8, <4>1, <5>2, <5>3
      <4> QED BY <1>23, <3>6, <4>2, <4>3
    <3> QED BY <1>10, <3>1, <3>4, <3>5, <3>6
  <2> QED BY <1>1, <1>22, <2>1, <2>2, <2>3, <2>4, <2>5 DEF NotedInv
<1>25. DropsInv'
  <2> DEFINE A == Abandoned
             S == Abandoned \cap StreamedIds
             h == heard \in SeenFrames /\ heard \notin completed /\ id # heard
  <2>1. IsFiniteSet(A) /\ IsFiniteSet(S) /\ heard \notin A /\ heard \notin S
    <3>1. IsFiniteSet(SeenFrames)  BY DEF NotedInv
    <3>2. A \in SUBSET SeenFrames /\ S \in SUBSET SeenFrames /\ heard \notin A /\ heard \notin S
      BY DEF Abandoned
    <3> QED BY <3>1, <3>2, FS_Subset
  <2>2. Abandoned' = IF h THEN A \cup {heard} ELSE A
    BY <1>1, <1>5, <1>11, <1>14, <1>15 DEF Abandoned
  <2>3. (Abandoned \cap StreamedIds)' = IF h /\ heard \in StreamedIds THEN S \cup {heard} ELSE S
    <3>1. id \notin Abandoned'  BY <1>1 DEF Abandoned
    <3>2. \A f : f # id => (f \in StreamedIds' <=> f \in StreamedIds)  BY <1>23
    <3> QED BY <2>2, <3>1, <3>2
  <2>4. PICK a \in Nat : a = Cardinality(A)  BY <2>1, FS_CardinalityType
  <2>5. PICK s \in Nat : s = Cardinality(S)  BY <2>1, FS_CardinalityType
  <2>6. Cardinality(Abandoned') = a + One(h)  BY <2>1, <2>2, <2>4, OneMore
  <2>7. Cardinality((Abandoned \cap StreamedIds)') = IF h /\ heard \in StreamedIds THEN s + 1 ELSE s
    <3> HIDE DEF S, h
    <3>1. Cardinality(S \cup {heard}) = s + 1  BY <2>1, <2>5, FS_AddElement
    <3> QED BY <2>3, <2>5, <3>1
  <2>8. PICK D \in Nat : D = r.dropped_frames  BY <1>6 DEF Reasm
  <2>9. PICK G \in Nat : G = g.dropped_frames  BY <1>9 DEF Reasm
  <2>10. PICK E \in Nat : E = r1.dropped_frames  BY <1>6 DEF Reasm
  <2>11. r'.dropped_frames = E  BY <1>10, <2>10 DEF SameCount
  <2>12. D <= a + One(GivenUp) /\ (NoWrap => D >= s + One(GivenUp))
    BY <2>4, <2>5, <2>8 DEF DropsInv, A, S
  <2>13. D <= G /\ G <= D + 1 /\ (~Unended(r, c) => G = D)
    BY <1>9, <2>8, <2>9 DEF Counted, SameCount
  <2>14. G <= E /\ E <= G + 1 /\ (r1.active => E = G)
    BY <1>9, <2>9, <2>10 DEF Counted, SameCount
  <2>15. GivenUp \/ Unended(r, c) => heard \in SeenFrames /\ heard \notin completed
    BY <1>20 DEF GivenUp, Unended
  <2>16. GivenUp => ~Unended(r, c)  BY DEF GivenUp, Unended
  <2>17. E <= a + One(h) + One(GivenUp')
    <3>1. CASE id = heard /\ ~r.active /\ seen # {}
      <4>1. GivenUp /\ GivenUp' /\ ~Unended(r, c)  BY <1>17, <1>19, <2>16, <3>1
      <4>2. r.have_last_bad_seq /\ r.last_bad_seq = c.frame_seq  BY <1>3, <3>1, <4>1 DEF NotedInv
      <4>3. g.have_last_bad_seq /\ g.last_bad_seq = c.frame_seq  BY <1>9, <4>1, <4>2 DEF SameCount
      <4>4. E = G  BY <1>9, <2>9, <2>10, <4>3 DEF Counted, SameCount
      <4> QED BY <2>12, <2>13, <3>1, <4>1, <4>4 DEF One
    <3>2. CASE id = heard /\ (r.active \/ seen = {})
      <4>1. ~GivenUp /\ ~Unended(r, c)
        <5>1. seen = {} => SeenFrames = {}  BY <1>14
        <5> QED BY <1>18, <1>20, <3>2, <5>1 DEF GivenUp, Unended
      <4> QED BY <1>17, <2>12, <2>13, <2>14, <3>2, <4>1 DEF One
    <3>3. CASE id # heard
      <4>1. G <= a + One(h)
        <5>1. CASE GivenUp  BY <2>12, <2>13, <2>15, <2>16, <3>3, <5>1 DEF One
        <5>2. CASE ~GivenUp /\ Unended(r, c)  BY <2>12, <2>13, <2>15, <3>3, <5>2 DEF One
        <5>3. CASE ~GivenUp /\ ~Unended(r, c)  BY <2>12, <2>13, <5>3 DEF One
        <5> QED BY <5>1, <5>2, <5>3
      <4>2. One(h) \in Nat /\ (r1.active => E = G) /\ E <= G + 1  BY <2>14 DEF One
      <4> HIDE DEF h
      <4> QED BY <1>17, <4>1, <4>2 DEF One
    <3> QED BY <3>1, <3>2, <3>3
  <2>18. ASSUME NoWrap PROVE E >= (IF h /\ heard \in StreamedIds THEN s + 1 ELSE s) + One(GivenUp')
    <3>1. /\ id.no \in Nat /\ heard.no \in Nat /\ c.frame_seq = id.no /\ heard.no <= id.no
          /\ id # heard => heard.no < id.no
          /\ r.active => r.frame_seq = heard.no
      BY <1>21, <2>18
    <3>2. /\ r.last_bad_seq \in Nat /\ g.last_bad_seq \in Nat
          /\ r.have_last_bad_seq => r.last_bad_seq <= heard.no
          /\ r.have_last_bad_seq /\ r.active => r.last_bad_seq < heard.no
          /\ r.active /\ heard \in StreamedIds => r.chunk_count = 0
      BY <1>6, <1>9, <2>18 DEF Reasm, NotedInv
    <3>3. ASSUME g.have_last_bad_seq => g.last_bad_seq # c.frame_seq PROVE E = G + One(GivenUp')
      <4>1. CASE r1.active  BY <1>17, <2>14, <4>1 DEF One
      <4>2. CASE ~r1.active  BY <1>9, <1>17, <2>9, <2>10, <3>3, <4>2 DEF One, Counted
      <4> QED BY <4>1, <4>2
    <3>4. CASE id = heard /\ ~r.active /\ seen # {}
      <4>1. GivenUp /\ GivenUp' /\ ~h  BY <1>17, <1>19, <3>4
      <4> QED BY <2>12, <2>13, <2>14, <2>18, <4>1 DEF One
    <3>5. CASE id = heard /\ (r.active \/ seen = {})
      <4>1. ~GivenUp /\ ~Unended(r, c) /\ ~h
        <5>1. seen = {} => SeenFrames = {}  BY <1>14
        <5> QED BY <1>18, <1>20, <3>5, <5>1 DEF GivenUp, Unended
      <4>2. r.have_last_bad_seq => r.active /\ r.last_bad_seq # c.frame_seq
        BY <3>1, <3>2, <3>5 DEF NotedInv
      <4>3. E = G + One(GivenUp')  BY <1>9, <3>3, <4>1, <4>2 DEF SameCount
      <4> HIDE DEF h
      <4> QED BY <2>12, <2>13, <2>18, <4>1, <4>3 DEF One
    <3>6. CASE id # heard
      <4>1. g.have_last_bad_seq => g.last_bad_seq <= heard.no
        <5>1. CASE Unended(r, c)
          <6>1. g.last_bad_seq = r.frame_seq /\ r.active  BY <1>9, <5>1 DEF Counted, Unended
          <6> QED BY <3>1, <6>1
        <5>2. CASE ~Unended(r, c)  BY <1>9, <3>2, <5>2 DEF SameCount
        <5> QED BY <5>1, <5>2
      <4>2. E = G + One(GivenUp')
        <5>1. g.have_last_bad_seq => g.last_bad_seq # c.frame_seq  BY <3>1, <3>2, <3>6, <4>1
        <5> QED BY <3>3, <5>1
      <4>3. G >= IF h /\ heard \in StreamedIds THEN s + 1 ELSE s
        <5>1. CASE GivenUp \/ ~(h /\ heard \in StreamedIds)
          <6>1. G >= D /\ D >= s + One(GivenUp)  BY <2>12, <2>13, <2>18
          <6> HIDE DEF h
          <6> QED BY <5>1, <6>1 DEF One
        <5>2. CASE ~GivenUp /\ h /\ heard \in StreamedIds
          <6>1. r.active /\ ~r.done /\ r.chunk_count = 0  BY <1>20, <3>2, <5>2 DEF GivenUp
          <6>2. IsNewFrame(r, c)
            <7>1. c.frame_seq # r.frame_seq  BY <3>1, <3>6, <6>1
            <7> QED BY <7>1 DEF IsNewFrame
          <6>3. Unended(r, c)  BY <6>1, <6>2 DEF Unended
          <6>4. r.have_last_bad_seq => r.last_bad_seq # r.frame_seq  BY <3>1, <3>2, <6>1
          <6>5. G = D + 1  BY <1>9, <2>8, <2>9, <6>3, <6>4 DEF Counted
          <6>6. D >= s  BY <2>12, <2>18, <5>2 DEF One
          <6> QED BY <5>2, <6>5, <6>6
        <5> QED BY <5>1, <5>2
      <4>4. One(GivenUp') \in Nat  BY DEF One
      <4> HIDE DEF h
      <4> QED BY <4>2, <4>3, <4>4
    <3> QED BY <3>4, <3>5, <3>6
  <2> HIDE DEF h
  <2>19. r'.dropped_frames <= Cardinality(Abandoned') + One(GivenUp')  BY <2>6, <2>11, <2>17
  <2>20. NoWrap' => r'.dropped_frames >= Cardinality((Abandoned \cap StreamedIds)') + One(GivenUp')
    BY <1>22, <2>7, <2>11, <2>18
  <2> QED BY <2>19, <2>20 DEF DropsInv, One
<1> QED BY <1>24, <1>25

\* The frames completed lie between the first and the last of them, last_frame_seq is the number of
\* the last, and frames_lost is the number of those between that are missing.
LostInv ==
    /\ IsFiniteSet(completed)
    /\ epoch = 0 =>
         /\ completed = {} => last_frame_seq = -1 /\ frames_lost = 0
         /\ completed # {} =>
              \E a, b \in completed :
                 /\ \A x \in completed : a.no <= x.no /\ x.no <= b.no
                 /\ last_frame_seq = b.no % SeqMod
                 /\ NoLongGap => frames_lost = b.no - a.no + 1 - Cardinality(completed)

\* The gap between two numbers modulo the wrap, when it is shorter than that.
LEMMA GapModulo ==
  ASSUME NEW a \in Nat, NEW b \in Nat, NEW M \in Nat \ {0}, a <= b, b - a < M
  PROVE  ((b % M) - (a % M)) % M = b - a
<1>1. PICK p \in Nat : a = M * p + (a % M)  BY DivMod
<1>2. PICK q \in Nat : b = M * q + (b % M)  BY DivMod
<1>3. PICK x \in 0..(M - 1) : x = a % M  BY DivMod
<1>4. PICK y \in 0..(M - 1) : y = b % M  BY DivMod
<1>5. M * p \in Nat /\ M * q \in Nat  OBVIOUS
<1>6. CASE p = q
  <2>1. b - a = y - x /\ y - x \in 0..(M - 1)  BY <1>1, <1>2, <1>3, <1>4, <1>5, <1>6
  <2>2. PICK z \in Nat : z = y - x  BY <2>1
  <2>3. z \in 0..(M - 1) /\ 0 \in Nat /\ z = M * 0 + z  BY <2>1, <2>2
  <2>4. z % M = z  BY <2>3, ModUnique
  <2> QED BY <1>3, <1>4, <2>1, <2>2, <2>4
<1>7. CASE q = p + 1
  <2>1. M * q = M * p + M  BY <1>7
  <2>2. b - a = y - x + M /\ y - x + M \in 0..(M - 1)  BY <1>1, <1>2, <1>3, <1>4, <1>5, <2>1
  <2>3. PICK z \in 1..M : z = x - y  BY <2>2
  <2>4. (y - x) % M = y - x + M
    <3>1. y - x \in Int  OBVIOUS
    <3>2. (y - x) % M \in 0..(M - 1) /\ y - x = M * ((y - x) \div M) + ((y - x) % M)
          /\ (y - x) \div M \in Int
      BY <3>1
    <3>3. PICK d \in Int : d = (y - x) \div M  BY <3>2
    <3>4. PICK m \in 0..(M - 1) : m = (y - x) % M  BY <3>2
    <3>5. y - x = M * d + m  BY <3>2, <3>3, <3>4
    <3>6. d = -1
      <4>1. ~(d >= 0)
        <5> SUFFICES ASSUME d >= 0 PROVE FALSE  OBVIOUS
        <5>1. M * d >= 0 /\ M * d \in Int  BY SMTT(20)
        <5> QED BY <2>3, <3>5, <5>1
      <4>2. ~(d <= -2)
        <5> SUFFICES ASSUME d <= -2 PROVE FALSE  OBVIOUS
        <5>1. PICK e \in Nat : d = -2 - e
          <6>1. -2 - d \in Nat  OBVIOUS
          <6> QED BY <6>1
        <5>2. M * d = -2 * M - M * e  BY <5>1
        <5>3. M * e \in Nat  OBVIOUS
        <5> QED BY <3>5, <5>2, <5>3
      <4> QED BY <4>1, <4>2
    <3>7. M * d = -M  BY <3>6
    <3> QED BY <3>4, <3>5, <3>7
  <2> QED BY <1>3, <1>4, <2>2, <2>4
<1>8. ~(q < p)  BY <1>1, <1>2, <1>3, <1>4, <1>5, TimesMono
<1>9. ~(p + 1 < q)
  <2> SUFFICES ASSUME p + 1 < q PROVE FALSE  OBVIOUS
  <2>1. p + 1 \in Nat /\ M * (p + 1) + M <= M * q  BY TimesMono
  <2>2. M * (p + 1) = M * p + M  OBVIOUS
  <2> QED BY <1>1, <1>2, <1>3, <1>4, <1>5, <2>1, <2>2
<1> QED BY <1>6, <1>7, <1>8, <1>9

\* rx/main.c:616-622: a frame completes, and the numbers between it and the one completed before
\* are counted.
LEMMA RxVideoLost ==
  ASSUME TypeOK, TypeOK', MixInv, OverInv, LostInv, RxVideo
  PROVE  LostInv'
<1> DEFINE c  == Head(link)
           r1 == reassembly_feed(r, c)
           id == IdOf(c)
<1>1. /\ UNCHANGED <<epoch, frame_no>> /\ link # << >> /\ c.codec = "h265"
  BY DEF RxVideo, txVars
<1>2. c \in InFlight
  <2>1. link \in Seq(Chunk)  BY DEF TypeOK, TxTypes
  <2>2. c = link[1] /\ 1 \in DOMAIN link  BY <1>1, <2>1
  <2> QED BY <1>1, <2>2 DEF InFlight
<1>3. /\ c \in Chunk /\ id \in [epoch: Nat, no: Nat] /\ Leq(heard, id) /\ Leq(id, Hand)
      /\ c.frame_seq = id.no % SeqMod
  <2>1. c \in Chunk /\ Stamped(c) /\ id \in [epoch: Nat, no: Nat] /\ Leq(heard, id) /\ Leq(id, Hand)
    <3> HIDE DEF c
    <3> QED BY <1>2, FlightFacts
  <2> HIDE DEF c
  <2> QED BY <2>1 DEF Stamped, IdOf, Id
<1>4. \/ UNCHANGED <<completed, frames_lost, last_frame_seq>>
      \/ /\ completed' = completed \cup {id} /\ r1.completed_frames > r.completed_frames
         /\ frames_lost' = CountLost(r1.frame_seq) /\ last_frame_seq' = r1.frame_seq
  BY DEF RxVideo, IdOf, Id
<1>5. r1.completed_frames > r.completed_frames => r1.frame_seq = id.no % SeqMod
  <2>1. r \in Reasm  BY DEF TypeOK, RxTypes
  <2>2. r1 \in Reasm /\ (Refuses(r, r1) \/ Takes(r, c, r1))
    <3> HIDE DEF c
    <3> QED BY <1>3, <2>1, FeedFacts
  <2>3. r.completed_frames \in Nat  BY <2>1 DEF Reasm
  <2> HIDE DEF r1, c, id
  <2> QED BY <1>3, <2>2, <2>3 DEF Refuses, Takes
<1>6. id \notin completed  BY <1>2 DEF OverInv
<1> HIDE DEF c, r1, id
<1>7. IsFiniteSet(completed) /\ completed \subseteq [epoch: Nat, no: Nat]
      /\ heard \in [epoch: Nat, no: Nat] /\ frames_lost \in Nat /\ Hand.epoch = epoch
  BY DEF LostInv, TypeOK, HistTypes, RxTypes, Hand, Id
<1>8. CASE UNCHANGED <<completed, frames_lost, last_frame_seq>>
  BY <1>1, <1>8 DEF LostInv, NoLongGap, CompletedNos
<1>9. CASE /\ completed' = completed \cup {id} /\ r1.completed_frames > r.completed_frames
           /\ frames_lost' = CountLost(r1.frame_seq) /\ last_frame_seq' = r1.frame_seq
  <2>1. IsFiniteSet(completed') /\ Cardinality(completed') = Cardinality(completed) + 1
        /\ Cardinality(completed) \in Nat
    BY <1>6, <1>7, <1>9, FS_AddElement, FS_CardinalityType
  <2>2. r1.frame_seq = id.no % SeqMod /\ id.no \in Nat  BY <1>3, <1>5, <1>9
  <2> SUFFICES ASSUME epoch = 0
               PROVE  \E a, b \in completed' :
                         /\ \A x \in completed' : a.no <= x.no /\ x.no <= b.no
                         /\ last_frame_seq' = b.no % SeqMod
                         /\ NoLongGap' => frames_lost' = b.no - a.no + 1 - Cardinality(completed')
    BY <1>1, <1>9, <2>1 DEF LostInv
  <2>3. ASSUME NEW f \in completed PROVE f.no \in Nat /\ f.no < id.no
    <3>1. Leq(f, heard) /\ f \in [epoch: Nat, no: Nat] /\ f # id  BY <1>6, <1>7 DEF OverInv
    <3>2. f.epoch \in Nat /\ f.no \in Nat /\ heard.epoch \in Nat /\ heard.no \in Nat
          /\ id.epoch \in Nat /\ id.no \in Nat
      BY <1>3, <1>7, <3>1
    <3>3. id.epoch = 0 /\ heard.epoch = 0 /\ heard.no <= id.no  BY <1>3, <1>7, <3>2 DEF Leq
    <3>4. f.epoch = 0 /\ f.no <= heard.no  BY <3>1, <3>2, <3>3 DEF Leq
    <3>5. f = [epoch |-> f.epoch, no |-> f.no] /\ id = [epoch |-> id.epoch, no |-> id.no]
      BY <1>3, <3>1
    <3>6. f.no # id.no  BY <3>1, <3>3, <3>4, <3>5
    <3> QED BY <3>2, <3>3, <3>4, <3>6
  <2>4. CASE completed = {}
    <3>1. last_frame_seq = -1 /\ frames_lost = 0  BY <2>4 DEF LostInv
    <3>2. frames_lost' = 0  BY <1>9, <3>1 DEF CountLost
    <3>3. completed' = {id} /\ Cardinality(completed) = 0  BY <1>9, <2>4, FS_EmptySet
    <3>4. frames_lost' = id.no - id.no + 1 - Cardinality(completed')  BY <2>1, <2>2, <3>2, <3>3
    <3>5. id.no <= id.no  BY <2>2
    <3> QED BY <1>9, <2>2, <3>3, <3>4, <3>5
  <2>5. CASE completed # {}
    <3>1. PICK a, b \in completed :
                 /\ \A x \in completed : a.no <= x.no /\ x.no <= b.no
                 /\ last_frame_seq = b.no % SeqMod
                 /\ NoLongGap => frames_lost = b.no - a.no + 1 - Cardinality(completed)
      BY <2>5 DEF LostInv
    <3>2. a.no \in Nat /\ b.no \in Nat /\ a.no < id.no /\ b.no < id.no  BY <2>3
    <3>3. \A x \in completed' : a.no <= x.no /\ x.no <= id.no
      <4>1. \A x \in completed : a.no <= x.no /\ x.no <= id.no  BY <2>2, <2>3, <3>1
      <4>2. a.no <= id.no /\ id.no <= id.no  BY <2>2, <3>2
      <4> QED BY <1>9, <4>1, <4>2
    <3>4. ASSUME NoLongGap' PROVE frames_lost' = id.no - a.no + 1 - Cardinality(completed')
      <4>1. CompletedNos' = CompletedNos \cup {id.no}  BY <1>9 DEF CompletedNos
      <4>2. \A x \in CompletedNos : x \in Nat /\ x < id.no /\ x <= b.no  BY <2>3, <3>1 DEF CompletedNos
      <4>3. b.no \in CompletedNos  BY DEF CompletedNos
      <4>4. NoLongGap
        <5> SUFFICES ASSUME NEW x \in CompletedNos, NEW y \in CompletedNos, x < y,
                            \A z \in CompletedNos : z <= x \/ y <= z
                     PROVE  y - x < LossJump
          BY DEF NoLongGap
        <5>1. \A z \in CompletedNos' : z <= x \/ y <= z
          <6>1. y <= id.no  BY <2>2, <4>2
          <6> QED BY <4>1, <6>1
        <5> QED BY <3>4, <4>1, <5>1 DEF NoLongGap
      <4>5. id.no - b.no < LossJump
        <5>1. id.no \in CompletedNos' /\ b.no \in CompletedNos'  BY <4>1, <4>3
        <5>2. \A z \in CompletedNos' : z <= b.no \/ id.no <= z
          <6>1. id.no <= id.no  BY <2>2
          <6> QED BY <4>1, <4>2, <6>1
        <5> QED BY <3>2, <3>4, <5>1, <5>2 DEF NoLongGap
      <4>6. SeqMod \in Nat \ {0} /\ LossJump \in Nat /\ LossJump <= SeqMod  BY Constants
      <4>7. (r1.frame_seq - last_frame_seq) % SeqMod = id.no - b.no
        <5>1. b.no <= id.no /\ id.no - b.no < SeqMod  BY <2>2, <3>2, <4>5, <4>6
        <5>2. PICK m \in Nat : m = b.no  BY <3>2
        <5>3. PICK n \in Nat : n = id.no  BY <2>2
        <5>4. m <= n /\ n - m < SeqMod  BY <5>1, <5>2, <5>3
        <5>5. ((n % SeqMod) - (m % SeqMod)) % SeqMod = n - m  BY <4>6, <5>4, GapModulo
        <5>6. r1.frame_seq = n % SeqMod /\ last_frame_seq = m % SeqMod  BY <2>2, <3>1, <5>2, <5>3
        <5> QED BY <5>2, <5>3, <5>5, <5>6
      <4>8. last_frame_seq # -1
        <5>1. PICK m \in Nat : m = b.no  BY <3>2
        <5>2. m % SeqMod \in 0..(SeqMod - 1)  BY <4>6, DivMod
        <5>3. last_frame_seq = m % SeqMod  BY <3>1, <5>1
        <5>4. last_frame_seq >= 0  BY <4>6, <5>2, <5>3
        <5> QED BY <5>4
      <4>9. frames_lost' = IF id.no - b.no > 1 /\ id.no - b.no < LossJump
                           THEN frames_lost + (id.no - b.no) - 1 ELSE frames_lost
        BY <1>9, <4>7, <4>8 DEF CountLost
      <4>10. frames_lost' = frames_lost + (id.no - b.no) - 1  BY <1>7, <2>2, <3>2, <4>5, <4>9
      <4>11. frames_lost = b.no - a.no + 1 - Cardinality(completed)  BY <3>1, <4>4
      <4> QED BY <1>7, <2>1, <2>2, <3>2, <4>10, <4>11
    <3>5. a \in completed' /\ id \in completed' /\ last_frame_seq' = id.no % SeqMod  BY <1>9, <2>2
    <3> QED BY <3>3, <3>4, <3>5
  <2> QED BY <2>4, <2>5
<1> QED BY <1>4, <1>8, <1>9

\* Only a video chunk that comes in moves the counters, and only a restart of tx or a new frame
\* moves the numbers of tx, upwards.
LEMMA RxAlone ==
  ASSUME TypeOK, TypeOK', [Next]_vars
  PROVE  RxVideo \/ (UNCHANGED <<rxVars, histVars>> /\ (NoWrap' => NoWrap) /\ (epoch' = 0 => epoch = 0))
<1>1. RxVideo \/ UNCHANGED <<rxVars, histVars>>
  BY DEF Next, Tx, Rx, EncodeFrame, EncodeSlice, EncoderRestart, Publish, OutqPush, TxRead, TxWrite,
         TxWriteFails, TxReturn, TxTimeout, TxReconnect, TxRestart, LinkLose, RxAux, vars, rxVars, histVars
<1>2. epoch' = epoch + 1 \/ (epoch' = epoch /\ frame_no' \in {frame_no, frame_no + 1})
  BY DEF Next, Tx, Rx, EncodeFrame, EncodeSlice, EncoderRestart, Publish, OutqPush, TxRead, TxWrite,
         TxWriteFails, TxReturn, EndFrame, TxTimeout, TxReconnect, TxRestart, LinkLose, RxAux, RxVideo, vars, txVars
<1>3. epoch \in Nat /\ frame_no \in Nat /\ SeqMod \in Nat  BY Constants DEF TypeOK, TxTypes
<1>4. epoch' = 0 => epoch = 0  BY <1>2, <1>3
<1>5. NoWrap' => NoWrap  BY <1>2, <1>3 DEF NoWrap
<1> QED BY <1>1, <1>4, <1>5

\* The invariant behind CountersExact.
CounterInv == NotedInv /\ DropsInv /\ LostInv

\* Nothing came in yet.
LEMMA InitCounters == Init => CounterInv
<1> SUFFICES ASSUME Init PROVE CounterInv  OBVIOUS
<1>1. /\ seen = {} /\ completed = {} /\ frames_lost = 0 /\ last_frame_seq = -1
      /\ ~r.active /\ ~r.have_last_bad_seq /\ r.dropped_frames = 0
  BY DEF Init, reassembly_init
<1>2. SeenFrames = {} /\ Abandoned = {} /\ ~GivenUp  BY <1>1 DEF SeenFrames, Abandoned, GivenUp
<1>3. IsFiniteSet({}) /\ Cardinality({}) = 0  BY FS_EmptySet
<1>4. Abandoned \cap StreamedIds = {}  BY <1>2
<1>5. NotedInv  BY <1>1, <1>2, <1>3 DEF NotedInv
<1>6. DropsInv  BY <1>1, <1>2, <1>3, <1>4 DEF DropsInv, One
<1> QED BY <1>1, <1>3, <1>5, <1>6 DEF CounterInv, LostInv

\* CounterInv is inductive.
THEOREM CounterInvariant == Spec => []CounterInv
<1>1. ASSUME TypeOK, TypeOK', MixInv, DropInv, OverInv, CounterInv, [Next]_vars PROVE CounterInv'
  <2>1. CASE RxVideo  BY <1>1, <2>1, RxVideoCounts, RxVideoLost DEF CounterInv, DropInv
  <2>2. CASE UNCHANGED <<rxVars, histVars>> /\ (NoWrap' => NoWrap) /\ (epoch' = 0 => epoch = 0)
    <3>1. UNCHANGED <<r, frames_lost, last_frame_seq, heard, seen, completed>>  BY <2>2 DEF rxVars, histVars
    <3>2. SeenFrames' = SeenFrames /\ Abandoned' = Abandoned /\ StreamedIds' = StreamedIds
          /\ (GivenUp' <=> GivenUp) /\ (NoLongGap' <=> NoLongGap)
      BY <3>1 DEF SeenFrames, Abandoned, StreamedIds, GivenUp, NoLongGap, CompletedNos, SeenId, Id
    <3>3. One(GivenUp)' = One(GivenUp) /\ (Abandoned \cap StreamedIds)' = Abandoned \cap StreamedIds
      BY <3>2 DEF One
    <3>4. NotedInv'  BY <1>1, <2>2, <3>1, <3>2 DEF CounterInv, NotedInv
    <3>5. DropsInv'  BY <1>1, <2>2, <3>1, <3>2, <3>3 DEF CounterInv, DropsInv
    <3>6. LostInv'  BY <1>1, <2>2, <3>1, <3>2 DEF CounterInv, LostInv
    <3> QED BY <3>4, <3>5, <3>6 DEF CounterInv
  <2> QED BY <1>1, <2>1, <2>2, RxAlone
<1> QED BY <1>1, InitCounters, TypeCorrect, MixInvariant, DropInvariant, OverInvariant, PTL DEF Spec

\* The loss counters of rx (reassembly.c:25-33, rx/main.c:616-622): dropped_frames never counts more
\* than the distinct frames that came in and were not completed and, before frame_seq wraps, misses
\* no streamed frame that was given up; frames_lost is the number of frames missing between the
\* first and the last completed one, across wraps of the 16-bit frame_seq.
THEOREM CountersExactHolds == Spec => []CountersExact
<1>1. ASSUME TypeOK, CounterInv PROVE CountersExact
  <2>1. IsFiniteSet(SeenFrames)  BY <1>1 DEF CounterInv, NotedInv
  <2>2. DropsAreDistinctFrames
    <3>1. IsFiniteSet(SeenFrames \ completed)  BY <2>1, FS_Difference
    <3>2. Cardinality(SeenFrames \ completed) \in Nat /\ Cardinality(Abandoned) \in Nat
          /\ Cardinality(Abandoned) <= Cardinality(SeenFrames \ completed)
          /\ (heard \in SeenFrames \ completed => Cardinality(Abandoned) = Cardinality(SeenFrames \ completed) - 1)
      <4>1. PICK S : S = SeenFrames \ completed  OBVIOUS
      <4>2. IsFiniteSet(S) /\ Abandoned = S \ {heard}  BY <3>1, <4>1 DEF Abandoned
      <4>3. Cardinality(S) \in Nat  BY <4>2, FS_CardinalityType
      <4>4. CASE heard \in S
        <5>1. Cardinality(S \ {heard}) = Cardinality(S) - 1  BY <4>2, <4>4, FS_RemoveElement
        <5>2. IsFiniteSet(S \ {heard})  BY <4>2, <4>4, FS_RemoveElement
        <5>3. Cardinality(S \ {heard}) \in Nat  BY <5>2, FS_CardinalityType
        <5>4. Cardinality(S \ {heard}) <= Cardinality(S)  BY <4>3, <5>1
        <5>5. Cardinality(Abandoned) = Cardinality(S \ {heard})  BY <4>2
        <5>6. Cardinality(SeenFrames \ completed) = Cardinality(S)  BY <4>1
        <5> QED BY <4>3, <5>1, <5>3, <5>4, <5>5, <5>6
      <4>5. CASE heard \notin S
        <5>1. S \ {heard} = S  BY <4>5
        <5>2. Abandoned = S /\ Cardinality(S) <= Cardinality(S)  BY <4>2, <4>3, <5>1
        <5> QED BY <4>1, <4>3, <4>5, <5>2
      <4> QED BY <4>4, <4>5
    <3>3. r.dropped_frames \in Nat /\ r.dropped_frames <= Cardinality(Abandoned) + One(GivenUp)
      BY <1>1 DEF CounterInv, DropsInv, TypeOK, RxTypes, Reasm
    <3>4. CASE GivenUp  BY <3>2, <3>3, <3>4 DEF DropsAreDistinctFrames, GivenUp, One
    <3>5. CASE ~GivenUp  BY <3>2, <3>3, <3>5 DEF DropsAreDistinctFrames, One
    <3> QED BY <3>4, <3>5
  <2>3. StreamedDiscardsCounted
    <3>1. {f \in Abandoned : \E s \in seen : s.streamed /\ Id(s.epoch, s.no) = f} = Abandoned \cap StreamedIds
      BY DEF StreamedIds, SeenId
    <3>2. IsFiniteSet(Abandoned \cap StreamedIds)
      <4>1. Abandoned \cap StreamedIds \in SUBSET SeenFrames  BY DEF Abandoned
      <4> QED BY <2>1, <4>1, FS_Subset
    <3>3. PICK n \in Nat : n = Cardinality(Abandoned \cap StreamedIds)  BY <3>2, FS_CardinalityType
    <3>4. NoWrap => r.dropped_frames >= n + One(GivenUp)  BY <1>1, <3>3 DEF CounterInv, DropsInv
    <3>5. r.dropped_frames \in Nat /\ One(GivenUp) \in Nat
      BY <1>1 DEF TypeOK, RxTypes, Reasm, One
    <3> QED BY <3>1, <3>3, <3>4, <3>5 DEF StreamedDiscardsCounted, NoWrap
  <2>4. FramesLostExact
    <3> SUFFICES ASSUME epoch = 0, completed # {}, NoLongGap
                 PROVE  \E a, b \in CompletedNos :
                           /\ \A x \in CompletedNos : a <= x /\ x <= b
                           /\ frames_lost = b - a + 1 - Cardinality(completed)
      BY DEF FramesLostExact
    <3>1. PICK a, b \in completed :
             /\ \A x \in completed : a.no <= x.no /\ x.no <= b.no
             /\ frames_lost = b.no - a.no + 1 - Cardinality(completed)
      BY <1>1 DEF CounterInv, LostInv
    <3> QED BY <3>1 DEF CompletedNos
  <2> QED BY <2>2, <2>3, <2>4 DEF CountersExact
<1> QED BY <1>1, TypeCorrect, CounterInvariant, PTL

=============================================================================
