----------------------------- MODULE VideoLink -----------------------------
(***************************************************************************)
(* The video path of the transport from the encoder's frame ring on the    *)
(* air unit to the RTP stream on the ground:                               *)
(*                                                                         *)
(*   encoder -> ring -> tx main loop -> bb_socket -> rx main loop -> RTP   *)
(*                                                                         *)
(* The tx main loop (tx/main.c) reads ring entries, cuts them into chunks  *)
(* and writes them; a frame that comes as several slices is sent while it  *)
(* is still being encoded.  The socket keeps order and loses chunks.  The  *)
(* rx main loop (rx/main.c) reassembles frames, passes slices of streamed  *)
(* frames on as they come in and keeps the loss statistics.                *)
(***************************************************************************)
EXTENDS Reassembly, FiniteSets

CONSTANTS
    SeqMod,         \* 2^16: frame_seq is uint16_t
    LossJump,       \* 1000: a larger frame_seq jump is taken for a tx restart
    SeiLen,         \* bytes of the timing SEI
    DeadAfter,      \* SOCKET_DEAD_AFTER_FRAMES
    BackoffAfter,   \* BACKOFF_AFTER_CONSECUTIVE_STALLS
    RingSlots,      \* slot_count of the encoder's ring
    OutqDepth,      \* TX_OUTQ_DEPTH
    Slicings,       \* ways the encoder cuts a frame: sequences of [len, vcl]
    MaxOutage,      \* frames an outage of the link may span
    LinkCap,        \* bound: chunks in flight
    MaxFrames,      \* bound: frames encoded
    MaxAux,         \* bound: non-video chunks queued
    MaxReconnects,  \* bound: reconnects to the daemon
    MaxRestarts     \* bound: restarts of the tx process

ASSUME VideoLinkAssumption ==
    /\ SeqMod \in Nat \ {0}
    /\ MaxOutage \in Nat /\ MaxOutage < SeqMod
    /\ LossJump \in Nat /\ LossJump <= SeqMod /\ SeiLen \in Nat
    /\ DeadAfter \in Nat \ {0} /\ BackoffAfter \in Nat \ {0}
    /\ RingSlots \in Nat \ {0} /\ OutqDepth \in Nat \ {0}
    /\ Slicings \subseteq Seq([len: Nat, vcl: BOOLEAN])
    /\ \A s \in Slicings : s # << >>
    /\ LinkCap \in Nat /\ MaxFrames \in Nat /\ MaxAux \in Nat
    /\ MaxReconnects \in Nat /\ MaxRestarts \in Nat

VARIABLES
    \* the encoder (waybeam, outside this repository)
    encoded,        \* frames started so far; the current one's pts
    slices,         \* slices of the current frame still to publish
    enc_off,        \* bytes of the current frame published
    ring,           \* entries published and not read yet
    \* the tx process
    epoch,          \* history: which run of the tx process this is
    frame_no,       \* history: frame_seq without the wrap
    frame_seq,
    sf,             \* the frame being sent slice by slice
    call,           \* the chunker call in progress
    stats,
    last_write_ret,
    dead_writes,    \* consecutive_dead_writes
    stalls,         \* consecutive_stalls
    outq,           \* non-video chunks waiting (their number)
    aux_pushed,     \* of those, how many were ever queued
    reconnects,
    \* the socket
    link,
    \* the rx process
    r,              \* the reassembler
    fwd_off,        \* bytes of the frame in progress passed on already
    fwd_vcl,        \* ... and whether a coded slice was among them
    frames_lost,
    last_frame_seq, \* -1 before the first complete frame
    rtp,            \* what went out with the last RTP timestamp
    \* history of the ground side
    heard,          \* frame of the last video chunk received
    seen,           \* video chunks received
    completed,      \* frames completed
    got,            \* pieces of the last completed frame
    written,        \* frames tx wrote in full, with their number of chunks
    torn            \* source frames cut by a ring flush or a tx restart

encVars   == <<encoded, slices, enc_off>>
txVars    == <<epoch, frame_no, frame_seq, sf, call, stats, last_write_ret,
               dead_writes, stalls>>
auxVars   == <<outq, aux_pushed>>
rxVars    == <<r, fwd_off, fwd_vcl, frames_lost, last_frame_seq, rtp>>
histVars  == <<heard, seen, completed, got>>
vars      == <<encVars, ring, txVars, auxVars, reconnects, link, rxVars, histVars, written, torn>>

NoFrame == [open |-> FALSE, failed |-> FALSE, pts |-> 0, next_idx |-> 0, sent |-> 0]
NoCall  == [kind |-> "none", partial |-> FALSE, run |-> << >>, n |-> 0, s |-> 0]

Id(e, no) == [epoch |-> e, no |-> no]

\* An aux chunk (a SYNCR reply or a tunnelled sidecar datagram): one whole
\* frame of another codec.  Its content plays no part here.
AuxChunk == [codec |-> "aux", frame_seq |-> 0, chunk_idx |-> 0, chunk_count |-> 1,
             flag |-> "none", frame_pts |-> 0,
             piece |-> [src |-> 0, off |-> 0, len |-> 0, end |-> FALSE, vcl |-> FALSE,
                        epoch |-> 0, no |-> 0, idx |-> 0]]
AuxChunks(n) == [i \in 1..n |-> AuxChunk]

Init ==
    /\ encoded = 0 /\ slices = << >> /\ enc_off = 0 /\ ring = << >>
    /\ epoch = 0 /\ frame_no = 0 /\ frame_seq = 0 /\ sf = NoFrame /\ call = NoCall
    /\ stats = [in |-> 0, complete |-> 0, incomplete |-> 0]
    /\ last_write_ret = 0 /\ dead_writes = 0 /\ stalls = 0
    /\ outq = 0 /\ aux_pushed = 0 /\ reconnects = 0
    /\ link = << >>
    /\ r = reassembly_init /\ fwd_off = 0 /\ fwd_vcl = FALSE
    /\ frames_lost = 0 /\ last_frame_seq = -1
    /\ rtp = [ts |-> 0, items |-> << >>, marked |-> FALSE, sei |-> "none", sei_at |-> 0]
    /\ heard = Id(0, 0) /\ seen = {} /\ completed = {} /\ got = << >>
    /\ written = {} /\ torn = {}

-----------------------------------------------------------------------------
(* The encoder and the other producers *)

\* The next slice of frame pts, cut as rest says, becomes a ring entry; when
\* the ring is full the encoder gives up the rest of the frame.
Publish(pts, rest, off) ==
    /\ encoded' = pts
    /\ IF Len(ring) < RingSlots
       THEN /\ ring' = Append(ring, [pts |-> pts, off |-> off, len |-> Head(rest).len,
                                     partial |-> Len(rest) > 1, vcl |-> Head(rest).vcl])
            /\ slices' = Tail(rest)
            /\ enc_off' = off + Head(rest).len
       ELSE /\ slices' = << >>
            /\ UNCHANGED <<ring, enc_off>>
    /\ UNCHANGED <<txVars, auxVars, reconnects, link, rxVars, histVars, written, torn>>

EncodeFrame ==
    /\ slices = << >> /\ encoded < MaxFrames
    /\ \E s \in Slicings : Publish(encoded + 1, s, 0)

EncodeSlice == slices # << >> /\ Publish(encoded, slices, enc_off)

\* The encoder process restarts in the middle of a frame.  Its new ring has
\* another inode; tx looks at that only when a read of the old one timed out,
\* so it has drained the old ring by the time it attaches to the new one, and
\* sf is left as it is.
EncoderRestart ==
    /\ slices # << >>
    /\ slices' = << >>
    /\ UNCHANGED <<encoded, enc_off, ring, txVars, auxVars, reconnects, link, rxVars,
                   histVars, written, torn>>

\* idr_ctrl and sidecar_sub queue a chunk; a full queue drops its oldest one.
OutqPush ==
    /\ aux_pushed < MaxAux
    /\ aux_pushed' = aux_pushed + 1
    /\ outq' = IF outq = OutqDepth THEN outq ELSE outq + 1
    /\ UNCHANGED <<encVars, ring, txVars, reconnects, link, rxVars, histVars, written, torn>>

-----------------------------------------------------------------------------
(* The tx main loop *)

\* Mutant: frame_seq does not wrap.
NextSeq_NoWrap(q) == q + 1

\* uint16_t increment of frame_seq.
NextSeq(q) == (q + 1) % SeqMod

\* Mutant: a frame that lost its end is continued with the next one.
Overtakes_Never(e) == FALSE

\* An entry of another frame while one is open: the open one lost its end.
Overtakes(e) == sf.open /\ e.pts # sf.pts

(***************************************************************************)
(* One ring entry is read.  An entry with another pts closes the streamed  *)
(* frame that is open; the entry then goes to ar8030_chunk_part() if it is *)
(* a slice, to ar8030_chunk_frame() if it is a whole frame.                *)
(***************************************************************************)
TxRead ==
    /\ call.kind = "none" /\ ring # << >>
    /\ LET e       == Head(ring)
           stale   == Overtakes(e)
           open    == sf.open /\ ~stale
           stream  == e.partial \/ open
           no      == IF stale THEN frame_no + 1 ELSE frame_no
           seq     == IF stale THEN NextSeq(frame_seq) ELSE frame_seq
           f       == IF open THEN sf
                      ELSE IF stream THEN [NoFrame EXCEPT !.open = TRUE, !.pts = e.pts]
                      ELSE [sf EXCEPT !.open = FALSE]
           first   == IF stream THEN f.next_idx ELSE 0
           refused == TooManyChunks(e, first)
           run     == IF stream THEN chunk_part(seq, e, first, ~e.partial, Id(epoch, no))
                      ELSE chunk_frame(seq, e, Id(epoch, no))
           none    == (stream /\ f.failed) \/ refused
       IN  /\ ring' = Tail(ring)
           /\ frame_no' = no /\ frame_seq' = seq /\ sf' = f
           /\ stats' = [stats EXCEPT !.incomplete = IF stale THEN @ + 1 ELSE @,
                                     !.in = IF open THEN @ ELSE @ + 1]
           /\ last_write_ret' = IF open THEN last_write_ret ELSE 0
           /\ call' = [kind |-> IF stream THEN "part" ELSE "frame", partial |-> e.partial,
                       run |-> IF none THEN << >> ELSE run,
                       n |-> IF none THEN 0 ELSE ChunkCount(e.len),
                       s |-> IF refused /\ ~(stream /\ f.failed) THEN -1 ELSE 0]
    /\ UNCHANGED <<encVars, epoch, dead_writes, stalls, auxVars, reconnects, link,
                   rxVars, histVars, written, torn>>

\* chunk_send_to_socket(): whatever is queued goes ahead in the same write.
TxWrite ==
    /\ call.run # << >>
    /\ Len(link) + outq < LinkCap
    /\ link' = link \o AuxChunks(outq) \o <<Head(call.run)>>
    /\ outq' = 0
    /\ call' = [call EXCEPT !.run = Tail(@), !.s = @ + 1]
    /\ UNCHANGED <<encVars, ring, epoch, frame_no, frame_seq, sf, stats, last_write_ret,
                   dead_writes, stalls, aux_pushed, reconnects, rxVars, histVars, written, torn>>

\* Mutant: the failed chunk is tried again, for ever if need be.
StopRun_Retry(c) == c

\* The chunker stops at the first chunk that could not be sent.
StopRun(c) == [c EXCEPT !.run = << >>]

\* The write makes no progress (ret 0: timeout, < 0: error): the chunk is not
\* sent whole, the queued chunks may be, and the chunker stops.
TxWriteFails ==
    /\ call.run # << >>
    /\ \E j \in 0..outq :
        /\ Len(link) + j <= LinkCap
        /\ link' = link \o AuxChunks(j)
    /\ outq' = 0
    /\ last_write_ret' \in {-1, 0}
    /\ call' = StopRun(call)
    /\ UNCHANGED <<encVars, ring, epoch, frame_no, frame_seq, sf, stats, dead_writes, stalls,
                   aux_pushed, reconnects, rxVars, histVars, written, torn>>

\* Mutant: a frame of which nothing went out is not counted.
CountFrame_SkipsEmpty(st, sent, expected) ==
    IF sent = expected THEN [st EXCEPT !.complete = @ + 1]
    ELSE IF sent > 0 THEN [st EXCEPT !.incomplete = @ + 1] ELSE st

\* A frame is complete when as many chunks were sent as it needed.
CountFrame(st, sent, expected) ==
    IF sent = expected THEN [st EXCEPT !.complete = @ + 1]
    ELSE [st EXCEPT !.incomplete = @ + 1]

\* The frame is over: statistics, next frame_seq, dead-socket and stall counts.
EndFrame(sent, expected, whole) ==
    /\ stats' = CountFrame(stats, sent, expected)
    /\ frame_seq' = NextSeq(frame_seq)
    /\ frame_no' = frame_no + 1
    /\ dead_writes' = IF sent = 0 /\ last_write_ret < 0 THEN dead_writes + 1
                      ELSE IF sent > 0 THEN 0 ELSE dead_writes
    /\ stalls' = IF sent = 0 /\ stalls + 1 < BackoffAfter THEN stalls + 1 ELSE 0
    /\ written' = IF whole /\ sent = expected
                  THEN written \cup {[epoch |-> epoch, no |-> frame_no, n |-> sent]}
                  ELSE written

\* The chunker returns: a slice is accounted to its frame, the last one (or
\* a whole frame) ends the frame.
TxReturn ==
    /\ call.kind # "none" /\ call.run = << >>
    /\ call' = NoCall
    /\ LET f == [sf EXCEPT !.failed = @ \/ call.s < 0 \/ call.s # call.n,
                           !.sent = IF call.s > 0 THEN @ + call.s ELSE @,
                           !.next_idx = @ + call.n]
       IN  \/ /\ call.kind = "part" /\ call.partial
              /\ sf' = f
              /\ UNCHANGED <<stats, frame_seq, frame_no, dead_writes, stalls, written>>
           \/ /\ call.kind = "part" /\ ~call.partial
              /\ sf' = [f EXCEPT !.open = FALSE]
              /\ EndFrame(f.sent, f.next_idx, ~f.failed)
           \/ /\ call.kind = "frame"
              /\ sf' = sf
              /\ EndFrame(call.s, call.n, TRUE)
    /\ UNCHANGED <<encVars, ring, epoch, last_write_ret, auxVars, reconnects, link,
                   rxVars, histVars, torn>>

\* Mutant: queued chunks wait for a video chunk.
TxTimeout_NoFlush == call.kind = "none" /\ ring = << >> /\ outq > 0 /\ UNCHANGED vars

\* No entry for 200 ms: queued chunks are written on their own, flush_outq().
TxTimeout ==
    /\ call.kind = "none" /\ ring = << >> /\ outq > 0
    /\ \E j \in 0..outq :
        /\ Len(link) + j <= LinkCap
        /\ link' = link \o AuxChunks(j)
        /\ IF j = outq THEN last_write_ret' = last_write_ret
           ELSE last_write_ret' \in {-1, 0}
    /\ outq' = 0
    /\ UNCHANGED <<encVars, ring, epoch, frame_no, frame_seq, sf, call, stats, dead_writes,
                   stalls, aux_pushed, reconnects, rxVars, histVars, written, torn>>

\* Health check at the top of the loop: the data socket is dead, or the
\* daemon is gone (which may happen at any time).  tx reconnects, reopens the
\* socket and drops what waits in the ring, flush_ring().
TxReconnect ==
    /\ call.kind = "none"
    /\ dead_writes >= DeadAfter \/ reconnects < MaxReconnects
    /\ reconnects' = IF dead_writes >= DeadAfter THEN reconnects ELSE reconnects + 1
    /\ dead_writes' = 0
    /\ ring' = << >>
    /\ torn' = torn \cup {ring[i].pts : i \in DOMAIN ring}
    /\ UNCHANGED <<encVars, epoch, frame_no, frame_seq, sf, call, stats, last_write_ret,
                   stalls, auxVars, link, rxVars, histVars, written>>

\* The tx process dies and is started again: everything it held is gone,
\* frame_seq starts over, and the ring is flushed once the socket is open.
TxRestart ==
    /\ epoch < MaxRestarts
    /\ epoch' = epoch + 1
    /\ frame_no' = 0 /\ frame_seq' = 0 /\ sf' = NoFrame /\ call' = NoCall
    /\ stats' = [in |-> 0, complete |-> 0, incomplete |-> 0]
    /\ last_write_ret' = 0 /\ dead_writes' = 0 /\ stalls' = 0 /\ outq' = 0
    /\ ring' = << >>
    /\ torn' = torn \cup {ring[i].pts : i \in DOMAIN ring}
                    \cup (IF sf.open THEN {sf.pts} ELSE {})
                    \cup (IF slices # << >> THEN {encoded} ELSE {})
    /\ UNCHANGED <<encVars, aux_pushed, reconnects, link, rxVars, histVars, written>>

-----------------------------------------------------------------------------
(* The socket *)

\* A chunk is lost on the radio, or skipped by chunk_stream for its checksum.
LinkLose ==
    /\ link # << >>
    /\ link' = Tail(link)
    /\ UNCHANGED <<encVars, ring, txVars, auxVars, reconnects, rxVars, histVars, written, torn>>

-----------------------------------------------------------------------------
(* The rx main loop *)

\* The link assumption: an outage is shorter than a frame_seq wrap.
WithinOutage(c) ==
    c.piece.epoch = heard.epoch => c.piece.no - heard.no <= MaxOutage

\* What the buffer of reassembler q holds from byte off on.
PiecesFrom(q, off) ==
    LET skip == Cardinality({i \in DOMAIN q.buf : q.buf[i].at < off})
    IN  IF q.write_off <= off THEN << >>
        ELSE [i \in 1..(Len(q.buf) - skip) |-> q.buf[skip + i].piece]

HasVcl(items) == \E i \in DOMAIN items : items[i].vcl

\* Pieces ahead of the first coded slice.
Leading(items) == Cardinality({j \in DOMAIN items : \A i \in 1..j : ~items[i].vcl})

\* rtp_h265_send_nals(): nothing is sent, and no marker set, without a NAL.
RtpSend(p, ts, items, marker) ==
    IF items = << >> THEN p
    ELSE IF p.ts = ts THEN [p EXCEPT !.items = @ \o items, !.marked = marker]
    ELSE [ts |-> ts, items |-> items, marked |-> marker, sei |-> "none", sei_at |-> 0]

\* A timing SEI sent on its own ahead of the rest of a frame.
RtpSendSei(p, kind, marker) ==
    [p EXCEPT !.sei = kind, !.sei_at = Len(p.items), !.marked = marker]

\* timing_sei_insert(): the SEI goes ahead of the first slice, if there is
\* one and there is room.
SendFrameWithSei(p, ts, items, write_off, sei) ==
    LET q == RtpSend(p, ts, items, TRUE)
    IN  IF sei /\ HasVcl(items) /\ write_off + SeiLen <= ReasmCap
        THEN [q EXCEPT !.sei = "prefix",
                            !.sei_at = Len(q.items) - Len(items) + Leading(items)]
        ELSE q

\* Was the chunk taken?  A refused one resets the reassembler.
Taken(r1, c) ==
    r1.active /\ r1.frame_seq = c.frame_seq /\ r1.next_chunk_idx = c.chunk_idx + 1

\* Where forwarding stands when chunk c is handled: a taken chunk 0 starts a
\* frame, of which nothing has gone out.
StartsFrame(r1, c) == Taken(r1, c) /\ c.chunk_idx = 0
\* Mutant: fwd_off survives a frame that was given up.
FwdOff_Stale(r1, c) == fwd_off

FwdOff(r1, c) == IF StartsFrame(r1, c) THEN 0 ELSE fwd_off
FwdVcl(r1, c) == IF StartsFrame(r1, c) THEN FALSE ELSE fwd_vcl

\* Mutants: fwd_off stays behind; a slice carries the marker.
ForwardSlice_NotAdvanced(r1, c, off0, vcl0) ==
    LET part == PiecesFrom(r1, off0)
        done == Taken(r1, c) /\ r1.chunk_count = 0 /\ c.flag = "slice_end" /\ r1.write_off > off0
    IN  /\ rtp' = IF done THEN RtpSend(rtp, r1.frame_pts, part, FALSE) ELSE rtp
        /\ fwd_vcl' = (vcl0 \/ (done /\ HasVcl(part)))
        /\ fwd_off' = off0
ForwardSlice_Marked(r1, c, off0, vcl0) ==
    LET part == PiecesFrom(r1, off0)
        done == Taken(r1, c) /\ r1.chunk_count = 0 /\ c.flag = "slice_end" /\ r1.write_off > off0
    IN  /\ rtp' = IF done THEN RtpSend(rtp, r1.frame_pts, part, TRUE) ELSE rtp
        /\ fwd_vcl' = (vcl0 \/ (done /\ HasVcl(part)))
        /\ fwd_off' = IF done THEN r1.write_off ELSE off0

\* Passing on what a chunk brought: nothing yet, or a finished slice.
ForwardSlice(r1, c, off0, vcl0) ==
    LET part == PiecesFrom(r1, off0)
    IN  IF Taken(r1, c) /\ r1.chunk_count = 0 /\ c.flag = "slice_end" /\ r1.write_off > off0
        THEN /\ rtp' = RtpSend(rtp, r1.frame_pts, part, FALSE)
             /\ fwd_vcl' = (vcl0 \/ HasVcl(part))
             /\ fwd_off' = r1.write_off
        ELSE /\ fwd_off' = off0 /\ fwd_vcl' = vcl0
             /\ rtp' = rtp

\* Mutant: the frame that did arrive is counted as well.
CountLost_OffByOne(seq) ==
    LET gap == (seq - last_frame_seq) % SeqMod
    IN  IF last_frame_seq # -1 /\ gap > 1 /\ gap < LossJump THEN frames_lost + gap ELSE frames_lost

\* Gap in frame_seq between two complete frames; larger ones are restarts.
CountLost(seq) ==
    LET gap == (seq - last_frame_seq) % SeqMod
    IN  IF last_frame_seq # -1 /\ gap > 1 /\ gap < LossJump
        THEN frames_lost + gap - 1 ELSE frames_lost

\* Mutants: the SEI ahead of the rest is always a prefix SEI; the rest of a
\* streamed frame goes out without the marker.
ForwardFrame_Prefix(r1, off0, vcl0, sei) ==
    LET rest == PiecesFrom(r1, off0)
        p    == IF sei THEN RtpSendSei(rtp, "prefix", r1.write_off = off0) ELSE rtp
    IN  rtp' = IF off0 = 0
               THEN SendFrameWithSei(rtp, r1.frame_pts, rest, r1.write_off, sei)
               ELSE RtpSend(p, r1.frame_pts, rest, TRUE)
ForwardFrame_Unmarked(r1, off0, vcl0, sei) ==
    LET rest == PiecesFrom(r1, off0)
        p    == IF sei THEN RtpSendSei(rtp, IF vcl0 THEN "suffix" ELSE "prefix", FALSE) ELSE rtp
    IN  rtp' = IF off0 = 0
               THEN SendFrameWithSei(rtp, r1.frame_pts, rest, r1.write_off, sei)
               ELSE RtpSend(p, r1.frame_pts, rest, FALSE)

\* A complete frame goes out whole, or the rest of it does; sei says whether
\* the clock is synchronised and the timing SEI is switched on.
ForwardFrame(r1, off0, vcl0, sei) ==
    LET rest == PiecesFrom(r1, off0)
        p    == IF sei THEN RtpSendSei(rtp, IF vcl0 THEN "suffix" ELSE "prefix",
                                       r1.write_off = off0)
                ELSE rtp
    IN  rtp' = IF off0 = 0
               THEN SendFrameWithSei(rtp, r1.frame_pts, rest, r1.write_off, sei)
               ELSE RtpSend(p, r1.frame_pts, rest, TRUE)

RxVideo ==
    /\ link # << >> /\ Head(link).codec = "h265" /\ WithinOutage(Head(link))
    /\ link' = Tail(link)
    /\ LET c        == Head(link)
           r1       == reassembly_feed(r, c)
           complete == r1.completed_frames > r.completed_frames
           off0     == FwdOff(r1, c)
           vcl0     == FwdVcl(r1, c)
           id       == Id(c.piece.epoch, c.piece.no)
       IN  /\ heard' = id
           /\ seen' = seen \cup {[epoch |-> id.epoch, no |-> id.no, idx |-> c.chunk_idx,
                                  streamed |-> c.chunk_count = 0]}
           /\ \/ /\ ~complete
                 /\ r' = r1
                 /\ ForwardSlice(r1, c, off0, vcl0)
                 /\ UNCHANGED <<frames_lost, last_frame_seq, completed, got>>
              \/ /\ complete
                 /\ frames_lost' = CountLost(r1.frame_seq)
                 /\ last_frame_seq' = r1.frame_seq
                 /\ \E sei \in BOOLEAN : ForwardFrame(r1, off0, vcl0, sei)
                 /\ fwd_off' = 0 /\ fwd_vcl' = FALSE
                 /\ r' = reassembly_reset(r1)
                 /\ completed' = completed \cup {id}
                 /\ got' = [i \in DOMAIN r1.buf |-> r1.buf[i].piece]
    /\ UNCHANGED <<encVars, ring, txVars, auxVars, reconnects, written, torn>>

\* A SYNCR reply or a sidecar datagram never reaches the reassembler.
RxAux ==
    /\ link # << >> /\ Head(link).codec = "aux"
    /\ link' = Tail(link)
    /\ UNCHANGED <<encVars, ring, txVars, auxVars, reconnects, rxVars, histVars, written, torn>>

-----------------------------------------------------------------------------
Tx == TxRead \/ TxWrite \/ TxWriteFails \/ TxReturn \/ TxTimeout \/ TxReconnect \/ TxRestart

Rx == RxVideo \/ RxAux

Next == EncodeFrame \/ EncodeSlice \/ EncoderRestart \/ OutqPush \/ Tx \/ LinkLose \/ Rx

Spec == Init /\ [][Next]_vars

-----------------------------------------------------------------------------
(* Properties *)

EncTypes ==
    /\ encoded \in Nat /\ enc_off \in Nat
    /\ slices \in Seq([len: Nat, vcl: BOOLEAN])
    /\ ring \in Seq(Entry)

TxTypes ==
    /\ epoch \in Nat /\ frame_no \in Nat /\ frame_seq \in 0..(SeqMod - 1)
    /\ sf \in [open: BOOLEAN, failed: BOOLEAN, pts: Nat, next_idx: Nat, sent: Nat]
    /\ call \in [kind: {"none", "part", "frame"}, partial: BOOLEAN, run: Seq(Chunk),
                 n: Nat, s: Nat \cup {-1}]
    /\ stats \in [in: Nat, complete: Nat, incomplete: Nat]
    /\ last_write_ret \in {-1, 0} /\ dead_writes \in Nat /\ stalls \in 0..(BackoffAfter - 1)
    /\ outq \in 0..OutqDepth /\ aux_pushed \in Nat /\ reconnects \in Nat
    /\ link \in Seq(Chunk)

RxTypes ==
    /\ r \in Reasm /\ fwd_off \in Nat /\ fwd_vcl \in BOOLEAN
    /\ frames_lost \in Nat /\ last_frame_seq \in Nat \cup {-1}
    /\ rtp \in [ts: Nat, items: Seq(Piece), marked: BOOLEAN,
                sei: {"none", "prefix", "suffix"}, sei_at: Nat]

HistTypes ==
    /\ heard \in [epoch: Nat, no: Nat]
    /\ seen \subseteq [epoch: Nat, no: Nat, idx: Nat, streamed: BOOLEAN]
    /\ completed \subseteq [epoch: Nat, no: Nat]
    /\ got \in Seq(Piece)
    /\ written \subseteq [epoch: Nat, no: Nat, n: Nat]
    /\ torn \subseteq Nat

\* Every variable of the tx and rx loops keeps its C type: in particular
\* frame_seq wraps at uint16_t and the outq never exceeds TX_OUTQ_DEPTH.
TypeOK == EncTypes /\ TxTypes /\ RxTypes /\ HistTypes

(***************************************************************************)
(* The bytes in the reassembly buffer are the chunks 0, 1, 2 ... of one    *)
(* frame: reassembly.c never appends a chunk of another frame of the same  *)
(* tx run, whatever was lost and however often the 16-bit frame_seq        *)
(* wrapped, and never skips one.  (Two tx runs can meet in one buffer: see *)
(* the README.)                                                            *)
(***************************************************************************)
OneFrame(pieces) ==
    /\ \A i \in DOMAIN pieces : pieces[i].idx = i - 1
    /\ \A i, j \in DOMAIN pieces :
         pieces[i].epoch = pieces[j].epoch => pieces[i].no = pieces[j].no

BufPieces(q) == [i \in DOMAIN q.buf |-> q.buf[i].piece]

NoMixing == (r.active => OneFrame(BufPieces(r))) /\ OneFrame(got)

\* Consecutive bytes of one source frame.
Contiguous(s) ==
    \A i \in 2..Len(s) : /\ s[i].src = s[1].src
                         /\ s[i].off = s[i-1].off + s[i-1].len

WholeFrame(s) == s # << >> /\ s[1].off = 0 /\ Contiguous(s) /\ s[Len(s)].end

OneRun(s) == \A i \in DOMAIN s : s[i].epoch = s[1].epoch

(***************************************************************************)
(* rx/main.c:9 and README.md:20: rx "reassembles whole frames".  A         *)
(* completed frame is a source frame from its first byte to its last.      *)
(***************************************************************************)
CompletedIsWhole == got # << >> /\ OneRun(got) => WholeFrame(got)

(***************************************************************************)
(* What holds instead: a completed frame is whole unless flush_ring() took *)
(* part of it out of the ring (tx/main.c:1096, :914).                      *)
(***************************************************************************)
PictureIntegrity == (got # << >> => got[1].src \notin torn) => CompletedIsWhole

(***************************************************************************)
(* Forwarding slice by slice (rx/main.c:593-613, :655-686) adds up to the  *)
(* reassembled frame: when the marker goes out, what went out under this   *)
(* RTP timestamp is the frame, nothing twice and nothing left out.         *)
(***************************************************************************)
ForwardedIsReassembled == rtp.marked /\ rtp.ts \notin torn => rtp.items = got

(***************************************************************************)
(* Before the marker, what went out is a prefix of one source frame, cut   *)
(* at a slice boundary: no hole, nothing out of order.                     *)
(***************************************************************************)
SlicesInOrder ==
    rtp.items # << >> /\ rtp.ts \notin torn /\ OneRun(rtp.items) =>
        Contiguous(rtp.items) /\ rtp.items[1].off = 0 /\ rtp.items[1].src = rtp.ts

(***************************************************************************)
(* fwd_off never runs ahead of the buffer: "reasm.write_off - fwd_off"     *)
(* (rx/main.c:602, :668) is an unsigned subtraction.                       *)
(***************************************************************************)
FwdWithinBuffer == r.active => fwd_off <= r.write_off

(***************************************************************************)
(* The timing SEI is a prefix SEI ahead of the first slice of its picture, *)
(* or a suffix SEI once a slice has gone out, and the picture goes on      *)
(* after it (rx/main.c:647-651, README.md:193); a frame that a flush cut   *)
(* in two has no such order.                                               *)
(***************************************************************************)
SeiPlacement ==
    LET before == SubSeq(rtp.items, 1, rtp.sei_at)
    IN  rtp.sei # "none" /\ rtp.ts \notin torn =>
            /\ (rtp.sei = "suffix") = HasVcl(before)
            /\ rtp.sei_at < Len(rtp.items)

(***************************************************************************)
(* Every completed frame ends with a marker, streamed or not, and a marker *)
(* ends its picture: nothing follows under the same timestamp, so a        *)
(* depayloader never sees a second access unit with it.                    *)
(***************************************************************************)
MarkerExact ==
    [][/\ completed' # completed => rtp'.marked
       /\ rtp.marked => rtp' = rtp \/ rtp'.ts # rtp.ts]_vars

SeenFrames == {Id(s.epoch, s.no) : s \in seen}

(***************************************************************************)
(* README.md:939: "dropped ... counts distinct lost frames, not every      *)
(* stray chunk that belonged to one": never more than the frames that rx   *)
(* heard of and did not complete.                                          *)
(***************************************************************************)
DropsAreDistinctFrames ==
    r.dropped_frames <= Cardinality(SeenFrames \ completed)

\* Frames that rx heard of, did not complete and has moved on from.
Abandoned == (SeenFrames \ completed) \ {heard}

(***************************************************************************)
(* README.md:198: a streamed frame whose end never comes is counted when   *)
(* the next frame_seq starts.                                              *)
(***************************************************************************)
StreamedDiscardsCounted ==
    epoch = 0 /\ frame_no < SeqMod =>
        r.dropped_frames >=
            Cardinality({f \in Abandoned : \E s \in seen : s.streamed /\ Id(s.epoch, s.no) = f})

(***************************************************************************)
(* frames_lost (rx/main.c:616-622) is the number of frames missing between *)
(* the completed ones, across wraps of frame_seq, while no gap is as long  *)
(* as the one taken for a tx restart.                                      *)
(***************************************************************************)
CompletedNos == {f.no : f \in completed}
NoLongGap ==
    \A a, b \in CompletedNos :
        a < b /\ (\A x \in CompletedNos : x <= a \/ b <= x) => b - a < LossJump
FramesLostExact ==
    epoch = 0 /\ completed # {} /\ NoLongGap =>
        \E a, b \in CompletedNos :
            /\ \A x \in CompletedNos : a <= x /\ x <= b
            /\ frames_lost = b - a + 1 - Cardinality(completed)

(***************************************************************************)
(* Every frame tx took from the ring is counted complete or incomplete     *)
(* exactly once (tx/main.c:1190-1197, :1298-1302), the one in hand aside.  *)
(***************************************************************************)
TxBalance ==
    stats.in = stats.complete + stats.incomplete
               + (IF sf.open \/ call.kind = "frame" THEN 1 ELSE 0)

(***************************************************************************)
(* The reassembler never throws away a frame it could have completed: all  *)
(* chunks of a fully written frame came in, it fits the buffer, and no     *)
(* frame of another tx run with the same frame_seq came between.           *)
(***************************************************************************)
AllReceived(w) ==
    \A i \in 0..(w.n - 1) : \E s \in seen : s.epoch = w.epoch /\ s.no = w.no /\ s.idx = i
SeqReused(w) == \E s \in seen : s.epoch # w.epoch /\ s.no % SeqMod = w.no % SeqMod
NoFalseDrop ==
    \A w \in written :
        AllReceived(w) /\ w.n * ChunkPayload <= ReasmCap /\ ~SeqReused(w) =>
            Id(w.epoch, w.no) \in completed

(***************************************************************************)
(* rx completes exactly the frames it can: what reassembly.c completes is  *)
(* a whole picture, and a whole picture that came in is completed.         *)
(***************************************************************************)
CompletesExactly == PictureIntegrity /\ NoFalseDrop

(***************************************************************************)
(* What rx/main.c sends on, slice by slice or at once, is the reassembled  *)
(* frame, in order, with the SEI where a decoder expects it.               *)
(***************************************************************************)
OutputFaithful == ForwardedIsReassembled /\ SlicesInOrder /\ SeiPlacement

(***************************************************************************)
(* The loss counters of rx (dropped_frames, frames_lost) count each lost   *)
(* frame, and none twice.                                                  *)
(***************************************************************************)
CountersExact == DropsAreDistinctFrames /\ StreamedDiscardsCounted /\ FramesLostExact

-----------------------------------------------------------------------------
(* The inductive invariant behind NoMixing *)

IdOf(c) == Id(c.piece.epoch, c.piece.no)

\* Sending order of frames: by tx run, then by number in the run.
Leq(a, b) == a.epoch < b.epoch \/ (a.epoch = b.epoch /\ a.no <= b.no)

\* The header fields of a video chunk agree with the piece it carries.
Stamped(c) == c.frame_seq = c.piece.no % SeqMod /\ c.chunk_idx = c.piece.idx

\* tx numbers the chunks it is sending after the frame in hand.
CallInv ==
    /\ frame_seq = frame_no % SeqMod
    /\ \A i \in DOMAIN call.run :
        /\ call.run[i].codec = "h265" /\ Stamped(call.run[i])
        /\ IdOf(call.run[i]) = Id(epoch, frame_no)

\* Video chunks in flight are in sending order, after what rx has heard and
\* not after the frame tx has in hand.
LinkInv ==
    /\ Leq(heard, Id(epoch, frame_no))
    /\ \A i \in DOMAIN link : link[i].codec = "h265" =>
        /\ Stamped(link[i])
        /\ Leq(heard, IdOf(link[i])) /\ Leq(IdOf(link[i]), Id(epoch, frame_no))
    /\ \A i, j \in DOMAIN link :
        i < j /\ link[i].codec = "h265" /\ link[j].codec = "h265" =>
            Leq(IdOf(link[i]), IdOf(link[j]))

\* The frame in progress is the one heard last, up to its chunk
\* next_chunk_idx - 1; pieces of other tx runs are of earlier ones.
BufInv ==
    r.active =>
        /\ r.frame_seq = heard.no % SeqMod
        /\ r.next_chunk_idx = Len(r.buf)
        /\ \A i \in DOMAIN r.buf :
            /\ r.buf[i].piece.idx = i - 1
            /\ r.buf[i].piece.epoch <= heard.epoch
            /\ r.buf[i].piece.epoch = heard.epoch => r.buf[i].piece.no = heard.no
        /\ \A i, j \in DOMAIN r.buf :
            r.buf[i].piece.epoch = r.buf[j].piece.epoch => r.buf[i].piece.no = r.buf[j].piece.no

MixInv == CallInv /\ LinkInv /\ BufInv /\ OneFrame(got)

\* A slice in hand belongs to the open frame, a whole frame to none.
SliceInv ==
    /\ call.kind = "part" => sf.open
    /\ call.kind = "frame" => ~sf.open

-----------------------------------------------------------------------------
(* The inductive invariant behind DeliveryInOrder and MarkerExact: source  *)
(* frames keep their order through the ring, the chunker call and the      *)
(* socket, and nothing of a frame follows its last piece.                  *)

\* The picture delivered last, 0 before the first one.
Shown == IF got = << >> THEN 0 ELSE got[1].src

\* Bytes of source frame pts may come after chunk c.
Follows(pts, c) == c.piece.src <= pts /\ (c.piece.end => c.piece.src < pts)

\* A chunk on its way to rx: it ends its frame only with the last bytes of the
\* picture, is younger than the picture shown, not older than the one in
\* progress, and ahead of what is in the ring and what the encoder has left.
Underway(c) ==
    /\ c.frame_pts = c.piece.src
    /\ c.chunk_count = c.chunk_idx + 1 => c.piece.end
    /\ Shown < c.piece.src /\ (r.active => r.frame_pts <= c.piece.src)
    /\ \A k \in DOMAIN ring : Follows(ring[k].pts, c)
    /\ c.piece.src <= encoded /\ (slices # << >> => Follows(encoded, c))

RingOrder ==
    /\ \A k \in DOMAIN ring :
        /\ Shown < ring[k].pts /\ (r.active => r.frame_pts <= ring[k].pts)
        /\ ring[k].pts <= encoded /\ (slices # << >> /\ ~ring[k].partial => ring[k].pts < encoded)
    /\ \A j, k \in DOMAIN ring : j < k =>
        ring[j].pts <= ring[k].pts /\ (~ring[j].partial => ring[j].pts < ring[k].pts)

RunOrder ==
    /\ \A i \in DOMAIN call.run : Underway(call.run[i])
    /\ \A i, j \in DOMAIN call.run : i < j => Follows(call.run[j].piece.src, call.run[i])

LinkOrder ==
    \A i \in DOMAIN link : link[i].codec = "h265" =>
        /\ Underway(link[i])
        /\ \A j \in DOMAIN link :
             i < j /\ link[j].codec = "h265" => Follows(link[j].piece.src, link[i])
        /\ \A j \in DOMAIN call.run : Follows(call.run[j].piece.src, link[i])

\* The frame in progress is named after its first piece and younger than the
\* picture shown, which is not the one the encoder is still cutting.
ShownOrder ==
    /\ Shown <= encoded /\ (slices # << >> => Shown < encoded)
    /\ r.active =>
        /\ r.buf # << >> /\ r.buf[1].piece.src = r.frame_pts
        /\ Shown < r.frame_pts /\ r.frame_pts <= encoded

OrderInv == RingOrder /\ RunOrder /\ LinkOrder /\ ShownOrder

\* The encoder leaves no slice empty (waybeam, outside this repository).
SlicesHaveBytes == \A s \in Slicings : \A i \in DOMAIN s : s[i].len > 0

\* With that, every entry and every video chunk has bytes, and a marker
\* belongs to the picture shown last.
MarkInv ==
    /\ \A i \in DOMAIN slices : slices[i].len > 0
    /\ \A i \in DOMAIN ring : ring[i].len > 0
    /\ \A i \in DOMAIN call.run : call.run[i].piece.len > 0
    /\ \A i \in DOMAIN link : link[i].codec = "h265" => link[i].piece.len > 0
    /\ rtp.marked => rtp.ts = Shown

-----------------------------------------------------------------------------
(* Refinement and liveness *)

\* Pictures come out in capture order, each at most once, whatever is lost,
\* flushed or restarted on the way.
Delivery == INSTANCE FrameDelivery WITH
    captured  <- encoded,
    shown     <- Shown,
    delivered <- r.completed_frames
DeliveryInOrder == Delivery!Spec

(***************************************************************************)
(* The tx thread keeps running: ring reads return within 200 ms, and every *)
(* bb_socket_write() within write_timeout_ms, with progress or without.    *)
(* Nothing is assumed of the encoder, the radio or the ground.             *)
(***************************************************************************)
Fairness ==
    /\ WF_vars(TxRead) /\ WF_vars(TxWrite \/ TxWriteFails) /\ WF_vars(TxReturn)
    /\ WF_vars(TxTimeout)

FairSpec == Spec /\ Fairness

\* The main loop never wedges on a frame: the ring is always drained again;
\* and "a SYNCR must still get answered" (flush_outq()) when no video is
\* flowing: the outq empties, riding along with video or without.
QueuesServed ==
    /\ ring # << >> ~> ring = << >>
    /\ outq > 0 ~> outq = 0

=============================================================================
