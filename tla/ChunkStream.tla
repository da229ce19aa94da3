---- MODULE ChunkStream ----
(***************************************************************************)
(* common/chunk_stream.c: whole chunks out of a stream of bytes that keeps  *)
(* no boundaries and may miss a run of bytes anywhere, or have one changed. *)
(*                                                                         *)
(* A byte on the wire is known by its position, so the buffer is a sequence *)
(* of positions.  The magic is two bytes, a length and a checksum one each, *)
(* and no two payloads that occur have equal checksums.                    *)
(***************************************************************************)
EXTENDS Integers, SequencesExt

CONSTANTS
    Payloads,     \* the payloads a sender may choose from
    MaxPayload,   \* AR8030_CHUNK_MAX_PAYLOAD: all that the length field can say
    Count,        \* the chunks of one stream
    Cap,          \* cap of the buffer
    MaxHole       \* the longest run of bytes that gets lost

Magic == <<1, 2>>
HdrSize == 5

\* ar8030_crc16(), here without collisions.
Crc16(payload) == 1000 + FoldLeft(LAMBDA sum, byte : 200 * sum + byte + 1, 0, payload)

ASSUME StreamAssumption ==
    /\ MaxPayload \in Nat /\ Count \in Nat \ {0} /\ MaxHole \in Nat
    /\ Cap >= HdrSize + MaxPayload   \* ar8030_chunk_stream_init()'s contract
    /\ \A p \in Payloads : Len(p) <= MaxPayload

VARIABLES
    sent,      \* the payloads of the stream's chunks
    stream,    \* the bytes on the wire: the value of each and the chunk it is of
    hole,      \* the positions that are lost
    flip,      \* the position that is changed, 0 for none
    arrived,   \* how far the stream has come in
    buf,       \* s->buf
    out,       \* what was returned: the positions of each chunk
    consumed, dropped   \* bytes_consumed, resync_dropped_bytes

input == <<sent, stream, hole, flip>>
vars == <<input, arrived, buf, out, consumed, dropped>>

-----------------------------------------------------------------------------
(* The stream.                                                             *)

Chunks == 1 .. Count

\* Chunk k as chunk_run() lays it out: magic, what the stream does not look at, length, checksum.
Encoded(k, payload) ==
    LET bytes == Magic \o <<10 + k, Len(payload), Crc16(payload)>> \o payload
    IN  [i \in DOMAIN bytes |-> [val |-> bytes[i], of |-> k]]

Wire(payloads) == FlattenSeq([k \in Chunks |-> Encoded(k, payloads[k])])

End == Len(stream)
Span(k) == {p \in DOMAIN stream : stream[p].of = k}
Byte(p) == stream[p].val

Init ==
    /\ sent \in [Chunks -> Payloads]
    /\ LET wire == Wire(sent)
       IN  \/ /\ stream = wire /\ flip = 0
              /\ \E from \in DOMAIN wire, n \in 0 .. MaxHole : hole = from .. (from + n - 1)
           \/ /\ hole = {} /\ flip \in DOMAIN wire
              /\ \E b \in {0, 1} : stream = [wire EXCEPT ![flip].val = b]
    /\ arrived = 0 /\ buf = <<>> /\ out = <<>> /\ consumed = 0 /\ dropped = 0

-----------------------------------------------------------------------------
(* ar8030_chunk_stream_read().                                             *)

Values(q) == [i \in DOMAIN q |-> Byte(q[i])]
Drop(q, n) == SubSeq(q, n + 1, Len(q))

MagicAt(q) == {i \in 0 .. (Len(q) - Len(Magic)) : Values(SubSeq(q, i + 1, i + Len(Magic))) = Magic}

\* scan_for_magic(): without a magic all but what may be the beginning of one.
Junk(q) == IF MagicAt(q) = {} THEN Len(q) - (Len(Magic) - 1) ELSE Min(MagicAt(q))

\* The buffer as the scan leaves it.
Synced == IF Len(buf) < Len(Magic) THEN buf ELSE Drop(buf, Junk(buf))

\* The bytes the first header claims; its length field cannot say more than MaxPayload.
Need(q) == HdrSize + (Byte(q[4]) % (MaxPayload + 1))
HasChunk(q) == Len(q) >= HdrSize /\ Len(q) >= Need(q)
Claimed(q) == SubSeq(q, 1, Need(q))

ChecksumSkipped(c) == TRUE

\* The payload's own checksum is the one in the header.
ChecksumOk(c) == Byte(c[5]) = Crc16(Values(Drop(c, HdrSize)))

Return ==
    /\ HasChunk(Synced) /\ ChecksumOk(Claimed(Synced))
    /\ out' = Append(out, Claimed(Synced))
    /\ buf' = Drop(Synced, Need(Synced))
    /\ consumed' = consumed + Need(Synced)
    /\ dropped' = dropped + (Len(buf) - Len(Synced))
    /\ UNCHANGED <<input, arrived>>

SkipNone(q) == 0
SkipClaimed(q) == Need(q)

\* Of a chunk that fails only the magic goes: what it claims may be other chunks.
Skip(q) == Len(Magic)

DroppedScanned(n) == n - Len(Magic)
\* resync_dropped_bytes counts what the scan passed and the magic of a failed chunk.
DroppedBytes(n) == n

Reject ==
    /\ HasChunk(Synced) /\ ~ChecksumOk(Claimed(Synced))
    /\ buf' = Drop(Synced, Skip(Synced))
    /\ dropped' = dropped + DroppedBytes(Len(buf) - Len(buf'))
    /\ UNCHANGED <<input, arrived, out, consumed>>

\* What comes in of the next n positions.
Incoming(n) == SelectSeq([i \in 1 .. n |-> arrived + i], LAMBDA p : p \notin hole)

\* s->cap - s->len
Room(q) == Cap - Len(q)

\* fill(): some of what is there, as far as the buffer has room.
Fill ==
    /\ ~HasChunk(Synced) /\ arrived < End
    /\ \E n \in 1 .. (End - arrived) :
          /\ Len(Incoming(n)) <= Room(Synced)
          /\ arrived' = arrived + n
          /\ buf' = Synced \o Incoming(n)
    /\ dropped' = dropped + (Len(buf) - Len(Synced))
    /\ UNCHANGED <<input, out, consumed>>

Next == Return \/ Reject \/ Fill

Spec == Init /\ [][Next]_vars

\* The caller keeps calling.
FairSpec == Spec /\ WF_vars(Next)

-----------------------------------------------------------------------------
(* Properties.                                                             *)

PositionsOf(q) == {q[i] : i \in DOMAIN q}

\* The buffer stays within its size (fill()) and holds bytes that came in, in their order.
TypeOK ==
    /\ arrived \in 0 .. End /\ consumed \in Nat /\ dropped \in Nat
    /\ Len(buf) <= Cap
    /\ \A i \in DOMAIN buf : buf[i] \in 1 .. arrived /\ buf[i] \notin hole /\ (i > 1 => buf[i - 1] < buf[i])

InHeader(p) == p \in DOMAIN stream /\ Cardinality({q \in Span(stream[p].of) : q <= p}) <= HdrSize

\* The checksum does not cover the header: a changed one, or one joined from two across a
\* hole, goes unnoticed when its length and checksum fields agree.
HeadersSafe ==
    /\ ~InHeader(flip)
    /\ hole # {} => ~(InHeader(Min(hole)) /\ InHeader(Max(hole) + 1))

\* What is handed on is a chunk as it was sent, header and payload, whatever lengths and
\* magics the bytes around a hole seem to spell: the payload checksum is enough for that as
\* long as the damage is not to a header.
ChunksAsSent ==
    HeadersSafe => \A i \in DOMAIN out : \E k \in Chunks :
        Values(out[i]) = [j \in DOMAIN Encoded(k, sent[k]) |-> Encoded(k, sent[k])[j].val]

Intact(k) == Span(k) \cap hole = {} /\ flip \notin Span(k)
Passed(k) == \A p \in Span(k) : p <= arrived /\ p \notin PositionsOf(buf)

\* A damaged chunk was made up by the first bytes of chunk k, which equal the ones it lost.
TakenInto(k, c) == stream[c[1]].of < k /\ PositionsOf(c) \cap Span(k) # {}

\* A chunk whose every byte came in is returned, however the bytes are cut into reads and
\* whatever a damaged chunk before it claims (chunk_stream.h: "intact chunks inside its
\* claimed length survive").
IntactSurvives ==
    \A k \in Chunks : Intact(k) /\ Passed(k) =>
        \E i \in DOMAIN out : PositionsOf(out[i]) = Span(k) \/ TakenInto(k, out[i])

\* The two counters and the buffer account for every byte that came in.
BytesAccounted == consumed + dropped + Len(buf) = arrived - Cardinality(hole \cap (1 .. arrived))

\* The stream never wedges: however it is damaged, all of it is read in the end.
Drains == <>(arrived = End)

\* Nothing that came in disappears: it is returned if it is a chunk and counted if it is not.
NothingLost == IntactSurvives /\ BytesAccounted
====
