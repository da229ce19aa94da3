-------------------------- MODULE SdioDriverProofs --------------------------
(***************************************************************************)
(* Safety of SdioDriver for every block size, window, frame size, image    *)
(* and bound: FirmwareSound along what the ROM holds of each section,      *)
(* RemovalClean along who holds tx_mutex, and NetFramesContiguous along    *)
(* the blocks of the worker's frame in hand.                               *)
(***************************************************************************)
EXTENDS SdioDriver, SequenceTheorems, TLAPS

-----------------------------------------------------------------------------
(* The inductive invariants *)

\* What the ROM holds of section i of the image: the sections ahead are untouched, the one being
\* sent is there up to the offset, and those behind are whole unless their failure is ignored.
Logged == {"troot", "sig"}
FwSections ==
    /\ \A i \in 1..5 : i > fw.at => fw.got[Sections[i]] = {}
    /\ \A i \in 1..5 : i < fw.at /\ Sections[i] \notin Logged =>
          fw.got[Sections[i]] = 0..(fw.img[Sections[i]] - 1)
    /\ fw.at <= 5 => /\ fw.got[Sections[fw.at]] = 0..(fw.off - 1)
                     /\ fw.img[Sections[fw.at]] > 0 /\ fw.off < fw.img[Sections[fw.at]]

FwRecord == [img : Images, at : 1..6, off : Nat, got : [SectionSet -> SUBSET Nat], done : BOOLEAN,
             st : {"idle", "push", "ok", "failed"}]

\* A push that has not begun, or failed to find an image, holds nothing; one under way follows its
\* sections; and only one past the last section is closed.
FwInv ==
    \/ fw = FwIdle
    \/ fw = [FwIdle EXCEPT !.st = "failed"]
    \/ /\ fw \in FwRecord /\ fw.st # "idle"
       /\ fw.st = "push" => FwSections /\ ~fw.done
       /\ fw.done => fw.st = "ok" /\ fw.at = 6 /\ FwSections

\* A writer is past tx_mutex exactly when it owns it.
Held == {"again", "wait", "copy"}
LockInv ==
    /\ wr \in [Writers -> [pc : {"idle", "lock"} \cup Held, left : Nat]]
    /\ win \in Nat /\ "grant" \in DOMAIN chip /\ chip.grant \in Nat
    /\ txLock \in Writers \cup {None}
    /\ \A w \in Writers : txLock = w <=> wr[w].pc \in Held

\* Block i belongs to the frame the worker has in hand.
InHand(i) == wire[i].w = "net" /\ wire[i].f = used.frames["net"]

\* The blocks of the worker's frame are the end of the wire while it holds tx_mutex, and there are
\* none before it has it.
FrameInv ==
    /\ wire \in Seq([w : Writers, f : Nat, last : BOOLEAN])
    /\ "frames" \in DOMAIN used /\ used.frames \in [Writers -> Nat]
    /\ \A i \in DOMAIN wire : wire[i].w = "net" => wire[i].f <= used.frames["net"]
    /\ wr["net"].pc = "lock" => \A i \in DOMAIN wire : ~InHand(i)
    /\ wr["net"].pc \in Held => \A i, j \in DOMAIN wire : i < j /\ InHand(i) => InHand(j)
    /\ NetFramesContiguous

-----------------------------------------------------------------------------
(* FirmwareSound *)

\* The smaller of two lengths.
LEMMA MinOfTwo ==
  ASSUME NEW a \in Nat, NEW b \in Nat
  PROVE  /\ Min({a, b}) \in {a, b} /\ Min({a, b}) <= a /\ Min({a, b}) <= b
<1>1. \E x \in {a, b} : \A y \in {a, b} : x <= y
  <2>1. CASE a <= b  BY <2>1
  <2>2. CASE b <= a  BY <2>2
  <2> QED BY <2>1, <2>2
<1> QED BY <1>1 DEF Min

\* Quotient and remainder.
LEMMA DivMod ==
  ASSUME NEW a \in Nat, NEW M \in Nat \ {0}
  PROVE  /\ a % M \in 0..(M-1)
         /\ \E q \in Nat : a = M * q + (a % M)
<1>1. a \div M \in Nat /\ a % M \in 0..(M-1) /\ a = M * (a \div M) + (a % M)
  OBVIOUS
<1> QED BY <1>1, Zenon

\* A larger quotient is larger by a whole block at least.
LEMMA TimesMono ==
  ASSUME NEW M \in Nat \ {0}, NEW p \in Nat, NEW q \in Nat, p < q
  PROVE  M * p + M <= M * q
<1>1. PICK d \in Nat : q = p + 1 + d
  <2>1. q - p - 1 \in Nat OBVIOUS
  <2> QED BY <2>1
<1>2. M * q = M * p + M + M * d
  BY <1>1
<1>3. M * d \in Nat OBVIOUS
<1> QED BY <1>2, <1>3

\* A whole number of blocks has no remainder, and one is left once the remainder is cut off.
LEMMA WholeBlocks ==
  ASSUME NEW a \in Nat, NEW M \in Nat \ {0}, NEW r, r = a % M
  PROVE  /\ (a - r) \in Nat /\ (a - r) % M = 0
         /\ a >= M => a - r >= M
<1>1. r \in 0..(M-1)  BY DivMod
<1>2. PICK q \in Nat : a = M * q + r  BY <1>1, DivMod
<1>3. PICK b \in Nat : b = M * q  OBVIOUS
<1>4. a = b + r  BY <1>2, <1>3
<1>5. b % M = 0
  <2>1. PICK x \in 0..(M-1) : x = b % M  BY <1>3, DivMod
  <2>2. PICK p \in Nat : b = M * p + x  BY <1>3, <2>1, DivMod
  <2>3. PICK e \in Nat : e = M * p  OBVIOUS
  <2>4. b = e + x  BY <2>2, <2>3
  <2>5. p < q => e + M <= b  BY <1>3, <2>3, TimesMono
  <2>6. q < p => b + M <= e  BY <1>3, <2>3, TimesMono
  <2>7. p = q => e = b  BY <1>3, <2>3
  <2>8. x = 0  BY <2>4, <2>5, <2>6, <2>7
  <2> QED BY <2>1, <2>8
<1>6. a >= M => b >= M
  <2>1. CASE q = 0
    <3>1. b = 0  BY <1>3, <2>1
    <3> QED BY <1>4, <3>1
  <2>2. CASE 0 < q
    <3>1. M * 0 + M <= M * q  BY <2>2, TimesMono
    <3> QED BY <1>3, <3>1
  <2> QED BY <2>1, <2>2
<1>7. a - r = b  BY <1>4
<1> QED BY <1>3, <1>5, <1>6, <1>7

\* artosyn_fw_send_chunk() never cuts a packet to nothing, and artosyn_write_chunk() then takes
\* the packet, header included, in one piece.
LEMMA FwChunkFacts ==
  ASSUME NEW rest \in Nat \ {0}
  PROVE  /\ FwChunk(rest) \in 1..rest
         /\ RomWrite(FwChunk(rest) + PkgHeader) = FwChunk(rest) + PkgHeader
<1>1. /\ BlockSize \in Nat \ {0} /\ PkgHeader \in Nat /\ 1 <= PkgHeader /\ PkgHeader < BlockSize
      /\ OneshotMax \in Nat /\ OneshotMax > PkgHeader /\ TransMax \in Nat /\ TransMax >= OneshotMax
  BY FirmwareAssumption
<1>2. PICK c \in Nat : c = Min({rest, OneshotMax - PkgHeader})
  <2>1. OneshotMax - PkgHeader \in Nat  BY <1>1
  <2>2. Min({rest, OneshotMax - PkgHeader}) \in Nat  BY <2>1, MinOfTwo
  <2> QED BY <2>2
<1>3. c <= rest /\ c + PkgHeader <= OneshotMax /\ c >= 1
  <2>1. OneshotMax - PkgHeader \in Nat  BY <1>1
  <2> QED BY <1>1, <1>2, <2>1, MinOfTwo
<1>4. PICK d \in Nat : d = c + PkgHeader  BY <1>1
<1>5. PICK r \in Nat : r = d % BlockSize  BY <1>1, <1>4, DivMod
<1>6. FwChunk(rest) = IF d > BlockSize /\ r # 0 THEN c - r ELSE c
  BY <1>2, <1>4, <1>5 DEF FwChunk
<1>7. d - r \in Nat /\ (d - r) % BlockSize = 0 /\ (d >= BlockSize => d - r >= BlockSize)
  BY <1>1, <1>4, <1>5, WholeBlocks
<1>8. ASSUME NEW e \in Nat, e <= TransMax, e > BlockSize => e % BlockSize = 0
      PROVE  RomWrite(e) = e
  <2>1. Min({e, TransMax}) = e  BY <1>1, <1>8, MinOfTwo
  <2> QED BY <1>8, <2>1 DEF RomWrite
<1>9. CASE d > BlockSize /\ r # 0
  <2>1. FwChunk(rest) = c - r  BY <1>6, <1>9
  <2>2. c - r \in Int /\ c - r + PkgHeader = d - r /\ d - r <= TransMax  BY <1>1, <1>3, <1>4
  <2>3. c - r >= 1  BY <1>1, <1>4, <1>7, <1>9
  <2>4. RomWrite(d - r) = d - r  BY <1>7, <1>8, <2>2
  <2> QED BY <1>3, <2>1, <2>2, <2>3, <2>4
<1>10. CASE ~(d > BlockSize /\ r # 0)
  <2>1. FwChunk(rest) = c  BY <1>6, <1>10
  <2>2. d > BlockSize => d % BlockSize = 0  BY <1>5, <1>10
  <2>3. RomWrite(d) = d  BY <1>1, <1>3, <1>4, <1>8, <2>2
  <2> QED BY <1>3, <1>4, <2>1, <2>3
<1> QED BY <1>9, <1>10

\* The five sections.
LEMMA SectionFacts ==
  /\ \A i \in 1..5 : Sections[i] \in SectionSet
  /\ \A i, j \in 1..5 : Sections[i] = Sections[j] => i = j
  /\ Sections[1] = "header" /\ Sections[4] = "spl" /\ Sections[5] = "cfg"
  BY DEF Sections, SectionSet

\* The next section is the first one that has bytes.
LEMMA NextSectionFacts ==
  ASSUME NEW img \in [SectionSet -> Nat], NEW i \in 1..5
  PROVE  LET n == NextSection(img, i)
         IN  /\ n \in (i + 1)..6
             /\ \A k \in 1..5 : i < k /\ k < n => img[Sections[k]] = 0
             /\ n <= 5 => img[Sections[n]] > 0
<1>1. \A k \in 1..5 : img[Sections[k]] \in Nat  BY SectionFacts
<1>2. CASE \E j \in (i + 1)..5 : img[Sections[j]] > 0
  <2> DEFINE First(j) == img[Sections[j]] > 0 /\ \A k \in (i + 1)..(j - 1) : img[Sections[k]] = 0
  <2>1. \E j \in (i + 1)..5 : First(j)
    <3>1. CASE 2 \in (i + 1)..5 /\ img[Sections[2]] > 0
      <4>1. First(2)  BY <3>1
      <4> QED BY <3>1, <4>1
    <3>2. CASE ~(2 \in (i + 1)..5 /\ img[Sections[2]] > 0) /\ 3 \in (i + 1)..5 /\ img[Sections[3]] > 0
      <4>1. First(3)  BY <1>1, <3>2
      <4> QED BY <3>2, <4>1
    <3>3. CASE /\ ~(2 \in (i + 1)..5 /\ img[Sections[2]] > 0) /\ ~(3 \in (i + 1)..5 /\ img[Sections[3]] > 0)
               /\ 4 \in (i + 1)..5 /\ img[Sections[4]] > 0
      <4>1. First(4)  BY <1>1, <3>3
      <4> QED BY <3>3, <4>1
    <3>4. CASE /\ ~(2 \in (i + 1)..5 /\ img[Sections[2]] > 0) /\ ~(3 \in (i + 1)..5 /\ img[Sections[3]] > 0)
               /\ ~(4 \in (i + 1)..5 /\ img[Sections[4]] > 0) /\ img[Sections[5]] > 0 /\ 5 \in (i + 1)..5
      <4>1. First(5)  BY <1>1, <3>4
      <4> QED BY <3>4, <4>1
    <3>5. PICK j \in (i + 1)..5 : img[Sections[j]] > 0  BY <1>2
    <3>6. j = 2 \/ j = 3 \/ j = 4 \/ j = 5  BY <3>5
    <3> HIDE DEF First
    <3> QED BY <3>1, <3>2, <3>3, <3>4, <3>5, <3>6
  <2>2. NextSection(img, i) = CHOOSE j \in (i + 1)..5 : First(j)  BY <1>2 DEF NextSection
  <2>3. PICK n : n = NextSection(img, i)  OBVIOUS
  <2>4. n \in (i + 1)..5 /\ First(n)
    <3> HIDE DEF First
    <3> QED BY <2>1, <2>2, <2>3
  <2> QED BY <2>3, <2>4
<1>3. CASE ~\E j \in (i + 1)..5 : img[Sections[j]] > 0
  <2>1. NextSection(img, i) = 6  BY <1>3 DEF NextSection
  <2> QED BY <1>1, <1>3, <2>1
<1> QED BY <1>2, <1>3

\* The sections of a push whose current section is behind it, whole or of the ones whose failure
\* is only logged.
LEMMA SectionDone ==
  ASSUME fw \in FwRecord, FwSections, fw.at <= 5, NEW n, n = NextSection(fw.img, fw.at),
         fw' \in FwRecord, fw'.img = fw.img, fw'.at = n, fw'.off = 0,
         \A s \in SectionSet : s # Sections[fw.at] => fw'.got[s] = fw.got[s],
         Sections[fw.at] \in Logged \/ fw'.got[Sections[fw.at]] = 0..(fw.img[Sections[fw.at]] - 1)
  PROVE  FwSections'
<1>1. fw.at \in 1..5 /\ fw.img \in [SectionSet -> Nat]  BY FirmwareAssumption DEF FwRecord
<1>2. /\ n \in (fw.at + 1)..6
      /\ \A k \in 1..5 : fw.at < k /\ k < n => fw.img[Sections[k]] = 0
      /\ n <= 5 => fw.img[Sections[n]] > 0
  BY <1>1, NextSectionFacts
<1>3. \A i \in 1..5 : i # fw.at => fw'.got[Sections[i]] = fw.got[Sections[i]]
  BY <1>1, SectionFacts
<1>4. \A i \in 1..5 : i > fw.at => fw'.got[Sections[i]] = {}
  BY <1>1, <1>3 DEF FwSections
<1>5. 0..(0 - 1) = {}  OBVIOUS
<1>6. \A i \in 1..5 : i > n => fw'.got[Sections[i]] = {}  BY <1>1, <1>2, <1>4
<1>7. ASSUME NEW i \in 1..5, i < n, Sections[i] \notin Logged
      PROVE  fw'.got[Sections[i]] = 0..(fw.img[Sections[i]] - 1)
  <2>1. CASE i < fw.at  BY <1>1, <1>3, <1>7, <2>1 DEF FwSections
  <2>2. CASE i = fw.at  BY <1>7, <2>2
  <2>3. CASE i > fw.at
    <3>1. fw.img[Sections[i]] = 0  BY <1>1, <1>2, <1>7, <2>3
    <3> QED BY <1>4, <1>5, <2>3, <3>1
  <2> QED BY <1>1, <2>1, <2>2, <2>3
<1>8. ASSUME n <= 5
      PROVE  /\ fw'.got[Sections[n]] = 0..(0 - 1)
             /\ fw.img[Sections[n]] > 0 /\ 0 < fw.img[Sections[n]]
  <2>1. n \in 1..5 /\ n > fw.at  BY <1>1, <1>2, <1>8
  <2> QED BY <1>2, <1>4, <1>5, <1>8, <2>1
<1> QED BY <1>6, <1>7, <1>8 DEF FwSections

\* A packet extends what the ROM holds of the current section, up to its end at most.
LEMMA PacketStep ==
  ASSUME FwInv, FwPacket
  PROVE  FwInv'
<1>1. fw \in FwRecord /\ FwSections /\ ~fw.done /\ fw.st = "push" /\ fw.at <= 5
  BY DEF FwInv, FwPacket, FwIdle
<1>2. fw.at \in 1..5 /\ fw.off \in Nat /\ fw.img \in [SectionSet -> Nat] /\ fw.img \in Images
      /\ fw.got \in [SectionSet -> SUBSET Nat]
  BY <1>1, FirmwareAssumption DEF FwRecord
<1>3. PICK s \in SectionSet : s = Sections[fw.at]  BY <1>2, SectionFacts
<1>4. fw.got[s] = 0..(fw.off - 1) /\ fw.off < fw.img[s] /\ fw.img[s] \in Nat
  BY <1>1, <1>2, <1>3 DEF FwSections
<1>5. PICK rest \in Nat \ {0} : rest = fw.img[s] - fw.off  BY <1>2, <1>4
<1>6. PICK c \in 1..rest : c = FwChunk(rest)  BY FwChunkFacts
<1>7. PICK g : g = fw.got[s] \cup {fw.off + k : k \in 0..(c - 1)}  OBVIOUS
<1>8. fw' = [fw EXCEPT !.got[s] = g,
                       !.off = IF c = rest THEN 0 ELSE fw.off + c,
                       !.at = IF c = rest THEN NextSection(fw.img, fw.at) ELSE fw.at]
  BY <1>3, <1>5, <1>6, <1>7 DEF FwPacket
<1>9. /\ fw'.img = fw.img /\ fw'.st = "push" /\ fw'.done = fw.done
      /\ fw'.got = [fw.got EXCEPT ![s] = g]
      /\ fw'.off = (IF c = rest THEN 0 ELSE fw.off + c)
      /\ fw'.at = (IF c = rest THEN NextSection(fw.img, fw.at) ELSE fw.at)
  BY <1>1, <1>8 DEF FwRecord
<1>10. g = 0..(fw.off + c - 1)
  <2>1. \A x : x \in g <=> x \in Nat /\ (x < fw.off \/ \E k \in 0..(c - 1) : x = fw.off + k)
    BY <1>2, <1>4, <1>7
  <2>2. \A x \in Nat : (\E k \in 0..(c - 1) : x = fw.off + k) <=> fw.off <= x /\ x < fw.off + c
    <3> SUFFICES ASSUME NEW x \in Nat, fw.off <= x, x < fw.off + c
                 PROVE  \E k \in 0..(c - 1) : x = fw.off + k
      BY <1>2
    <3>1. x - fw.off \in 0..(c - 1) /\ x = fw.off + (x - fw.off)  BY <1>2
    <3> QED BY <3>1
  <2>3. \A x \in Nat : x < fw.off \/ (fw.off <= x /\ x < fw.off + c) <=> x < fw.off + c  BY <1>2
  <2>4. \A x : x \in g <=> x \in Nat /\ x < fw.off + c  BY <2>1, <2>2, <2>3, Zenon
  <2>5. \A x : x \in 0..(fw.off + c - 1) <=> x \in Nat /\ x < fw.off + c  BY <1>2
  <2> QED BY <2>4, <2>5
<1>11. NextSection(fw.img, fw.at) \in 1..6  BY <1>2, NextSectionFacts
<1>12. fw' \in FwRecord
  <2>1. g \in SUBSET Nat  BY <1>2, <1>10
  <2>2. fw'.got \in [SectionSet -> SUBSET Nat]  BY <1>2, <1>9, <2>1
  <2>3. fw'.off \in Nat /\ fw'.at \in 1..6  BY <1>2, <1>9, <1>11
  <2>4. fw' = [img |-> fw.img, at |-> fw'.at, off |-> fw'.off, got |-> fw'.got,
               done |-> fw.done, st |-> fw.st]
    BY <1>1, <1>8, <1>9 DEF FwRecord
  <2>5. fw.done \in BOOLEAN  BY <1>1 DEF FwRecord
  <2> QED BY <1>1, <1>2, <2>2, <2>3, <2>4, <2>5 DEF FwRecord
<1>13. fw'.got[s] = g /\ \A t \in SectionSet : t # s => fw'.got[t] = fw.got[t]  BY <1>2, <1>9
<1>14. FwSections'
  <2>1. CASE c = rest
    <3>1. g = 0..(fw.img[s] - 1)  BY <1>2, <1>4, <1>5, <1>10, <2>1
    <3>2. fw'.at = NextSection(fw.img, fw.at) /\ fw'.off = 0  BY <1>9, <2>1
    <3> QED BY <1>1, <1>3, <1>9, <1>12, <1>13, <3>1, <3>2, SectionDone
  <2>2. CASE c # rest
    <3>1. fw'.at = fw.at /\ fw'.off = fw.off + c /\ fw.off + c < fw.img[s]
      BY <1>2, <1>4, <1>5, <1>9, <2>2
    <3>2. \A i \in 1..5 : i # fw.at => fw'.got[Sections[i]] = fw.got[Sections[i]]
      BY <1>2, <1>3, <1>13, SectionFacts
    <3>3. \A i \in 1..5 : i > fw.at => i # fw.at  BY <1>2
    <3>4. \A i \in 1..5 : i < fw.at => i # fw.at  BY <1>2
    <3>5. \A i \in 1..5 : i > fw'.at => fw'.got[Sections[i]] = {}
      BY <1>1, <3>1, <3>2, <3>3 DEF FwSections
    <3>6. \A i \in 1..5 : i < fw'.at /\ Sections[i] \notin Logged =>
             fw'.got[Sections[i]] = 0..(fw'.img[Sections[i]] - 1)
      BY <1>1, <1>9, <3>1, <3>2, <3>4 DEF FwSections
    <3>7. /\ fw'.got[Sections[fw'.at]] = 0..(fw'.off - 1)
          /\ fw'.img[Sections[fw'.at]] > 0 /\ fw'.off < fw'.img[Sections[fw'.at]]
      BY <1>2, <1>3, <1>4, <1>9, <1>10, <1>13, <3>1
    <3> QED BY <3>5, <3>6, <3>7 DEF FwSections
  <2> QED BY <2>1, <2>2
<1> QED BY <1>1, <1>9, <1>12, <1>14 DEF FwInv

\* A push starts with a header of at least one byte and an empty ROM, or finds no image.
LEMMA BeginStep ==
  ASSUME FwInv, FwBegin
  PROVE  FwInv'
<1>1. fw = FwIdle  BY DEF FwInv, FwBegin, FwIdle
<1>2. CASE fw' = [fw EXCEPT !.st = "failed"]  BY <1>1, <1>2 DEF FwInv
<1>3. CASE \E im \in Images : fw' = [fw EXCEPT !.img = im, !.st = "push"]
  <2>1. PICK im \in Images : fw' = [fw EXCEPT !.img = im, !.st = "push"]  BY <1>3
  <2>2. fw' = [img |-> im, at |-> 1, off |-> 0, got |-> [s \in SectionSet |-> {}],
               done |-> FALSE, st |-> "push"]
    BY <1>1, <2>1 DEF FwIdle
  <2>3. [s \in SectionSet |-> {}] \in [SectionSet -> SUBSET Nat]  OBVIOUS
  <2>4. fw' \in FwRecord  BY <2>2, <2>3 DEF FwRecord
  <2>5. im[Sections[1]] > 0 /\ im[Sections[1]] \in Nat  BY SectionFacts, FirmwareAssumption
  <2>6. \A i \in 1..5 : fw'.got[Sections[i]] = {}  BY <2>2, SectionFacts
  <2>7. 0..(0 - 1) = {}  OBVIOUS
  <2>8. FwSections'
    <3>1. fw'.at = 1 /\ fw'.off = 0 /\ fw'.img = im  BY <2>2
    <3>2. \A i \in 1..5 : ~(i < 1)  OBVIOUS
    <3>3. fw'.got[Sections[1]] = 0..(0 - 1)  BY <2>6, <2>7
    <3> QED BY <2>5, <2>6, <3>1, <3>2, <3>3 DEF FwSections
  <2> QED BY <2>2, <2>4, <2>8 DEF FwInv
<1> QED BY <1>2, <1>3 DEF FwBegin

\* A failed packet ends the push, or is only logged and the section left as it is.
LEMMA FailStep ==
  ASSUME FwInv, FwPacketFails
  PROVE  FwInv'
<1>1. fw \in FwRecord /\ FwSections /\ ~fw.done /\ fw.st = "push" /\ fw.at <= 5
  BY DEF FwInv, FwPacketFails, FwIdle
<1>2. fw.at \in 1..5 /\ fw.img \in [SectionSet -> Nat]
  BY <1>1, FirmwareAssumption DEF FwRecord
<1>3. CASE Sections[fw.at] \in Logged
  <2>1. PICK n \in 1..6 : n = NextSection(fw.img, fw.at)  BY <1>2, NextSectionFacts
  <2>2. fw' = [fw EXCEPT !.off = 0, !.at = n]  BY <1>3, <2>1 DEF FwPacketFails, Logged
  <2>3. /\ fw' \in FwRecord /\ fw'.img = fw.img /\ fw'.at = n /\ fw'.off = 0
        /\ fw'.got = fw.got /\ fw'.st = "push" /\ fw'.done = fw.done
    BY <1>1, <2>2 DEF FwRecord
  <2>4. FwSections'  BY <1>1, <1>3, <2>1, <2>3, SectionDone
  <2> QED BY <1>1, <2>3, <2>4 DEF FwInv
<1>4. CASE Sections[fw.at] \notin Logged
  <2>1. fw' = [fw EXCEPT !.st = "failed"]  BY <1>4 DEF FwPacketFails, Logged
  <2>2. fw' \in FwRecord /\ fw'.st = "failed" /\ fw'.done = fw.done  BY <1>1, <2>1 DEF FwRecord
  <2> QED BY <1>1, <2>2 DEF FwInv
<1> QED BY <1>3, <1>4

\* The closing packet is sent, or fails, past the last section.
LEMMA CloseStep ==
  ASSUME FwInv, FwClose
  PROVE  FwInv'
<1>1. fw \in FwRecord /\ FwSections /\ ~fw.done /\ fw.st = "push" /\ fw.at = 6
  BY DEF FwInv, FwClose, FwIdle
<1>2. CASE fw' = [fw EXCEPT !.done = TRUE, !.st = "ok"]
  <2>1. /\ fw' \in FwRecord /\ fw'.st = "ok" /\ fw'.at = 6
        /\ fw'.got = fw.got /\ fw'.img = fw.img /\ fw'.off = fw.off
    BY <1>1, <1>2 DEF FwRecord
  <2> QED BY <1>1, <2>1 DEF FwInv, FwSections
<1>3. CASE fw' = [fw EXCEPT !.st = "failed"]
  <2>1. fw' \in FwRecord /\ fw'.st = "failed" /\ fw'.done = fw.done  BY <1>1, <1>3 DEF FwRecord
  <2> QED BY <1>1, <2>1 DEF FwInv
<1> QED BY <1>2, <1>3 DEF FwClose

\* Only the boot-ROM probe touches the push, and the second probe starts with a fresh one.
LEMMA NextFw ==
  ASSUME FwInv, [Next]_svars
  PROVE  FwInv'
<1>1. CASE ProbeRom
  BY <1>1, BeginStep, PacketStep, FailStep, CloseStep DEF ProbeRom, FwNext
<1>2. CASE ProbeRtos
  <2>1. fw' = FwIdle  BY <1>2 DEF ProbeRtos
  <2> QED BY <2>1 DEF FwInv
<1>3. CASE ~(ProbeRom \/ ProbeRtos)
  <2>1. UNCHANGED fw
    BY <1>3 DEF Next, Irq, Poll, WriteBegin, WriteLock, WriteStep, WriteWake, WriteTimeout, WriteCopy,
       Open, Release, ReadBegin, ReadStep, ReadFails, ReadTake, ReadGive, ReadFifo, NetUp, NetDown,
       RemoveNet, RemoveFlag, RemoveFree, ChipStep, ChipGrant, ChipData, ChipRxReady, ChipIrqLost, svars
  <2> QED BY <2>1 DEF FwInv, FwSections
<1> QED BY <1>1, <1>2, <1>3

\* artosyn_download_firmware(): for every block, header and transfer size and every image, each
\* packet carries at least a byte and is taken whole, the ROM has no gap, and the chip is told to
\* boot only what it holds.
THEOREM FirmwareSoundHolds == Spec => []FirmwareSound
<1>1. Init => FwInv  BY DEF Init, FwInit, FwInv
<1>2. FwInv => FirmwareSound
  <2> SUFFICES ASSUME FwInv PROVE FwPacketsWhole /\ FwBootsLoaded  BY DEF FirmwareSound
  <2>1. FwPacketsWhole
    <3> SUFFICES ASSUME fw.st = "push", fw.at <= 5 PROVE FwPacketsWhole  BY DEF FwPacketsWhole
    <3>1. fw \in FwRecord /\ FwSections  BY DEF FwInv, FwIdle
    <3>2. fw.at \in 1..5 /\ fw.off \in Nat /\ fw.img \in [SectionSet -> Nat]
      BY <3>1, FirmwareAssumption DEF FwRecord
    <3>3. PICK s \in SectionSet : s = Sections[fw.at]  BY <3>2, SectionFacts
    <3>4. fw.got[s] = 0..(fw.off - 1) /\ fw.off < fw.img[s]  BY <3>1, <3>2, <3>3 DEF FwSections
    <3>5. PICK rest \in Nat \ {0} : rest = fw.img[s] - fw.off  BY <3>2, <3>4
    <3> QED BY <3>3, <3>4, <3>5, FwChunkFacts DEF FwPacketsWhole
  <2>2. FwBootsLoaded
    <3> SUFFICES ASSUME fw.done PROVE FwBootsLoaded  BY DEF FwBootsLoaded
    <3>1. fw.at = 6 /\ FwSections
      <4>1. fw # FwIdle
        <5>1. FwIdle.done = FALSE  BY DEF FwIdle
        <5> QED BY <5>1, Zenon
      <4>2. fw # [FwIdle EXCEPT !.st = "failed"]
        <5>1. [FwIdle EXCEPT !.st = "failed"].done = FALSE  BY DEF FwIdle
        <5> QED BY <5>1, Zenon
      <4> QED BY <4>1, <4>2, Zenon DEF FwInv
    <3>2. \A i \in {1, 4, 5} : i \in 1..5 /\ i < 6 /\ Sections[i] \notin Logged
      BY SectionFacts DEF Logged
    <3>3. \A i \in {1, 4, 5} : fw.got[Sections[i]] = 0..(fw.img[Sections[i]] - 1)
      BY <3>1, <3>2 DEF FwSections
    <3> QED BY <3>3, SectionFacts DEF FwBootsLoaded
  <2> QED BY <2>1, <2>2
<1> QED BY <1>1, <1>2, NextFw, PTL DEF Spec

-----------------------------------------------------------------------------
(* RemovalClean *)

\* The smallest of three lengths.
LEMMA MinOfThree ==
  ASSUME NEW a \in Nat, NEW b \in Nat, NEW c \in Nat
  PROVE  Min({a, b, c}) \in Nat /\ Min({a, b, c}) <= a
<1>1. \E x \in {a, b, c} : \A y \in {a, b, c} : x <= y
  <2>1. CASE a <= b /\ a <= c  BY <2>1
  <2>2. CASE b <= a /\ b <= c  BY <2>2
  <2>3. CASE c <= a /\ c <= b  BY <2>3
  <2> QED BY <2>1, <2>2, <2>3
<1>2. Min({a, b, c}) \in {a, b, c} /\ \A y \in {a, b, c} : Min({a, b, c}) <= y
  BY <1>1 DEF Min
<1> QED BY <1>2

\* The drain takes a window at most and counts a fault at most.
LEMMA DrainFacts ==
  ASSUME LockInv, CheckEvents \/ NoEvents
  PROVE  /\ win' \in Nat /\ "grant" \in DOMAIN chip' /\ chip'.grant \in Nat
         /\ "frames" \in DOMAIN used => "frames" \in DOMAIN used' /\ used'.frames = used.frames
<1>1. CASE NoEvents  BY <1>1 DEF NoEvents, LockInv
<1>2. CASE CheckEvents
  <2>1. PICK q : chip' = [chip EXCEPT !.events = {}, !.irq = FALSE, !.rx = q]
    BY <1>2 DEF CheckEvents
  <2>2. "grant" \in DOMAIN chip' /\ chip'.grant = chip.grant  BY <2>1 DEF LockInv
  <2>3. win' = win \/ win' = chip.grant  BY <1>2 DEF CheckEvents
  <2>4. used' = used \/ Fault  BY <1>2 DEF CheckEvents, RxTransfer
  <2>5. Fault /\ "frames" \in DOMAIN used => "frames" \in DOMAIN used' /\ used'.frames = used.frames
    BY DEF Fault
  <2> QED BY <2>2, <2>3, <2>4, <2>5 DEF LockInv
<1> QED BY <1>1, <1>2

\* Everyone but the writers.
Others ==
    \/ ProbeRom \/ ProbeRtos \/ Irq \/ Poll
    \/ Open \/ Release \/ ReadBegin \/ ReadStep
    \/ NetUp \/ NetDown \/ RemoveNet \/ RemoveFlag \/ RemoveFree
    \/ ChipStep \/ UNCHANGED svars

\* They leave the writers, tx_mutex and what was written alone.
LEMMA OthersFacts ==
  ASSUME LockInv, Others
  PROVE  /\ UNCHANGED <<wr, txLock, wire>>
         /\ win' \in Nat /\ "grant" \in DOMAIN chip' /\ chip'.grant \in Nat
         /\ "frames" \in DOMAIN used => "frames" \in DOMAIN used' /\ used'.frames = used.frames
<1>1. CASE Irq \/ Poll \/ ReadBegin
  <2>1. CheckEvents \/ NoEvents  BY <1>1 DEF Irq, Poll, ReadBegin
  <2>2. UNCHANGED <<wr, txLock, wire>>  BY <1>1 DEF Irq, Poll, ReadBegin
  <2> QED BY <2>1, <2>2, DrainFacts
<1>2. CASE ProbeRom \/ ProbeRtos \/ Open \/ Release \/ NetUp \/ NetDown \/ RemoveNet \/ RemoveFlag
           \/ RemoveFree \/ UNCHANGED svars \/ ReadFails \/ ReadTake
  BY <1>2 DEF ProbeRom, ProbeRtos, Open, Release, NetUp, NetDown, RemoveNet, RemoveFlag,
     RemoveFree, svars, dvars, ReadFails, ReadTake, LockInv
<1>3. CASE ReadGive
  <2>1. UNCHANGED <<wr, txLock, wire, win, chip>> /\ (used' = used \/ Fault)  BY <1>3 DEF ReadGive
  <2> QED BY <2>1 DEF LockInv, Fault
<1>4. CASE ReadFifo
  <2>1. UNCHANGED <<wr, txLock, wire, win>> /\ (used' = used \/ Fault)  BY <1>4 DEF ReadFifo, ReadCopy
  <2>2. \/ chip' = chip
        \/ \E q : chip' = [chip EXCEPT !.rx = q]
    BY <1>4 DEF ReadFifo
  <2> QED BY <2>1, <2>2 DEF LockInv, Fault
<1>5. CASE ChipGrant
  <2>1. UNCHANGED <<wr, txLock, wire, win>> /\ (used' = used \/ Fault)  BY <1>5 DEF ChipGrant
  <2>2. \E e : \E g \in Nat : chip' = [chip EXCEPT !.events = e, !.grant = g, !.irq = TRUE]
    <3>1. CASE \E g \in 1..WinMax : chip' = [chip EXCEPT !.events = @ \cup {"tx"}, !.grant = g, !.irq = TRUE]
      <4>1. PICK g \in 1..WinMax : chip' = [chip EXCEPT !.events = @ \cup {"tx"}, !.grant = g, !.irq = TRUE]
        BY <3>1
      <4>2. g \in Nat  OBVIOUS
      <4> QED BY <4>1, <4>2
    <3>2. CASE chip' = [chip EXCEPT !.events = @ \cup {"tx"}, !.grant = 0, !.irq = TRUE]
      <4>1. 0 \in Nat  OBVIOUS
      <4> QED BY <3>2, <4>1
    <3> QED BY <1>5, <3>1, <3>2 DEF ChipGrant
  <2> QED BY <2>1, <2>2 DEF LockInv, Fault
<1>6. CASE ChipData
  <2>1. UNCHANGED <<wr, txLock, wire, win>>  BY <1>6 DEF ChipData
  <2>2. \E q, c : chip' = [chip EXCEPT !.rx = q, !.end = c]  BY <1>6 DEF ChipData
  <2>3. \E x, y, z : used' = [used EXCEPT !.rx = x, !.drx = y, !.pieces = z]
    <3>1. PICK l \in Layouts : used' = [used EXCEPT !.rx = @ + 1, !.drx = @ + l[2], !.pieces = @ + l[1]]
      BY <1>6 DEF ChipData
    <3> QED BY <3>1
  <2> QED BY <2>1, <2>2, <2>3 DEF LockInv
<1>7. CASE ChipRxReady \/ ChipIrqLost
  <2>1. UNCHANGED <<wr, txLock, wire, win>> /\ (used' = used \/ Fault)
    BY <1>7 DEF ChipRxReady, ChipIrqLost
  <2>2. \E e, x : chip' = [chip EXCEPT !.events = e, !.irq = x] \/ chip' = [chip EXCEPT !.irq = x]
    BY <1>7 DEF ChipRxReady, ChipIrqLost
  <2> QED BY <2>1, <2>2 DEF LockInv, Fault
<1> QED BY <1>1, <1>2, <1>3, <1>4, <1>5, <1>6, <1>7 DEF Others, ReadStep, ChipStep

WriterStates == [pc : {"idle", "lock"} \cup Held, left : Nat]

\* A writer that begins queues for tx_mutex; past it, it keeps the mutex, or gives it up and is
\* done or, if it is the daemon's, queues again.
Begins(w, x) == /\ wr[w].pc = "idle" /\ x.pc = "lock" /\ UNCHANGED <<txLock, wire>>
                /\ used' = [used EXCEPT !.frames[w] = @ + 1]
KeepsOn(w, x) == txLock' = w /\ x.pc \in Held
GivesUp(w, x) == txLock' = None /\ (x.pc = "idle" \/ (x.pc = "lock" /\ w = "daemon"))
Copies(w) == wr[w].pc = "copy" /\ ~removed /\ \E n \in Nat : \E l : wire' = wire \o Blocks(w, n, l)
Writes(w, x) ==
    /\ (wr[w].pc = "lock" /\ txLock = None) \/ wr[w].pc \in Held
    /\ KeepsOn(w, x) \/ GivesUp(w, x)
    /\ wire' = wire \/ Copies(w)
    /\ "frames" \in DOMAIN used => "frames" \in DOMAIN used' /\ used'.frames = used.frames

\* A call that returns an error gives tx_mutex up.
LEMMA FailsFacts ==
  ASSUME LockInv, NEW w \in Writers, WriteFails(w)
  PROVE  \E x \in WriterStates : wr' = [wr EXCEPT ![w] = x] /\ GivesUp(w, x)
<1>1. wr[w] \in WriterStates  BY DEF LockInv, WriterStates
<1>2. CASE wr' = [wr EXCEPT ![w] = [pc |-> "idle", left |-> 0]]
  <2>1. [pc |-> "idle", left |-> 0] \in WriterStates  BY DEF WriterStates
  <2> QED BY <1>2, <2>1 DEF WriteFails, GivesUp
<1>3. CASE w = "daemon" /\ wr' = [wr EXCEPT ![w].pc = "lock"]
  <2>1. PICK x : x = [wr[w] EXCEPT !.pc = "lock"]  OBVIOUS
  <2>2. x \in WriterStates /\ x.pc = "lock"  BY <1>1, <2>1 DEF WriterStates
  <2>3. wr' = [wr EXCEPT ![w] = x]  BY <1>3, <2>1
  <2> QED BY <1>3, <2>2, <2>3 DEF WriteFails, GivesUp
<1> QED BY <1>2, <1>3 DEF WriteFails

\* After a chunk the worker with more to write keeps it, anyone else gives it up.
LEMMA AfterFacts ==
  ASSUME LockInv, NEW w \in Writers, txLock = w, NEW left \in Nat, AfterChunk(w, left)
  PROVE  \E x \in WriterStates : wr' = [wr EXCEPT ![w] = x] /\ (KeepsOn(w, x) \/ GivesUp(w, x))
<1>1. PICK p \in {"idle", "lock", "again"} :
        /\ wr' = [wr EXCEPT ![w] = [pc |-> p, left |-> left]]
        /\ \/ txLock' = None /\ (p = "idle" \/ (p = "lock" /\ w = "daemon"))
           \/ p = "again" /\ txLock' = w
  BY DEF AfterChunk
<1>2. PICK x : x = [pc |-> p, left |-> left]  OBVIOUS
<1>3. x \in WriterStates /\ x.pc = p  BY <1>2 DEF WriterStates, Held
<1> QED BY <1>1, <1>2, <1>3 DEF KeepsOn, GivesUp, Held

\* What the steps of a writer come to.
LEMMA WriterFacts ==
  ASSUME LockInv, NEW w \in Writers, WriteBegin(w) \/ WriteLock(w) \/ WriteStep(w)
  PROVE  /\ \E x \in WriterStates : wr' = [wr EXCEPT ![w] = x] /\ (Begins(w, x) \/ Writes(w, x))
         /\ win' \in Nat /\ "grant" \in DOMAIN chip' /\ chip'.grant \in Nat
<1>1. wr[w] \in WriterStates /\ win \in Nat /\ "grant" \in DOMAIN chip /\ chip.grant \in Nat
      /\ wr \in [Writers -> WriterStates]
  BY DEF LockInv, WriterStates
<1>2. CASE WriteBegin(w)
  <2>1. PICK x : x = [pc |-> "lock", left |-> Size(w)]  OBVIOUS
  <2>2. Size(w) \in Nat  BY SdioAssumption DEF Size
  <2>3. x \in WriterStates /\ x.pc = "lock"  BY <2>1, <2>2 DEF WriterStates
  <2>4. wr' = [wr EXCEPT ![w] = x] /\ Begins(w, x)  BY <1>2, <2>1, <2>3 DEF WriteBegin, Begins
  <2> QED BY <1>1, <1>2, <2>3, <2>4 DEF WriteBegin
<1>3. CASE WriteLock(w)
  <2>1. (wr[w].pc = "lock" /\ txLock = None) \/ wr[w].pc \in Held
    BY <1>3 DEF WriteLock, Locks, Held
  <2>2. CheckEvents \/ NoEvents  BY <1>3 DEF WriteLock
  <2>3. CASE removed
    <3>1. WriteFails(w) /\ wire' = wire  BY <1>3, <2>3 DEF WriteLock
    <3>2. PICK x \in WriterStates : wr' = [wr EXCEPT ![w] = x] /\ GivesUp(w, x)  BY <3>1, FailsFacts
    <3>3. Writes(w, x)  BY <2>1, <2>2, <3>1, <3>2, DrainFacts DEF Writes
    <3> QED BY <2>2, <3>2, <3>3, DrainFacts
  <2>4. CASE ~removed
    <3>1. wr' = [wr EXCEPT ![w].pc = "wait"] /\ txLock' = w /\ wire' = wire
      BY <1>3, <2>4 DEF WriteLock
    <3>2. PICK x : x = [wr[w] EXCEPT !.pc = "wait"]  OBVIOUS
    <3>3. x \in WriterStates /\ x.pc = "wait"  BY <1>1, <3>2 DEF WriterStates, Held
    <3>4. wr' = [wr EXCEPT ![w] = x]  BY <3>1, <3>2
    <3>5. Writes(w, x)  BY <2>1, <2>2, <3>1, <3>3, DrainFacts DEF Writes, KeepsOn, Held
    <3> QED BY <2>2, <3>3, <3>4, <3>5, DrainFacts
  <2> QED BY <2>3, <2>4
<1>4. CASE WriteWake(w)
  <2>1. wr[w].pc \in Held /\ txLock = w /\ UNCHANGED <<txLock, wire, used, win, chip>>
    BY <1>4 DEF WriteWake, LockInv, Held
  <2>2. PICK x : x = [wr[w] EXCEPT !.pc = "copy"]  OBVIOUS
  <2>3. x \in WriterStates /\ x.pc = "copy"  BY <1>1, <2>2 DEF WriterStates, Held
  <2>4. wr' = [wr EXCEPT ![w] = x]  BY <1>4, <2>2 DEF WriteWake
  <2>5. Writes(w, x)  BY <2>1, <2>3 DEF Writes, KeepsOn, Held
  <2> QED BY <1>1, <2>1, <2>3, <2>4, <2>5
<1>5. CASE WriteTimeout(w)
  <2>1. wr[w].pc \in Held /\ UNCHANGED <<wire, used, win, chip>> /\ WriteFails(w)
    BY <1>5 DEF WriteTimeout, Held
  <2>2. PICK x \in WriterStates : wr' = [wr EXCEPT ![w] = x] /\ GivesUp(w, x)  BY <2>1, FailsFacts
  <2>3. Writes(w, x)  BY <2>1, <2>2 DEF Writes
  <2> QED BY <1>1, <2>1, <2>2, <2>3
<1>6. CASE WriteCopy(w)
  <2>1. wr[w].pc = "copy" /\ wr[w].pc \in Held /\ txLock = w /\ chip' = chip
    BY <1>6 DEF WriteCopy, LockInv, Held
  <2>2. PICK n : n = Min({wr[w].left, win, TransMax})  OBVIOUS
  <2>3. wr[w].left \in Nat /\ TransMax \in Nat  BY <1>1, FirmwareAssumption DEF WriterStates
  <2>4. n \in Nat /\ wr[w].left - n \in Nat  BY <1>1, <2>2, <2>3, MinOfThree
  <2>5. used' = used \/ Fault  BY <1>6 DEF WriteCopy
  <2>6. "frames" \in DOMAIN used => "frames" \in DOMAIN used' /\ used'.frames = used.frames
    BY <2>5 DEF Fault
  <2>7. win' \in Nat  BY <1>1, <1>6 DEF WriteCopy
  <2>8. CASE WriteFails(w) /\ wire' = wire
    <3>1. PICK x \in WriterStates : wr' = [wr EXCEPT ![w] = x] /\ GivesUp(w, x)  BY <2>8, FailsFacts
    <3>2. Writes(w, x)  BY <2>1, <2>6, <2>8, <3>1 DEF Writes
    <3> QED BY <1>1, <2>1, <2>7, <3>1, <3>2
  <2>9. CASE AfterChunk(w, wr[w].left) /\ wire' = wire
    <3>1. PICK x \in WriterStates : wr' = [wr EXCEPT ![w] = x] /\ (KeepsOn(w, x) \/ GivesUp(w, x))
      BY <2>1, <2>3, <2>9, AfterFacts
    <3>2. Writes(w, x)  BY <2>1, <2>6, <2>9, <3>1 DEF Writes
    <3> QED BY <1>1, <2>1, <2>7, <3>1, <3>2
  <2>10. CASE AfterChunk(w, wr[w].left - n) /\ ~removed
              /\ wire' = wire \o Blocks(w, n, wr[w].left - n)
    <3>1. PICK x \in WriterStates : wr' = [wr EXCEPT ![w] = x] /\ (KeepsOn(w, x) \/ GivesUp(w, x))
      BY <2>1, <2>4, <2>10, AfterFacts
    <3>2. Copies(w)  BY <2>1, <2>4, <2>10 DEF Copies
    <3>3. Writes(w, x)  BY <2>1, <2>6, <3>1, <3>2 DEF Writes
    <3> QED BY <1>1, <2>1, <2>7, <3>1, <3>3
  <2> QED BY <1>6, <2>2, <2>8, <2>9, <2>10 DEF WriteCopy
<1> QED BY <1>2, <1>3, <1>4, <1>5, <1>6 DEF WriteStep

\* tx_mutex and the positions of the writers stay in step.
LEMMA NextLock ==
  ASSUME LockInv, [Next]_svars
  PROVE  LockInv'
<1>1. CASE Others
  BY <1>1, OthersFacts DEF LockInv
<1>2. CASE \E w \in Writers : WriteBegin(w) \/ WriteLock(w) \/ WriteStep(w)
  <2>1. PICK w \in Writers : WriteBegin(w) \/ WriteLock(w) \/ WriteStep(w)  BY <1>2
  <2>2. PICK x \in WriterStates : wr' = [wr EXCEPT ![w] = x] /\ (Begins(w, x) \/ Writes(w, x))
    BY <2>1, WriterFacts
  <2>3. wr \in [Writers -> WriterStates] /\ txLock \in Writers \cup {None} /\ None \notin Writers
    BY DEF LockInv, WriterStates, None, Writers
  <2>4. wr' \in [Writers -> WriterStates] /\ wr'[w] = x /\ \A v \in Writers : v # w => wr'[v] = wr[v]
    BY <2>2, <2>3
  <2>5. \A v \in Writers : txLock = v <=> wr[v].pc \in Held  BY DEF LockInv
  <2>6. /\ txLock' \in Writers \cup {None}
        /\ \A v \in Writers : txLock' = v <=> wr'[v].pc \in Held
    <3>1. CASE Begins(w, x)  BY <2>3, <2>4, <2>5, <3>1 DEF Begins, Held
    <3>2. CASE Writes(w, x)
      <4>1. txLock = w \/ txLock = None  BY <2>5, <3>2 DEF Writes
      <4>2. \A v \in Writers : v # w => wr[v].pc \notin Held  BY <2>3, <2>5, <4>1
      <4>3. CASE KeepsOn(w, x)  BY <2>3, <2>4, <4>2, <4>3 DEF KeepsOn
      <4>4. CASE GivesUp(w, x)  BY <2>3, <2>4, <4>2, <4>4 DEF GivesUp, Held
      <4> QED BY <3>2, <4>3, <4>4 DEF Writes
    <3> QED BY <2>2, <3>1, <3>2
  <2> QED BY <2>1, <2>4, <2>6, WriterFacts DEF LockInv, WriterStates
<1> QED BY <1>1, <1>2 DEF Next, Others

\* The positions before anything is bound.
LEMMA InitLock == Init => LockInv
<1> SUFFICES ASSUME Init PROVE LockInv  OBVIOUS
<1>1. [pc |-> "idle", left |-> 0] \in WriterStates  BY DEF WriterStates
<1>2. wr \in [Writers -> WriterStates] /\ \A w \in Writers : wr[w].pc = "idle"  BY <1>1 DEF Init
<1>3. win \in Nat /\ "grant" \in DOMAIN chip /\ chip.grant \in Nat  BY DEF Init
<1>4. txLock = None /\ None \notin Writers  BY DEF Init, None, Writers
<1> QED BY <1>2, <1>3, <1>4 DEF LockInv, WriterStates, Held

\* artosyn_remove(): for every window, frame size and number of writes and faults, nothing is
\* written once the flag is set, and the device is freed only with no writer past tx_mutex and no
\* FIFO reader inside.
THEOREM RemovalCleanHolds == Spec => RemovalClean
<1>1. LockInv /\ [Next]_svars
        => [/\ removed => wire' = wire
            /\ rm # "freed" /\ rm' = "freed" =>
                 ~rd.reading /\ \A w \in Writers : wr[w].pc \in {"idle", "lock"}]_svars
  <2> SUFFICES ASSUME LockInv, [Next]_svars
               PROVE  /\ removed => wire' = wire
                      /\ rm # "freed" /\ rm' = "freed" =>
                           ~rd.reading /\ \A w \in Writers : wr[w].pc \in {"idle", "lock"}
    OBVIOUS
  <2>1. removed => wire' = wire
    <3>1. CASE Others  BY <3>1, OthersFacts
    <3>2. CASE \E w \in Writers : WriteBegin(w) \/ WriteLock(w) \/ WriteStep(w)
      <4>1. PICK w \in Writers : WriteBegin(w) \/ WriteLock(w) \/ WriteStep(w)  BY <3>2
      <4>2. PICK x \in WriterStates : Begins(w, x) \/ Writes(w, x)  BY <4>1, WriterFacts
      <4> QED BY <4>2 DEF Begins, Writes, Copies
    <3> QED BY <3>1, <3>2 DEF Next, Others
  <2>2. ASSUME rm # "freed", rm' = "freed"
        PROVE  ~rd.reading /\ \A w \in Writers : wr[w].pc \in {"idle", "lock"}
    <3>1. RemoveFree
      BY <2>2 DEF Next, ProbeRom, ProbeRtos, Irq, Poll, WriteBegin, WriteLock, WriteStep, WriteWake,
         WriteTimeout, WriteCopy, Open, Release, ReadBegin, ReadStep, ReadFails, ReadTake, ReadGive,
         ReadFifo, NetUp, NetDown, RemoveNet, RemoveFlag, ChipStep, ChipGrant, ChipData, ChipRxReady,
         ChipIrqLost, svars, dvars
    <3>2. ~rd.reading /\ txLock = None  BY <3>1 DEF RemoveFree
    <3>3. \A w \in Writers : txLock # w  BY <3>2 DEF None, Writers
    <3> QED BY <3>2, <3>3 DEF LockInv
  <2> QED BY <2>1, <2>2
<1> QED BY <1>1, InitLock, NextLock, PTL DEF Spec, RemovalClean

-----------------------------------------------------------------------------
(* NetFramesContiguous *)

WireBlocks == [w : Writers, f : Nat, last : BOOLEAN]

\* The wire after a chunk of n blocks: the old blocks, then those of the writer's frame.
LEMMA Copied ==
  ASSUME FrameInv, NEW w \in Writers, Copies(w)
  PROVE  \E n \in Nat :
         /\ wire' \in Seq(WireBlocks)
         /\ Len(wire) \in Nat /\ DOMAIN wire = 1..Len(wire) /\ DOMAIN wire' = 1..(Len(wire) + n)
         /\ \A i \in DOMAIN wire : wire'[i] = wire[i]
         /\ \A i \in DOMAIN wire' : i \notin DOMAIN wire => wire'[i].w = w /\ wire'[i].f = used.frames[w]
<1>1. PICK n \in Nat : \E l : wire' = wire \o Blocks(w, n, l)  BY DEF Copies
<1>2. wire \in Seq(WireBlocks) /\ used.frames[w] \in Nat  BY DEF FrameInv, WireBlocks
<1>3. PICK l, b : b = Blocks(w, n, l) /\ wire' = wire \o b  BY <1>1
<1>4. PICK q : q = wire'  OBVIOUS
<1>5. /\ Len(b) = n /\ b \in Seq(WireBlocks)
      /\ \A j \in 1..n : b[j].w = w /\ b[j].f = used.frames[w]
  <2>1. b = [j \in 1..n |-> [w |-> w, f |-> used.frames[w], last |-> l = 0 /\ j = n]]
    BY <1>3 DEF Blocks
  <2>3. \A j \in 1..n : b[j] = [w |-> w, f |-> used.frames[w], last |-> l = 0 /\ j = n]  BY <2>1
  <2>4. ASSUME NEW j \in 1..n PROVE b[j] \in WireBlocks
    <3>1. PICK v \in BOOLEAN : v = (l = 0 /\ j = n)  BY Zenon
    <3>2. b[j] = [w |-> w, f |-> used.frames[w], last |-> v]  BY <2>3, <3>1
    <3> QED BY <1>2, <3>2 DEF WireBlocks
  <2>5. DOMAIN b = 1..n  BY <2>1
  <2>6. b \in [1..n -> WireBlocks]  BY <2>1, <2>4, <2>5
  <2>7. b \in Seq(WireBlocks)  BY <2>6
  <2>8. Len(b) = n  BY <2>5, <2>7
  <2> QED BY <2>3, <2>7, <2>8
<1>6. /\ q \in Seq(WireBlocks) /\ Len(q) = Len(wire) + n
      /\ Len(wire) \in Nat /\ DOMAIN wire = 1..Len(wire) /\ DOMAIN q = 1..(Len(wire) + n)
      /\ \A i \in 1..(Len(wire) + n) : q[i] = IF i <= Len(wire) THEN wire[i] ELSE b[i - Len(wire)]
  <2>1. q = wire \o b  BY <1>3, <1>4
  <2>2. Len(wire) \in Nat /\ DOMAIN wire = 1..Len(wire)  BY <1>2
  <2>3. q \in Seq(WireBlocks) /\ Len(q) = Len(wire) + n
    <3>1. wire \in Seq(WireBlocks) /\ b \in Seq(WireBlocks) /\ Len(b) = n  BY <1>2, <1>5
    <3>2. q \in Seq(WireBlocks)  BY <2>1, <3>1
    <3>3. Len(q) = Len(wire) + Len(b)  BY <2>1, <3>1, ConcatProperties
    <3> QED BY <3>1, <3>2, <3>3
  <2>4. DOMAIN q = 1..(Len(wire) + n)  BY <2>3
  <2>5. \A i \in 1..(Len(wire) + n) : q[i] = IF i <= Len(wire) THEN wire[i] ELSE b[i - Len(wire)]
    BY <1>2, <1>5, <2>1, <2>2
  <2> QED BY <2>2, <2>3, <2>4, <2>5
<1>7. \A i \in DOMAIN wire : q[i] = wire[i]  BY <1>6
<1>8. ASSUME NEW i \in DOMAIN q, i \notin DOMAIN wire
      PROVE  q[i].w = w /\ q[i].f = used.frames[w]
  <2>1. ~(i <= Len(wire)) /\ i - Len(wire) \in 1..n  BY <1>6, <1>8
  <2> QED BY <1>5, <1>6, <1>8, <2>1
<1> QED BY <1>6, <1>7, <1>8, <1>4

\* A frame the worker has in hand only grows at the end of the wire, and no one else writes then.
LEMMA WriteFrame ==
  ASSUME LockInv, LockInv', FrameInv, NEW w \in Writers, NEW x \in WriterStates,
         wr' = [wr EXCEPT ![w] = x], Writes(w, x)
  PROVE  FrameInv'
<1>1. /\ "frames" \in DOMAIN used' /\ used'.frames = used.frames /\ used.frames \in [Writers -> Nat]
      /\ "net" \in Writers /\ "daemon" \in Writers /\ used.frames["net"] \in Nat
  BY DEF FrameInv, Writes, Writers
<1>2. wr'[w] = x /\ \A v \in Writers : v # w => wr'[v] = wr[v]  BY DEF LockInv
<1>3. wr'["net"].pc = "lock" => wr["net"].pc = "lock"
  <2>1. CASE w = "net"  BY <1>2, <2>1 DEF Writes, KeepsOn, GivesUp, Held
  <2>2. CASE w # "net"  BY <1>1, <1>2, <2>2
  <2> QED BY <2>1, <2>2
<1>4. wr'["net"].pc \in Held => wr["net"].pc = "lock" \/ wr["net"].pc \in Held
  <2>1. CASE w = "net"  BY <2>1 DEF Writes
  <2>2. CASE w # "net"  BY <1>1, <1>2, <2>2
  <2> QED BY <2>1, <2>2
<1>5. CASE wire' = wire
  <2>1. \A i \in DOMAIN wire : InHand(i)' <=> InHand(i)  BY <1>1, <1>5 DEF InHand
  <2>2. NetFramesContiguous'  BY <1>5 DEF FrameInv, NetFramesContiguous, SameFrame
  <2>3. wr'["net"].pc = "lock" => \A i \in DOMAIN wire : ~InHand(i)'
    BY <1>3, <2>1 DEF FrameInv
  <2>4. wr'["net"].pc \in Held => \A i, j \in DOMAIN wire : i < j /\ InHand(i)' => InHand(j)'
    BY <1>4, <2>1 DEF FrameInv
  <2>5. /\ wire' \in Seq([w : Writers, f : Nat, last : BOOLEAN])
        /\ \A i \in DOMAIN wire' : wire'[i].w = "net" => wire'[i].f <= used'.frames["net"]
    BY <1>1, <1>5 DEF FrameInv
  <2> QED BY <1>1, <1>5, <2>2, <2>3, <2>4, <2>5 DEF FrameInv
<1>6. CASE Copies(w)
  <2>1. wr[w].pc = "copy" /\ txLock = w  BY <1>6 DEF Copies, LockInv, Held
  <2>2. PICK n \in Nat :
        /\ wire' \in Seq(WireBlocks)
        /\ Len(wire) \in Nat /\ DOMAIN wire = 1..Len(wire) /\ DOMAIN wire' = 1..(Len(wire) + n)
        /\ \A i \in DOMAIN wire : wire'[i] = wire[i]
        /\ \A i \in DOMAIN wire' : i \notin DOMAIN wire => wire'[i].w = w /\ wire'[i].f = used.frames[w]
    BY <1>6, Copied
  <2>3. \A i \in DOMAIN wire' : wire'[i].w = "net" => wire'[i].f <= used'.frames["net"]
    <3> SUFFICES ASSUME NEW i \in DOMAIN wire', wire'[i].w = "net"
                 PROVE  wire'[i].f <= used.frames["net"]
      BY <1>1
    <3>1. CASE i \in DOMAIN wire  BY <2>2, <3>1 DEF FrameInv
    <3>2. CASE i \notin DOMAIN wire  BY <1>1, <2>2, <3>2
    <3> QED BY <3>1, <3>2
  <2>4. \A i \in DOMAIN wire : InHand(i)' <=> InHand(i)  BY <1>1, <2>2 DEF InHand
  <2>5. CASE w = "daemon"
    <3>1. wr["net"].pc \notin Held  BY <1>1, <2>1, <2>5 DEF LockInv
    <3>2. wr'["net"].pc = wr["net"].pc  BY <1>1, <1>2, <2>5
    <3>3. \A i \in DOMAIN wire' : wire'[i].w = "net" => i \in DOMAIN wire  BY <2>2, <2>5
    <3>4. wr'["net"].pc = "lock" => \A i \in DOMAIN wire' : ~InHand(i)'
      BY <2>4, <3>2, <3>3 DEF FrameInv, InHand
    <3>5. NetFramesContiguous'
      <4> SUFFICES ASSUME NEW i \in DOMAIN wire', NEW j \in DOMAIN wire', i < j, SameFrame(i, j)',
                          NEW k \in i..j
                   PROVE  SameFrame(i, k)'
        BY DEF NetFramesContiguous
      <4>1. i \in DOMAIN wire /\ j \in DOMAIN wire  BY <3>3 DEF SameFrame
      <4>2. k \in DOMAIN wire  BY <2>2, <4>1
      <4>3. SameFrame(i, j)  BY <2>2, <4>1 DEF SameFrame
      <4>4. SameFrame(i, k)  BY <4>1, <4>3 DEF FrameInv, NetFramesContiguous
      <4> QED BY <2>2, <4>1, <4>2, <4>4 DEF SameFrame
    <3> QED BY <1>1, <2>2, <2>3, <3>1, <3>2, <3>4, <3>5 DEF FrameInv, WireBlocks
  <2>6. CASE w = "net"
    <3>1. wr["net"].pc \in Held  BY <2>1, <2>6 DEF Held
    <3>2. \A i \in DOMAIN wire' : i \notin DOMAIN wire => InHand(i)'  BY <1>1, <2>2, <2>6 DEF InHand
    <3>3. \A i, j \in DOMAIN wire : i < j /\ InHand(i) => InHand(j)  BY <3>1 DEF FrameInv
    <3>4. \A i, j \in DOMAIN wire' : i < j /\ InHand(i)' => InHand(j)'
      <4> SUFFICES ASSUME NEW i \in DOMAIN wire', NEW j \in DOMAIN wire', i < j, InHand(i)'
                   PROVE  InHand(j)'
        OBVIOUS
      <4>1. CASE j \in DOMAIN wire
        <5>1. i \in DOMAIN wire  BY <2>2, <4>1
        <5> QED BY <2>4, <3>3, <4>1, <5>1
      <4>2. CASE j \notin DOMAIN wire  BY <3>2, <4>2
      <4> QED BY <4>1, <4>2
    <3>5. NetFramesContiguous'
      <4> SUFFICES ASSUME NEW i \in DOMAIN wire', NEW j \in DOMAIN wire', i < j, SameFrame(i, j)',
                          NEW k \in i..j
                   PROVE  SameFrame(i, k)'
        BY DEF NetFramesContiguous
      <4>1. k \in DOMAIN wire' /\ i <= k /\ k <= j  BY <2>2
      <4>2. CASE j \in DOMAIN wire
        <5>1. i \in DOMAIN wire /\ k \in DOMAIN wire  BY <2>2, <4>1, <4>2
        <5>2. SameFrame(i, j)  BY <2>2, <4>2, <5>1 DEF SameFrame
        <5>3. SameFrame(i, k)  BY <4>2, <5>1, <5>2 DEF FrameInv, NetFramesContiguous
        <5> QED BY <2>2, <5>1, <5>3 DEF SameFrame
      <4>3. CASE j \notin DOMAIN wire
        <5>1. InHand(j)'  BY <3>2, <4>3
        <5>2. InHand(i)'  BY <5>1 DEF InHand, SameFrame
        <5>3. i = k \/ i < k  BY <2>2, <4>1
        <5>4. InHand(k)'  BY <3>4, <4>1, <5>2, <5>3
        <5> QED BY <5>2, <5>4 DEF InHand, SameFrame
      <4> QED BY <4>2, <4>3
    <3>6. wr'["net"].pc # "lock"  BY <1>3, <3>1 DEF Held
    <3> QED BY <1>1, <2>2, <2>3, <3>4, <3>5, <3>6 DEF FrameInv, WireBlocks
  <2> QED BY <2>5, <2>6 DEF Writers
<1> QED BY <1>5, <1>6 DEF Writes

\* A new frame of the worker has no block on the wire yet; one of the daemon changes nothing.
LEMMA BeginFrame ==
  ASSUME LockInv, FrameInv, NEW w \in Writers, NEW x \in WriterStates,
         wr' = [wr EXCEPT ![w] = x], Begins(w, x)
  PROVE  FrameInv'
<1>1. /\ "frames" \in DOMAIN used /\ used.frames \in [Writers -> Nat]
      /\ "net" \in Writers /\ used.frames["net"] \in Nat /\ used.frames[w] \in Nat
  BY DEF FrameInv, Writers
<1>2. wr'[w] = x /\ \A v \in Writers : v # w => wr'[v] = wr[v]  BY DEF LockInv
<1>3. wire' = wire /\ x.pc = "lock" /\ used' = [used EXCEPT !.frames[w] = @ + 1]  BY DEF Begins
<1>4. PICK m \in Nat : m = used.frames[w] + 1  BY <1>1
<1>5. "frames" \in DOMAIN used' /\ used'.frames = [used.frames EXCEPT ![w] = m]
  <2>1. used' = [used EXCEPT !.frames[w] = m]  BY <1>3, <1>4
  <2> QED BY <1>1, <2>1
<1>6. used'.frames \in [Writers -> Nat]  BY <1>1, <1>5
<1>7. NetFramesContiguous'
  <2>1. NetFramesContiguous  BY DEF FrameInv
  <2> QED BY <1>3, <2>1 DEF NetFramesContiguous, SameFrame
<1>8. wire' \in Seq([w : Writers, f : Nat, last : BOOLEAN])  BY <1>3 DEF FrameInv
<1>9. \A i \in DOMAIN wire : wire[i].f \in Nat
  <2>1. wire \in Seq(WireBlocks)  BY DEF FrameInv, WireBlocks
  <2>2. \A i \in DOMAIN wire : wire[i] \in WireBlocks  BY <2>1
  <2> QED BY <2>2 DEF WireBlocks
<1>10. CASE w = "net"
  <2>1. used'.frames["net"] = used.frames["net"] + 1  BY <1>1, <1>4, <1>5, <1>10
  <2>2. \A i \in DOMAIN wire : wire[i].w = "net" => wire[i].f < used'.frames["net"]
    BY <1>1, <1>9, <2>1 DEF FrameInv
  <2>3. \A i \in DOMAIN wire' : ~InHand(i)'  BY <1>3, <1>9, <2>2 DEF InHand
  <2>4. \A i \in DOMAIN wire' : wire'[i].w = "net" => wire'[i].f <= used'.frames["net"]
    BY <1>1, <1>3, <1>9, <2>1, <2>2
  <2> QED BY <1>5, <1>6, <1>7, <1>8, <2>3, <2>4 DEF FrameInv
<1>11. CASE w # "net"
  <2>1. used'.frames["net"] = used.frames["net"] /\ wr'["net"] = wr["net"]
    BY <1>1, <1>2, <1>5, <1>11
  <2>2. \A i : InHand(i)' <=> InHand(i)  BY <1>3, <2>1 DEF InHand
  <2>3. /\ wr'["net"].pc = "lock" => \A i \in DOMAIN wire' : ~InHand(i)'
        /\ wr'["net"].pc \in Held => \A i, j \in DOMAIN wire' : i < j /\ InHand(i)' => InHand(j)'
    BY <1>3, <2>1, <2>2 DEF FrameInv
  <2>4. \A i \in DOMAIN wire' : wire'[i].w = "net" => wire'[i].f <= used'.frames["net"]
    BY <1>3, <2>1 DEF FrameInv
  <2> QED BY <1>5, <1>6, <1>7, <1>8, <2>3, <2>4 DEF FrameInv
<1> QED BY <1>10, <1>11

\* Every step keeps the frames of the worker together.
LEMMA NextFrame ==
  ASSUME LockInv, LockInv', FrameInv, [Next]_svars
  PROVE  FrameInv'
<1>1. CASE Others
  <2>1. /\ UNCHANGED <<wr, wire>>
        /\ "frames" \in DOMAIN used' /\ used'.frames = used.frames
    BY <1>1, OthersFacts DEF FrameInv
  <2> QED BY <2>1 DEF FrameInv, NetFramesContiguous, SameFrame, InHand
<1>2. CASE \E w \in Writers : WriteBegin(w) \/ WriteLock(w) \/ WriteStep(w)
  <2>1. PICK w \in Writers : WriteBegin(w) \/ WriteLock(w) \/ WriteStep(w)  BY <1>2
  <2>2. PICK x \in WriterStates : wr' = [wr EXCEPT ![w] = x] /\ (Begins(w, x) \/ Writes(w, x))
    BY <2>1, WriterFacts
  <2> QED BY <2>2, BeginFrame, WriteFrame
<1> QED BY <1>1, <1>2 DEF Next, Others

\* artosyn_write_all(): for every window, frame size and number of frames, faults and withdrawn
\* windows, a frame of the worker lies in the FIFO without anyone else's blocks inside it.  This
\* is the part of StreamsWhole about the transmit direction.
THEOREM NetFramesContiguousHolds == Spec => []NetFramesContiguous
<1>1. Init => FrameInv
  <2> SUFFICES ASSUME Init PROVE FrameInv  OBVIOUS
  <2>1. wire = << >> /\ DOMAIN wire = {}  BY DEF Init
  <2>2. << >> \in Seq([w : Writers, f : Nat, last : BOOLEAN])  OBVIOUS
  <2>3. "frames" \in DOMAIN used /\ used.frames = [w \in Writers |-> 0]  BY DEF Init
  <2>4. used.frames \in [Writers -> Nat]  BY <2>3
  <2> QED BY <2>1, <2>2, <2>3, <2>4 DEF FrameInv, NetFramesContiguous
<1>2. FrameInv => NetFramesContiguous  BY DEF FrameInv
<1> QED BY <1>1, <1>2, InitLock, NextLock, NextFrame, PTL DEF Spec

=============================================================================
