---- MODULE FirmwarePush ----
(***************************************************************************)
(* The firmware push of kmod/artosyn_sdio.c: artosyn_download_firmware()   *)
(* and artosyn_fw_send_chunk(), run once from artosyn_probe() while the    *)
(* chip is in its boot ROM.  Nothing else uses the device then: g_dev is   *)
(* not published yet, so /dev/artosyn_sdio cannot be opened.  Lengths are  *)
(* in small units; the real block is 512 bytes, the packet header 12.      *)
(***************************************************************************)
EXTENDS Integers, FiniteSets, FiniteSetsExt

CONSTANTS BlockSize,   \* SDIO_DEVICE_BLOCK_SIZE, also the function's cur_blksize
          PkgHeader,   \* SDIO_BOOT_PKG_HEADER_SIZE
          OneshotMax,  \* SDIO_BOOT_ONESHOT_MAX_SIZE
          TransMax,    \* SDIO_TRANS_MAX_SZIE
          Images       \* firmware images: a length for each section

\* The sections in the order they are sent.  troot and sig are sent only when
\* the header names a troot; cfg only when its file was found.
Sections == <<"header", "troot", "sig", "spl", "cfg">>
SectionSet == {Sections[i] : i \in 1..5}

\* A zero length means something else to artosyn_fw_send_chunk() (the closing
\* packet), so an image has its header, its loader and both or neither of troot
\* and signature.
ASSUME FirmwareAssumption ==
    /\ BlockSize \in Nat \ {0} /\ PkgHeader \in 1..(BlockSize - 1)
    /\ OneshotMax \in Nat /\ OneshotMax > PkgHeader
    /\ TransMax \in Nat /\ TransMax >= OneshotMax
    /\ \A im \in Images : /\ im \in [SectionSet -> Nat]
                          /\ im["header"] > 0 /\ im["spl"] > 0
                          /\ (im["troot"] = 0) = (im["sig"] = 0)

VARIABLE fw     \* img, at: index of the section being sent, off: bytes of it acknowledged,
                \* got: bytes of each section the ROM holds, done: closing packet sent,
                \* st: "idle", "push", "ok", "failed"

FwIdle == [img |-> CHOOSE im \in Images : TRUE, at |-> 1, off |-> 0,
          got |-> [s \in SectionSet |-> {}], done |-> FALSE, st |-> "idle"]
FwInit == fw = FwIdle

FwChunkUnguarded(rest) ==
    LET c == Min({rest, OneshotMax - PkgHeader})
        r == (c + PkgHeader) % BlockSize
    IN  IF r > c THEN 0 ELSE c - r

\* How many bytes of a section the next packet carries: block-aligned once header
\* and payload together exceed one block.
FwChunk(rest) ==
    LET c == Min({rest, OneshotMax - PkgHeader})
        r == (c + PkgHeader) % BlockSize
    IN  IF c + PkgHeader > BlockSize /\ r # 0 THEN c - r ELSE c

\* artosyn_write_chunk() in ROM mode: the window is forced to the whole packet,
\* then cut to the transfer limit and to whole blocks.
RomWrite(count) ==
    LET c == Min({count, TransMax})
    IN  IF c > BlockSize THEN c - (c % BlockSize) ELSE c

\* The section after index i, skipping the optional ones that are absent.
NextSection(img, i) ==
    IF \E j \in (i + 1)..5 : img[Sections[j]] > 0
    THEN CHOOSE j \in (i + 1)..5 : /\ img[Sections[j]] > 0
                                   /\ \A k \in (i + 1)..(j - 1) : img[Sections[k]] = 0
    ELSE 6

\* artosyn_download_firmware() starts: the image is found (a missing image fails
\* the probe before anything is sent).
FwBegin ==
    /\ fw.st = "idle"
    /\ \/ \E im \in Images : fw' = [fw EXCEPT !.img = im, !.st = "push"]
       \/ fw' = [fw EXCEPT !.st = "failed"]

\* One packet of the current section is written and taken whole.
FwPacket ==
    LET s == Sections[fw.at]
        rest == fw.img[s] - fw.off
        c == FwChunk(rest)
    IN  /\ fw.st = "push" /\ fw.at <= 5
        /\ RomWrite(c + PkgHeader) = c + PkgHeader
        /\ fw' = [fw EXCEPT
             !.got[s] = @ \cup {fw.off + k : k \in 0..(c - 1)},
             !.off = IF c = rest THEN 0 ELSE @ + c,
             !.at = IF c = rest THEN NextSection(fw.img, @) ELSE @]

FwPacketFailureIgnored ==
    /\ fw.st = "push" /\ fw.at <= 5
    /\ fw' = [fw EXCEPT !.off = 0, !.at = NextSection(fw.img, @)]

\* A packet fails (or is cut short).  For troot and signature the error is only
\* logged: ret is overwritten by the next section.  Otherwise the push fails.
FwPacketFails ==
    /\ fw.st = "push" /\ fw.at <= 5
    /\ fw' = IF Sections[fw.at] \in {"troot", "sig"}
             THEN [fw EXCEPT !.off = 0, !.at = NextSection(fw.img, @)]
             ELSE [fw EXCEPT !.st = "failed"]

\* The zero-length closing packet, after the last section.
FwClose ==
    /\ fw.st = "push" /\ fw.at = 6
    /\ \/ fw' = [fw EXCEPT !.done = TRUE, !.st = "ok"]
       \/ fw' = [fw EXCEPT !.st = "failed"]

FwNext == FwBegin \/ FwPacket \/ FwPacketFails \/ FwClose

FwTypeOK ==
    /\ fw.img \in Images /\ fw.at \in 1..6 /\ fw.off \in Nat
    /\ fw.got \in [SectionSet -> SUBSET Nat]
    /\ fw.st \in {"idle", "push", "ok", "failed"} /\ fw.done \in BOOLEAN

\* The ROM holds the section being sent exactly up to the acknowledged offset (no
\* gap, no overlap past the end), the next packet carries at least one byte, and
\* the write path takes it in one piece.  The splitting loop of
\* artosyn_fw_send_chunk() together with the rounding of artosyn_write_chunk().
FwPacketsWhole ==
    (fw.st = "push" /\ fw.at <= 5) =>
        LET s == Sections[fw.at]
            rest == fw.img[s] - fw.off
            c == FwChunk(rest)
        IN  /\ fw.got[s] = 0..(fw.off - 1)
            /\ c \in 1..rest
            /\ RomWrite(c + PkgHeader) = c + PkgHeader

\* The chip is told to boot only when it holds the whole header, the whole loader
\* and, if there is one, the whole baseband configuration.  (The troot and its
\* signature are not in the list: their failures are only logged.)
FwBootsLoaded ==
    fw.done => \A s \in {"header", "spl", "cfg"} : fw.got[s] = 0..(fw.img[s] - 1)
====
