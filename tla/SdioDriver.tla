---- MODULE SdioDriver ----
(***************************************************************************)
(* kmod/artosyn_sdio.c and the receive side of kmod/artosyn_net.c: one     *)
(* SDIO function shared by /dev/artosyn_sdio (the daemon) and the network  *)
(* device's transmit worker.  Threads: the daemon's writer and its reader, *)
(* the worker inside artosyn_write_all(), the interrupt thread, and the    *)
(* removal.  A step is what runs under one lock (io_mutex, the host claim, *)
(* a queue lock) or between two of them.  Sizes are in blocks.             *)
(*                                                                         *)
(* The chip is external: it offers transmit windows and receive transfers  *)
(* through the status and mailbox registers, raising an interrupt that may *)
(* be missed.                                                              *)
(***************************************************************************)
EXTENDS FirmwarePush, Sequences, SequencesExt

CONSTANTS WinMax,        \* largest transmit window the chip offers
          DaemonFrame,   \* size of a daemon RPC frame
          NetFrame,      \* size of a worker RPC frame
          CdevMax,       \* CDEV_RXQ_MAX_BYTES
          Pieces,        \* the peer's socket stream: [d, i, n, tail] = part i of n of datagram d;
                         \* tail: its last byte is DGRAM_TAIL
          RxBufMax,      \* NET_RXBUF_SIZE
          MaxFrames,     \* bound: frames each writer sends
          MaxFaults,     \* bound: lost interrupts, failed transfers and copies
          Loads          \* bound: <<frames written, transfers received, daemon frames in them>>
                         \* explored together

Writers == {"daemon", "net"}
None == "none"

ASSUME SdioAssumption ==
    /\ {WinMax, DaemonFrame, NetFrame, CdevMax, RxBufMax} \subseteq Nat \ {0}
    /\ {MaxFrames, MaxFaults} \subseteq Nat
    /\ \A i \in DOMAIN Pieces : LET p == Pieces[i]
                               IN  p.i \in 1..p.n /\ p.n <= RxBufMax /\ (p.i = p.n => p.tail)

VARIABLES
    phase,    \* "rom", "gone" (no instance bound), "rtos", "dead" (probe failed)
    netMode,  \* dev->net_mode: the kernel drains every receive transfer
    hasNet,   \* dev->net: the interface is registered
    ndo,      \* the interface: "down", "up" (net->sock_open), "stop" (inside ndo_stop)
    removed,  \* dev->removed
    rm,       \* artosyn_remove(): "none", "flag", "wait", "freed"
    chip,     \* external: events \subseteq {"tx","rx"}, grant: window in the register,
              \* rx: transfers waiting, irq: an interrupt is pending, end: what
              \* the last transfer ended in ("cut": a frame the next one continues)
    win,      \* write_valid_size - write_offset
    txLock,   \* owner of tx_mutex
    wr,       \* per writer: pc, left (blocks of its frame still to write)
    wire,     \* blocks in the chip's receive FIFO: [w, f, last]
    avail,    \* read_valid_size - read_offset (chardev-only mode)
    rd,       \* reader: pc, hand (the transfer it dequeued), reading (dev->reading)
    cdev,     \* q, bytes, opens: the /dev/artosyn_sdio receive queue
    net,      \* since ndo_open: rxbuf, got: pieces taken, up: what net_deliver() got,
              \* shed: pieces a full buffer threw away
    log,      \* daemon frames: read by the daemon, dropped by the driver, lost uncounted
    used      \* bounds: frames per writer, transfers, daemon frames, pieces, faults

dvars == <<phase, netMode, hasNet, ndo, removed, rm, chip, win, txLock, wr, wire, avail, rd, cdev,
           net, log, used>>
svars == <<fw, dvars>>

FreshStream == [rxbuf |-> <<>>, got |-> <<>>, up |-> <<>>, shed |-> {}]

Init ==
    /\ FwInit
    /\ phase = "rom" /\ netMode = FALSE /\ hasNet = FALSE /\ ndo = "down" /\ removed = FALSE /\ rm = "none"
    /\ chip = [events |-> {}, grant |-> 0, rx |-> <<>>, irq |-> FALSE, end |-> "end"]
    /\ win = 0 /\ txLock = None /\ wire = <<>>
    /\ wr = [w \in Writers |-> [pc |-> "idle", left |-> 0]]
    /\ avail = 0
    /\ rd = [pc |-> "idle", hand |-> <<>>, reading |-> FALSE]
    /\ cdev = [q |-> <<>>, bytes |-> 0, opens |-> 0]
    /\ net = FreshStream
    /\ log = [read |-> <<>>, drop |-> {}, lost |-> {}]
    /\ used = [frames |-> [w \in Writers |-> 0], rx |-> 0, drx |-> 0, pieces |-> 0, faults |-> 0]

\* f more frames written, t transfers and d daemon frames received stay within a load.
Within(f, t, d) == \E l \in Loads : /\ used.frames["daemon"] + used.frames["net"] + f <= l[1]
                                    /\ used.rx + t <= l[2] /\ used.drx + d <= l[3]
\* A window that is offered counts as the frame it is for.
Offered == IF win > 0 \/ "tx" \in chip.events THEN 1 ELSE 0

Fault == used.faults < MaxFaults /\ used' = [used EXCEPT !.faults = @ + 1]

-----------------------------------------------------------------------------
\* Probe and re-enumeration

\* artosyn_probe() under the boot-ROM identity: push, then leave the instance for
\* the core to remove when the chip comes back under its other identity.
ProbeRom ==
    /\ phase = "rom" /\ FwNext
    /\ phase' = CASE fw'.st = "ok" -> "gone" [] fw'.st = "failed" -> "dead" [] OTHER -> "rom"
    /\ UNCHANGED <<netMode, hasNet, ndo, removed, rm, chip, win, txLock, wr, wire, avail, rd, cdev, net,
                   log, used>>

\* artosyn_net_probe(): in net_mode, and not a probe failure when it fails.
NetProbe(native) == IF native THEN BOOLEAN ELSE {FALSE}

\* artosyn_probe() under the RTOS identity.  net_mode needs the scratch buffer; it is
\* decided before the interrupt is claimed.
ProbeRtos ==
    /\ phase = "gone" /\ rm = "none" /\ ~removed
    /\ phase' = "rtos" /\ netMode' \in BOOLEAN /\ fw' = FwIdle
    /\ hasNet' \in NetProbe(netMode')
    /\ UNCHANGED <<ndo, removed, rm, chip, win, txLock, wr, wire, avail, rd, cdev, net, log, used>>

-----------------------------------------------------------------------------
\* The drain, run with the host claimed

FramesOf(t, k) == SelectSeq(t, LAMBDA f : f.k = k)
Ids(t) == [j \in DOMAIN FramesOf(t, "daemon") |-> FramesOf(t, "daemon")[j].id]

\* artosyn_net_rx(): the walk over a transfer ends at the first thing that is no whole frame:
\* stale leftovers, a frame cut off by the end, or the continuation of one ("more").  Frames
\* of our socket up to there are consumed and the rest goes back; a rest without a frame's
\* beginning in it is dropped.
Walked(t) == LET j == SelectInSeq(t, LAMBDA f : f.k \notin {"daemon", "sock"})
             IN  IF j = 0 THEN t ELSE SubSeq(t, 1, j - 1)
Consumed(t) == IF ndo = "up" THEN FramesOf(Walked(t), "sock") ELSE <<>>
DemuxRest(t) ==
    LET rest == FramesOf(Walked(t), "daemon") \o SubSeq(t, Len(Walked(t)) + 1, Len(t))
    IN  CASE Consumed(t) = <<>> -> t
          [] Consumed(t) # <<>> /\ \A j \in DOMAIN rest : rest[j].k = "stale" -> <<>>
          [] OTHER -> rest

\* The loop of net_rx_stream(): skip to the next head where there is none, wait for the rest
\* of a datagram, and deliver it when the byte where its tail has to be is one.  Nothing
\* tells whose parts lie in between.  Parts are of one size, and no payload looks like a head.
ParseStream[b \in Seq(Range(Pieces))] ==
    IF b = <<>> THEN [up |-> <<>>, rest |-> <<>>]
    ELSE IF b[1].i # 1 THEN ParseStream[Tail(b)]
    ELSE IF Len(b) < b[1].n THEN [up |-> <<>>, rest |-> b]
    ELSE IF ~b[b[1].n].tail THEN ParseStream[Tail(b)]
    ELSE LET p == ParseStream[SubSeq(b, b[1].n + 1, Len(b))]
         IN  [p EXCEPT !.up = <<SubSeq(b, 1, b[1].n)>> \o @]

NetRxStreamForgets(n, ps) ==
    LET r == ParseStream[ps]
    IN  [n EXCEPT !.rxbuf = r.rest, !.got = @ \o ps, !.up = @ \o r.up]

\* net_rx_stream() for one so_read frame: what is buffered is thrown away when the frame does
\* not fit behind it, and the frame too when it is larger than the buffer.
NetRxStream(n, ps) ==
    LET fits == Len(n.rxbuf) + Len(ps) <= RxBufMax
        b == (IF fits THEN n.rxbuf ELSE <<>>) \o (IF Len(ps) <= RxBufMax THEN ps ELSE <<>>)
        r == ParseStream[b]
    IN  [n EXCEPT !.rxbuf = r.rest, !.got = @ \o ps, !.up = @ \o r.up,
                  !.shed = @ \cup (Range(n.rxbuf \o ps) \ Range(b))]

\* artosyn_cdev_rx_queue(): dropped when nobody has the device open or the queue is full.
CdevQueue(rest) ==
    IF rest = <<>> THEN UNCHANGED <<cdev, log>>
    ELSE IF cdev.opens > 0 /\ cdev.bytes + Len(rest) <= CdevMax
         THEN /\ cdev' = [cdev EXCEPT !.q = Append(@, rest), !.bytes = @ + Len(rest)]
              /\ UNCHANGED log
         ELSE /\ log' = [log EXCEPT !.drop = @ \cup Range(Ids(rest))]
              /\ UNCHANGED cdev

\* artosyn_rx_transfer(): read the whole transfer out, demultiplex it and queue the rest; a
\* failed read or allocation loses it, and without a buffer for the rest nothing is consumed.
RxTransfer(t) ==
    \/ /\ net' = FoldLeft(LAMBDA n, f : NetRxStream(n, f.ps), net, Consumed(t))
       /\ CdevQueue(DemuxRest(t)) /\ UNCHANGED used
    \/ Consumed(t) # <<>> /\ Fault /\ CdevQueue(t) /\ UNCHANGED net
    \/ /\ Fault /\ log' = [log EXCEPT !.drop = @ \cup Range(Ids(t))]
       /\ UNCHANGED <<net, cdev>>

\* artosyn_check_events(): take the window, then the receive transfer (in net_mode) or the
\* note that there is one.
CheckEvents ==
    /\ chip' = [chip EXCEPT !.events = {}, !.irq = FALSE,
                            !.rx = IF "rx" \in chip.events /\ netMode /\ ~removed THEN Tail(@) ELSE @]
    /\ win' = IF "tx" \in chip.events THEN chip.grant ELSE win
    /\ IF "rx" \notin chip.events THEN UNCHANGED <<avail, cdev, net, log, used>>
       ELSE IF ~netMode \/ removed
       THEN /\ avail' = Len(Head(chip.rx))
            /\ UNCHANGED <<cdev, net, log, used>>
       ELSE UNCHANGED avail /\ RxTransfer(Head(chip.rx))

NoEvents == UNCHANGED <<chip, win, avail, cdev, net, log, used>>

\* artosyn_irqhandler(): the drain until the status register is clear.
Irq ==
    /\ phase = "rtos" /\ chip.irq /\ CheckEvents
    /\ UNCHANGED <<fw, phase, netMode, hasNet, ndo, removed, rm, txLock, wr, wire, rd>>

WriteCond == removed \/ win > 0
RxAvail == removed \/ (IF netMode THEN cdev.q # <<>> ELSE avail > 0)

\* artosyn_poll(): the self-heal, only when nothing is ready.
Poll ==
    /\ phase = "rtos" /\ cdev.opens > 0 /\ ~removed /\ ~RxAvail /\ ~WriteCond
    /\ chip.events # {} /\ CheckEvents
    /\ UNCHANGED <<fw, phase, netMode, hasNet, ndo, removed, rm, txLock, wr, wire, rd>>

-----------------------------------------------------------------------------
\* Writing: artosyn_do_write() for the daemon, artosyn_write_all() for the worker

Size(w) == IF w = "daemon" THEN DaemonFrame ELSE NetFrame

\* A frame is handed over: the daemon's write() on its open file, or the worker's next one
\* (or ndo_open's and ndo_stop's own) until ndo_stop returns.  Both then queue for tx_mutex.
WriteBegin(w) ==
    /\ phase = "rtos" /\ wr[w].pc = "idle" /\ used.frames[w] < MaxFrames /\ Within(1, 0, 0)
    /\ IF w = "daemon" THEN cdev.opens > 0 ELSE ndo # "down"
    /\ wr' = [wr EXCEPT ![w] = [pc |-> "lock", left |-> Size(w)]]
    /\ used' = [used EXCEPT !.frames[w] = @ + 1]
    /\ UNCHANGED <<fw, phase, netMode, hasNet, ndo, removed, rm, chip, win, txLock, wire, avail, rd,
                   cdev, net, log>>

\* The call returns an error.  The worker drops the rest of its frame and releases the
\* mutex; the daemon (external) retries or gives the frame up.
WriteFails(w) ==
    /\ txLock' = None
    /\ \/ wr' = [wr EXCEPT ![w] = [pc |-> "idle", left |-> 0]]
       \/ w = "daemon" /\ wr' = [wr EXCEPT ![w].pc = "lock"]

\* tx_mutex is taken (or still held), and artosyn_write_chunk() runs up to its wait: a
\* removed device fails, and the courtesy poll runs only when there is no window.
Locks(w) == (wr[w].pc = "lock" /\ txLock = None) \/ wr[w].pc = "again"
WriteLockNoPoll(w) ==
    /\ phase = "rtos" /\ Locks(w)
    /\ IF removed THEN WriteFails(w) /\ NoEvents
       ELSE /\ wr' = [wr EXCEPT ![w].pc = "wait"] /\ txLock' = w /\ NoEvents
    /\ UNCHANGED <<fw, phase, netMode, hasNet, ndo, removed, rm, wire, rd>>

WriteLock(w) ==
    /\ phase = "rtos" /\ Locks(w)
    /\ IF removed THEN WriteFails(w) /\ NoEvents
       ELSE /\ wr' = [wr EXCEPT ![w].pc = "wait"] /\ txLock' = w
            /\ IF ~WriteCond /\ chip.events # {} THEN CheckEvents ELSE NoEvents
    /\ UNCHANGED <<fw, phase, netMode, hasNet, ndo, removed, rm, wire, rd>>

\* The wait ends: the condition holds, or SDIO_WRITE_WAIT_MS have passed.
WriteWake(w) ==
    /\ wr[w].pc = "wait" /\ WriteCond
    /\ wr' = [wr EXCEPT ![w].pc = "copy"]
    /\ UNCHANGED <<fw, phase, netMode, hasNet, ndo, removed, rm, chip, win, txLock, wire, avail, rd, cdev,
                   net, log, used>>
WriteTimeout(w) ==
    /\ wr[w].pc = "wait" /\ ~WriteCond /\ WriteFails(w)
    /\ UNCHANGED <<fw, phase, netMode, hasNet, ndo, removed, rm, chip, win, wire, avail, rd, cdev, net, log,
                   used>>

AfterChunkReleases(w, left) ==
    IF left = 0
    THEN txLock' = None /\ wr' = [wr EXCEPT ![w] = [pc |-> "idle", left |-> 0]]
    ELSE txLock' = None /\ wr' = [wr EXCEPT ![w] = [pc |-> "lock", left |-> left]]

\* After the chunk: the worker keeps the mutex while it has more, the daemon's write()
\* returns short and has to lock again.
AfterChunk(w, left) ==
    IF left = 0
    THEN txLock' = None /\ wr' = [wr EXCEPT ![w] = [pc |-> "idle", left |-> 0]]
    ELSE IF w = "daemon"
    THEN txLock' = None /\ wr' = [wr EXCEPT ![w] = [pc |-> "lock", left |-> left]]
    ELSE UNCHANGED txLock /\ wr' = [wr EXCEPT ![w] = [pc |-> "again", left |-> left]]

Blocks(w, n, left) == [j \in 1..n |-> [w |-> w, f |-> used.frames[w], last |-> left = 0 /\ j = n]]

WriteCopyUnchecked(w) ==
    LET n == Min({wr[w].left, IF win = 0 THEN 1 ELSE win, TransMax})
    IN  /\ wr[w].pc = "copy"
        /\ wire' = wire \o Blocks(w, n, wr[w].left - n) /\ win' = 0
        /\ AfterChunk(w, wr[w].left - n)
        /\ UNCHANGED <<fw, phase, netMode, hasNet, ndo, removed, rm, chip, avail, rd, cdev, net, log, used>>

\* The rest of artosyn_write_chunk(), under io_mutex and the host claim: re-check removed,
\* cut the chunk to the window and the transfer limit, copy it and close the window.  A
\* window that shrank to nothing is -EAGAIN: the worker goes round, the daemon's call
\* returns.
WriteCopy(w) ==
    LET n == Min({wr[w].left, win, TransMax})
    IN  /\ wr[w].pc = "copy"
        /\ \/ removed /\ WriteFails(w) /\ UNCHANGED <<win, wire, used>>
           \/ /\ ~removed /\ n = 0
              /\ AfterChunk(w, wr[w].left) /\ UNCHANGED <<win, wire, used>>
           \/ /\ ~removed /\ n > 0
              /\ wire' = wire \o Blocks(w, n, wr[w].left - n) /\ win' = 0
              /\ AfterChunk(w, wr[w].left - n) /\ UNCHANGED used
           \/ ~removed /\ n > 0 /\ Fault /\ WriteFails(w) /\ UNCHANGED <<win, wire>>
        /\ UNCHANGED <<fw, phase, netMode, hasNet, ndo, removed, rm, chip, avail, rd, cdev, net, log>>

WriteStep(w) == phase = "rtos" /\ (WriteWake(w) \/ WriteTimeout(w) \/ WriteCopy(w))

-----------------------------------------------------------------------------
\* The character device

\* artosyn_open(), as long as g_dev is set, and artosyn_release().  The last close purges the queue.  read() and
\* write() hold the file, so release runs only when neither is inside.
Open ==
    /\ phase = "rtos" /\ cdev.opens = 0
    /\ cdev' = [cdev EXCEPT !.opens = 1]
    /\ UNCHANGED <<fw, phase, netMode, hasNet, ndo, removed, rm, chip, win, txLock, wr, wire, avail, rd, net,
                   log, used>>
Release ==
    /\ phase = "rtos" /\ cdev.opens = 1 /\ rd.pc = "idle" /\ wr["daemon"].pc = "idle"
    /\ cdev' = [q |-> <<>>, bytes |-> 0, opens |-> 0]
    /\ log' = [log EXCEPT !.drop = @ \cup Range(Ids(FlattenSeq(cdev.q)))]
    /\ UNCHANGED <<fw, phase, netMode, hasNet, ndo, removed, rm, chip, win, txLock, wr, wire, avail, rd, net,
                   used>>

\* read() begins.  Chardev-only mode (artosyn_do_read()) claims the reader's slot first.
ReadBegin ==
    /\ phase = "rtos" /\ cdev.opens > 0 /\ rd.pc = "idle" /\ (netMode \/ ~removed)
    /\ rd' = [rd EXCEPT !.pc = "wait", !.reading = ~netMode]
    /\ IF ~RxAvail /\ chip.events # {} THEN CheckEvents ELSE NoEvents
    /\ UNCHANGED <<fw, phase, netMode, hasNet, ndo, removed, rm, txLock, wr, wire>>

ReadEnds == rd' = [pc |-> "idle", hand |-> <<>>, reading |-> FALSE]

ReadFailsKeepsSlot ==
    /\ rd.pc = "wait" /\ (removed \/ ~RxAvail)
    /\ rd' = [rd EXCEPT !.pc = "idle"]
    /\ UNCHANGED <<fw, phase, netMode, hasNet, ndo, removed, rm, chip, win, txLock, wr, wire, avail,
                   cdev, net, log, used>>

\* The wait ends with -EIO: nothing came in SDIO_READ_WAIT_MS, or the device is going.
ReadFails ==
    /\ rd.pc = "wait" /\ (removed \/ ~RxAvail)
    /\ ReadEnds
    /\ UNCHANGED <<fw, phase, netMode, hasNet, ndo, removed, rm, chip, win, txLock, wr, wire, avail,
                   cdev, net, log, used>>

\* artosyn_cdev_read(): the head transfer is dequeued under the queue lock ...
ReadTake ==
    /\ rd.pc = "wait" /\ netMode /\ ~removed /\ cdev.q # <<>>
    /\ rd' = [rd EXCEPT !.pc = "have", !.hand = Head(cdev.q)]
    /\ cdev' = [cdev EXCEPT !.q = Tail(@)]
    /\ UNCHANGED <<fw, phase, netMode, hasNet, ndo, removed, rm, chip, win, txLock, wr, wire, avail,
                   net, log, used>>

ReadGiveAtTail ==
    /\ rd.pc = "have" /\ ReadEnds
    /\ \E n \in 1..Len(rd.hand) :
            LET rest == SubSeq(rd.hand, n + 1, Len(rd.hand))
            IN  /\ cdev' = [cdev EXCEPT !.bytes = @ - n,
                                        !.q = IF rest = <<>> THEN @ ELSE Append(@, rest)]
                /\ log' = [log EXCEPT !.read = @ \o Ids(SubSeq(rd.hand, 1, n))]
    /\ UNCHANGED <<fw, phase, netMode, hasNet, ndo, removed, rm, chip, win, txLock, wr, wire, avail,
                   net, used>>

ReadGiveUncounted ==
    /\ rd.pc = "have" /\ ReadEnds
    /\ \E n \in 1..Len(rd.hand) :
            LET rest == SubSeq(rd.hand, n + 1, Len(rd.hand))
            IN  /\ cdev' = [cdev EXCEPT !.bytes = @ - Len(rd.hand),
                                        !.q = IF rest = <<>> THEN @ ELSE <<rest>> \o @]
                /\ log' = [log EXCEPT !.read = @ \o Ids(SubSeq(rd.hand, 1, n))]
    /\ UNCHANGED <<fw, phase, netMode, hasNet, ndo, removed, rm, chip, win, txLock, wr, wire, avail,
                   net, used>>

\* ... copied, and what the buffer did not hold is put back at the head; the byte count
\* follows.  A failed copy puts the whole transfer back and counts nothing.
ReadGive ==
    /\ rd.pc = "have" /\ ReadEnds
    /\ \/ \E n \in 1..Len(rd.hand) :
            LET rest == SubSeq(rd.hand, n + 1, Len(rd.hand))
            IN  /\ cdev' = [cdev EXCEPT !.bytes = @ - n,
                                        !.q = IF rest = <<>> THEN @ ELSE <<rest>> \o @]
                /\ log' = [log EXCEPT !.read = @ \o Ids(SubSeq(rd.hand, 1, n))]
                /\ UNCHANGED used
       \/ /\ Fault /\ cdev' = [cdev EXCEPT !.q = <<rd.hand>> \o @] /\ UNCHANGED log
    /\ UNCHANGED <<fw, phase, netMode, hasNet, ndo, removed, rm, chip, win, txLock, wr, wire, avail, net>>

\* artosyn_fops_read(), chardev-only mode: the bytes go to the caller.  When they cannot be
\* copied the position has already moved on: they are gone, and nothing counts them.
ReadCopy(ids) ==
    \/ log' = [log EXCEPT !.read = @ \o ids] /\ UNCHANGED used
    \/ log' = [log EXCEPT !.lost = @ \cup Range(ids)] /\ Fault

\* artosyn_do_read(): straight from the FIFO, under io_mutex.  A failed transfer leaves the
\* position.
ReadFifo ==
    /\ rd.pc = "wait" /\ ~netMode /\ ~removed /\ avail > 0 /\ ReadEnds
    /\ \/ \E n \in 1..Min({avail, TransMax}) :
            /\ avail' = avail - n
            /\ chip' = [chip EXCEPT !.rx = IF n = avail THEN Tail(@)
                                           ELSE <<SubSeq(Head(@), n + 1, Len(Head(@)))>> \o Tail(@)]
            /\ ReadCopy(Ids(SubSeq(Head(chip.rx), 1, n)))
       \/ Fault /\ UNCHANGED <<avail, chip, log>>
    /\ UNCHANGED <<fw, phase, netMode, hasNet, ndo, removed, rm, win, txLock, wr, wire, cdev, net>>

ReadStep == phase = "rtos" /\ (ReadFails \/ ReadTake \/ ReadGive \/ ReadFifo)

-----------------------------------------------------------------------------
\* The network interface as this layer sees it: ndo_open clears the stream buffer under the
\* host claim; ndo_stop stops claiming frames, then waits for the worker.
NetUp ==
    /\ phase = "rtos" /\ hasNet /\ ndo = "down"
    /\ ndo' = "up" /\ net' = FreshStream
    /\ UNCHANGED <<fw, phase, netMode, hasNet, removed, rm, chip, win, txLock, wr, wire, avail, rd, cdev,
                   log, used>>
NetDown ==
    /\ phase = "rtos"
    /\ \/ ndo = "up" /\ ndo' = "stop"
       \/ ndo = "stop" /\ wr["net"].pc = "idle" /\ ndo' = "down"
    /\ UNCHANGED <<fw, phase, netMode, hasNet, removed, rm, chip, win, txLock, wr, wire, avail, rd, cdev,
                   net, log, used>>

-----------------------------------------------------------------------------
\* artosyn_remove(): the interface first (unregistering stops it if it is up), then the flag
\* under io_mutex, then wait for the FIFO reader and for tx_mutex, then free.
RemoveNet ==
    /\ phase = "rtos" /\ rm = "none" /\ ndo = "down"
    /\ rm' = "flag" /\ hasNet' = FALSE
    /\ UNCHANGED <<fw, phase, netMode, ndo, removed, chip, win, txLock, wr, wire, avail, rd,
                   cdev, net, log, used>>
RemoveFlag ==
    /\ phase = "rtos" /\ rm = "flag" /\ rd.pc # "have"
    /\ rm' = "wait" /\ removed' = TRUE
    /\ UNCHANGED <<fw, phase, netMode, hasNet, ndo, chip, win, txLock, wr, wire, avail, rd, cdev, net,
                   log, used>>
RemoveFreeEarly ==
    /\ phase = "rtos" /\ rm = "wait" /\ ~rd.reading
    /\ phase' = "gone" /\ rm' = "freed"
    /\ cdev' = [q |-> <<>>, bytes |-> 0, opens |-> 0]
    /\ UNCHANGED <<fw, netMode, hasNet, ndo, removed, chip, win, txLock, wr, wire, avail, rd, net,
                   log, used>>

RemoveFree ==
    /\ phase = "rtos" /\ rm = "wait" /\ ~rd.reading /\ txLock = None
    /\ phase' = "gone" /\ rm' = "freed"
    /\ cdev' = [q |-> <<>>, bytes |-> 0, opens |-> 0]
    /\ UNCHANGED <<fw, netMode, hasNet, ndo, removed, chip, win, txLock, wr, wire, avail, rd, net,
                   log, used>>

-----------------------------------------------------------------------------
\* The chip (external)

\* It offers a transmit window when the previous one is used up, and may withdraw one
\* (bound: only while a frame is being written or may still come).
ChipGrant ==
    /\ phase = "rtos" /\ "tx" \notin chip.events
    /\ Within(1, 0, 0) \/ \E w \in Writers : wr[w].pc # "idle"
    /\ \/ \E g \in 1..WinMax :
            /\ win = 0 /\ UNCHANGED used
            /\ chip' = [chip EXCEPT !.events = @ \cup {"tx"}, !.grant = g, !.irq = TRUE]
       \/ /\ win > 0 /\ Fault
          /\ chip' = [chip EXCEPT !.events = @ \cup {"tx"}, !.grant = 0, !.irq = TRUE]
    /\ UNCHANGED <<fw, phase, netMode, hasNet, ndo, removed, rm, win, txLock, wr, wire, avail, rd,
                   cdev, net, log>>

\* It has a transfer: a daemon frame, a socket frame with one or two pieces, or both, and
\* behind a single frame stale bytes or one that continues in the next transfer.
DaemonFrames == <<[k |-> "daemon", id |-> used.drx + 1]>>
SockFrames(s) == <<[k |-> "sock", ps |-> SubSeq(Pieces, used.pieces + 1, used.pieces + s)]>>
Layouts == {<<0, 1, "stale">>, <<1, 0, "stale">>, <<2, 0, "stale">>, <<1, 0, "cut">>, <<1, 1, "end">>}
Transfer(l) == (IF chip.end = "cut" THEN <<[k |-> "more"]>> ELSE <<>>)
                \o (IF l[1] > 0 THEN SockFrames(l[1]) ELSE <<>>)
                \o (IF l[2] > 0 THEN DaemonFrames ELSE <<>>)
                \o (IF l[3] = "end" THEN <<>> ELSE <<[k |-> l[3]]>>)
ChipData ==
    /\ phase = "rtos" /\ chip.rx = <<>>
    /\ \E l \in Layouts :
         /\ l[1] > 0 => netMode
         /\ Within(Offered, 1, l[2]) /\ used.pieces + l[1] <= Len(Pieces)
         /\ chip' = [chip EXCEPT !.rx = <<Transfer(l)>>, !.end = l[3]]
         /\ used' = [used EXCEPT !.rx = @ + 1, !.drx = @ + l[2], !.pieces = @ + l[1]]
    /\ UNCHANGED <<fw, phase, netMode, hasNet, ndo, removed, rm, win, txLock, wr, wire, avail, rd,
                   cdev, net, log>>

\* It signals the transfer at the head, once the previous one has been read out.
ChipRxReady ==
    /\ phase = "rtos" /\ "rx" \notin chip.events /\ chip.rx # <<>> /\ avail = 0
    /\ chip' = [chip EXCEPT !.events = @ \cup {"rx"}, !.irq = TRUE]
    /\ UNCHANGED <<fw, phase, netMode, hasNet, ndo, removed, rm, win, txLock, wr, wire, avail, rd,
                   cdev, net, log, used>>

\* An interrupt is missed: the events stay in the register.
ChipIrqLost ==
    /\ phase = "rtos" /\ chip.irq /\ Fault
    /\ chip' = [chip EXCEPT !.irq = FALSE]
    /\ UNCHANGED <<fw, phase, netMode, hasNet, ndo, removed, rm, win, txLock, wr, wire, avail, rd,
                   cdev, net, log>>

ChipStep == ChipGrant \/ ChipData \/ ChipRxReady \/ ChipIrqLost

Next ==
    \/ ProbeRom \/ ProbeRtos \/ Irq \/ Poll
    \/ \E w \in Writers : WriteBegin(w) \/ WriteLock(w) \/ WriteStep(w)
    \/ Open \/ Release \/ ReadBegin \/ ReadStep
    \/ NetUp \/ NetDown \/ RemoveNet \/ RemoveFlag \/ RemoveFree
    \/ ChipStep

Spec == Init /\ [][Next]_svars

\* Scheduling: the interrupt thread, the sleeping writers and the chip all get on; tx_mutex
\* is a kernel mutex, which does not starve a waiter.
FairSpec ==
    /\ Spec
    /\ WF_svars(Irq) /\ WF_svars(ChipGrant)
    /\ \A w \in Writers : WF_svars(WriteStep(w)) /\ SF_svars(WriteLock(w))
    /\ WF_svars(ReadStep) /\ SF_svars(RemoveFree)

-----------------------------------------------------------------------------
\* The driver's fields, the mutex and the positions of its writers and reader.
TypeOK ==
    /\ FwTypeOK
    /\ phase \in {"rom", "gone", "rtos", "dead"} /\ rm \in {"none", "flag", "wait", "freed"}
    /\ {netMode, hasNet, removed} \subseteq BOOLEAN
    /\ ndo \in {"down", "up", "stop"} /\ (ndo # "down" => hasNet)
    /\ chip.events \subseteq {"tx", "rx"} /\ chip.grant \in 0..WinMax /\ win \in 0..WinMax
    /\ txLock \in Writers \cup {None}
    /\ \A w \in Writers : /\ wr[w].pc \in {"idle", "lock", "again", "wait", "copy"}
                          /\ wr[w].left \in 0..Size(w)
                          /\ (txLock = w) = (wr[w].pc \in {"again", "wait", "copy"})
    /\ rd.pc \in {"idle", "wait", "have"} /\ avail \in Nat /\ cdev.bytes \in Nat

\* Blocks i and j of the wire belong to the same frame of the worker.
SameFrame(i, j) == wire[i].w = "net" /\ wire[j].w = "net" /\ wire[i].f = wire[j].f

\* The worker's frames reach the FIFO without anyone else's blocks inside them, however
\* many windows a frame takes: artosyn_write_all() keeps tx_mutex across all its chunks.
NetFramesContiguous ==
    \A i, j \in DOMAIN wire : (i < j /\ SameFrame(i, j)) => \A k \in i..j : SameFrame(i, k)

QueuedBlocks == FoldSeq(LAMBDA t, n : n + Len(t), 0, cdev.q)

\* The byte count that caps the receive queue is what is queued plus what a reader has
\* dequeued and not yet accounted for, and never exceeds the cap.
CdevAccounting ==
    phase = "rtos" => /\ cdev.bytes = QueuedBlocks + Len(rd.hand)
                      /\ cdev.bytes <= CdevMax

\* Every daemon frame the chip sent is still in the chip, dropped and counted, or goes to
\* the daemon exactly once and in order: partial reads, failed copies and the drain running
\* between a reader's dequeue and its put-back included.  Only the FIFO reader of the
\* chardev-only mode loses frames to a failed copy without a trace; in net_mode none is.
DaemonStreamInOrder ==
    phase = "rtos" =>
        LET seen == log.read \o Ids(rd.hand) \o Ids(FlattenSeq(cdev.q)) \o Ids(FlattenSeq(chip.rx))
        IN  /\ \A i, j \in DOMAIN seen : i < j => seen[i] < seen[j]
            /\ Range(seen) \cap (log.drop \cup log.lost) = {} /\ log.drop \cap log.lost = {}
            /\ Range(seen) \cup log.drop \cup log.lost = 1..used.drx
            /\ netMode => log.lost = {}

\* The parts of datagram d lie next to each other and in order in s; u is one datagram as sent.
AsSent(u) == \A j \in DOMAIN u : u[j].d = u[1].d /\ u[j].i = j
WholeIn(s, d) == \E k \in DOMAIN s : /\ s[k].d = d /\ s[k].i = 1 /\ k + s[k].n - 1 <= Len(s)
                                     /\ AsSent(SubSeq(s, k, k + s[k].n - 1))

\* net_rx_stream() with lost transfers.  What goes to the stack is in the order of sending, and
\* is a datagram as sent unless the end of that datagram was lost: then a tail of a later one in
\* the right place makes a splice of the two.  A datagram that came in whole since the interface
\* was opened is delivered as sent, still waits in the buffer behind one that lost its end, or
\* was taken along by a splice or by a full buffer; and the buffer keeps only an incomplete one.
DatagramsExact ==
    LET ds == {Pieces[i].d : i \in DOMAIN Pieces}
        sent == {u[1].d : u \in {v \in Range(net.up) : AsSent(v)}}
        splices == {u \in Range(net.up) : ~AsSent(u)}
        gone == UNION {Range(u) : u \in splices} \cup net.shed
    IN  /\ \A j, k \in DOMAIN net.up : j < k => net.up[j][1].d < net.up[k][1].d
        /\ \A u \in splices : ~WholeIn(net.got, u[1].d)
        /\ \A d \in ds : WholeIn(net.got, d) =>
              d \in sent \/ WholeIn(net.rxbuf, d) \/ \E p \in gone : p.d = d
        /\ net.rxbuf # <<>> => net.rxbuf[1].i = 1 /\ Len(net.rxbuf) < net.rxbuf[1].n

\* artosyn_fw_push(): every packet the ROM gets is whole, and it boots only what it holds.
FirmwareSound == FwPacketsWhole /\ FwBootsLoaded

\* The three byte streams of the FIFO: the worker's frames to the chip, the daemon's frames
\* from it, and the count that caps the queue between the drain and the reader.
StreamsWhole == NetFramesContiguous /\ CdevAccounting /\ DaemonStreamInOrder

\* artosyn_remove(): once it has set its flag nothing more is written to the FIFO, even by a
\* writer that had already been woken, and the device is freed only when no writer is past
\* tx_mutex and no FIFO reader is inside.
RemovalClean ==
    [][/\ removed => wire' = wire
       /\ rm # "freed" /\ rm' = "freed" =>
            ~rd.reading /\ \A w \in Writers : wr[w].pc \in {"idle", "lock"}]_svars

\* A write that started ends even when interrupts are missed (the courtesy poll before each
\* wait finds the window in the register), and the removal is never stuck behind a sleeping
\* writer or reader.
NobodyStuck ==
    /\ \A w \in Writers : wr[w].pc # "idle" ~> (wr[w].pc = "idle" \/ phase = "gone")
    /\ removed ~> rm = "freed"
====
