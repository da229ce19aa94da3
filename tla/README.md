# AR8030 transport: TLA+ models, checks and proofs

This directory holds formal models of the AR8030 video transport, kept beside
the code in `src/`. File and line references below are to `src/`.

## 1. The system

Two boards talk over an AR8030 radio. On the **air unit** an encoder
(waybeam, another project) publishes H.265 frames in a shared-memory ring;
`tx/` takes them, cuts them into chunks and writes these to a `bb_socket`. On
the **ground** `rx/` reads chunks, reassembles frames and sends RTP. The chip is
reached through a daemon (`ar8030d`, another project) over the kernel driver in
`kmod/`, which also offers a network interface; `lifecycled/` supervises the
link, pairs units and runs hooks.

| Component | State it keeps | Operations | Interacts with | Module |
|---|---|---|---|---|
| chunker (`common/chunker.c`) | none | `ar8030_chunk_frame`, `ar8030_chunk_part` | callback that writes one chunk | `Chunker` |
| reassembly (`common/reassembly.c`) | frame in progress, counters, last bad `frame_seq` | `init`, `reset`, `feed` | rx loop | `Reassembly` |
| chunk stream (`common/chunk_stream.c`) | byte buffer, two counters | `read` with resynchronisation | socket, rx loop | `ChunkStream` |
| tx loop (`tx/main.c`) | `frame_seq`, `sf` (frame sent slice by slice), stats, dead-write and stall counts | read ring, send, time out, reconnect | ring, outq, socket, bitrate thread | `VideoLink`, `LinkSession` |
| outq (`tx/outq.c`) | bounded FIFO of non-video chunks | push (other threads), pop | idr_ctrl, sidecar_sub, tx loop | `VideoLink`, `ControlPath` |
| rx loop (`rx/main.c`) | reassembler, `fwd_off`, `fwd_vcl`, `frames_lost` | route a chunk, forward a slice or frame | clock sync, sidecar server, RTP | `VideoLink` |
| RTP and SEI (`rx/rtp_h265.c`, `common/timing_sei.c`) | RTP sequence number | send NALs, insert SEI | rx loop | `VideoLink` |
| link session (`common/ar8030_link.c`) | daemon, device and socket handles | connect, open, close all, probe, reconnect | every program, the other programs of the chip | `LinkSession` |
| bitrate control (`tx/bitrate_ctl.c`) | rate, floor, hold-offs, PI state | iterate, HTTP to the encoder | tx loop (atomics), link, idr_ctrl | `BitrateCtl` |
| clock sync (`rx/clock_sync.c`) | window of samples | send probe, take reply | rx loop, SEI | `ClockWindow`, `ControlPath` |
| keyframe requests (`rx/idr_relay.c`, `tx/idr_ctrl.c`) | seen tokens, last request | relay, deduplicate, coalesce | control chunks, HTTP | `ControlPath` |
| sidecar (`tx/sidecar_sub.c`, `rx/sidecar_srv.c`) | subscription, subscribers | forward, serve | outq, UDP | `ControlPath` (its share of the outq) |
| supervisor (`lifecycled/lifecycle.c`) | link state, request mailboxes, wanted settings | tick, events, HTTP requests, hooks | daemon RPC, scripts | `Lifecycle`, `LinkChannel` |
| pairing (`lifecycled/lifecycle_pair.c`, `_bind.c`, `_gpio.c`) | configuration, marker, peer list, button | press, pair, forget, push candidates, reset pulse | pairing tool, chip, files, hooks | `Pairing` |
| SDIO driver (`kmod/artosyn_sdio.c`) | window, receive queue, mutexes, removal | firmware push, read, write, interrupt, remove | chip, daemon, network device | `FirmwarePush`, `SdioDriver` |
| network device (`kmod/artosyn_net.c`) | socket position, transmit queue, stream parser | open, stop, xmit, receive | SDIO driver, network stack | `NetDevice`, `SdioDriver` |
| audio bridges | as tx and rx, one frame per datagram | the same | daemon | `LinkSession` (their sessions) |
| `linkctl/`, `still/`, `tools/` | little | one-shot | daemon RPC | not modelled |

What is hard here: loss of any chunk at any time while a frame is already being
shown slice by slice; a 16-bit frame number that wraps; restarts of the encoder,
tx, the daemon, the chip or the radio in the middle of anything; power cuts in
the middle of a pairing; threads that share a FIFO, a queue or a chip whose only
close takes everyone's socket; replies that come late; hold-offs that hold each
other; counters an operator relies on. `PROJECT.json` lists these hazards at the
lines where they bite.

## 2. Modules

    FrameDelivery <-- VideoLink --> Reassembly --> Chunker      ChunkStream
    Lifecycle    LinkChannel    Pairing --> PeerStore, BindButton
    SdioDriver --> FirmwarePush         NetDevice (on what SdioDriver shows)
    BitrateCtl --> RateRules, RatePi --> RateCommon
    ControlPath --> ClockWindow         LinkSession
    VideoLinkProofs, LifecycleProofs, LinkChannelProofs, PairingProofs, ControlPathProofs,
    SdioDriverProofs, NetDeviceProofs and LinkSessionProofs extend the module they are
    named after

Every `MC_*` module extends one of them with the sets its configuration names.
Mutant operators (a definition as a plausible bug would have it) stand before
the definition they replace; no action uses them.

### VideoLink

*Data.* Bytes are *pieces*: an interval of a source frame, with two flags (last
bytes of the frame; part of a coded slice). A chunk is its header fields and one
piece. Time stamps are frame numbers. The fields `epoch`, `no` and `idx` of a
piece, and the variables `heard`, `seen`, `completed`, `got`, `written` and
`torn`, are history: no action's guard reads them, except `WithinOutage`, which
states the assumption that an outage of the radio is shorter than a wrap of
`frame_seq` (65536 frames, over ten minutes at 100 fps).

| Action | Code |
|---|---|
| `EncodeFrame`, `EncodeSlice`, `EncoderRestart` | waybeam: ring entries of one frame share a pts, all but the last are PARTIAL; a full ring makes the encoder give up the rest of the frame; a restarted encoder's new ring is attached on a read timeout, `tx/main.c` 1108-1168 |
| `OutqPush` | `tx_outq_push()` by idr_ctrl or sidecar_sub |
| `TxRead` | `tx/main.c` 1170-1244 up to the chunker call |
| `TxWrite`, `TxWriteFails` | one `chunk_send_to_socket()`, including `stage_outq()` and `write_all()` |
| `TxReturn` | from the chunker's return to the end of the loop body, 1219-1328 |
| `TxTimeout` | read timeout: `flush_outq()` |
| `TxReconnect` | health check, reconnect, `flush_ring()`, 1027-1098 |
| `TxRestart` | the process is started again; `flush_ring()` at 914 |
| `LinkLose` | loss on the air, or a chunk skipped by the chunk stream |
| `RxVideo`, `RxAux` | the rx loop's handling of one chunk, 567-687 |

A write that makes partial progress and then fails leaves a truncated chunk in
the stream; that the chunk stream then returns only chunks as they were sent, and
every intact one, is what `ChunkStream` is about, so at this level the chunk is
not sent. Slices of length 0 do not occur (an encoder publishes NAL units). The
rx process does not restart in the model: its state after a restart is its
initial state, which is a state the model has.

### ChunkStream

A byte is known by its position in the stream; the buffer is a sequence of
positions. A stream of a few chunks has one run of bytes missing (`hole`) and one
changed (`flip`), both anywhere, and payloads that contain the magic. `Fill` takes
any part of what has come in that fits (`fill()`), `Return` and `Reject` are the
two ends of the loop of `ar8030_chunk_stream_read()`, both after the scan for the
magic (`Synced`). The magic, length and checksum fields are shortened to 2, 1 and
1 bytes. The checksum has no collisions.

### Lifecycle

*Processes.* The lifecycle thread (one action per stretch of the loop between
two points where another thread or the chip can matter, `pc`), the client
library's reader thread (`EventGen` and `EventState`, its two lock sections), the
HTTP thread (`request_*`), and the chip with its daemon.

*State.* `lk` is the shared `g_link_state`, its valid flag and
`g_link_connect_gen`; `ctx` the fields of `lifecycle_ctx` only the loop writes;
`mail` the mailboxes; `saved` the sidecar files; `loop` the locals of
`lifecycle_thread_main()`; `chip` what the chip has applied. Settings are abstract
values: a bandwidth is a number, a power level or retx setting a name, an SoC
reading cool, hot or missing.

| Action | Code (`lifecycled/lifecycle.c`) |
|---|---|
| `Startup`, `AbandonStartup` | `lifecycle_thread_main()` up to its loop |
| `PollRead`, `PollSet`, `PollFail`, `SkipPoll` | the fallback poll, 1396-1414; reading the chip and storing the result are two steps |
| `Drain` | the request drains, 1416-1419 |
| `StayIdle`, `ConfirmConnect`, `Connect`, `ReadGen` | case `LC_STATE_IDLE` |
| `TuneBandwidth`, `TunePower`, `TuneFrame` | `lc_apply_tuning_on_connect()`, `lc_apply_link_tuning()` |
| `MissLink`, `Drop`, `StayConnected`, `CheckBandwidth`, `RetryFrame` | case `LC_STATE_CONNECTED` |
| `Post` | `lc_overheat_update()`, `lc_standby_update()` |
| `Sleep` | `sleep(1)`; the poll timer counts seconds, and a tick may take two |
| `Stop`, `Terminate`, `Reexec` | shutdown, `lifecycle_request_restart()`, `main.c` 443-458 |

*Assumed of the chip and ar8030d* (external, from the code's comments): a new
link is at frame mode 0, chip power and raw retx (466-512, 282-288) and keeps its
bandwidth; a frame change needs a link and may be refused; a bandwidth set without
a link may not take; every link change is reported once, in order, to a subscribed
session; when the session is lost the chip has re-enumerated. Every change of
bandwidth, the operator's, the loop's own or a renegotiation of the chip, may undo the
frame change without a relink, as the code says of a renegotiation (1547); the history
variable `slipped` notes where that left it off with nothing to show for it.
`PromptEvents` says that the reader thread handles
an event before the tick after it: used where a property is about tick counts
only. The file system does not fail.

### LinkChannel

One tick has four stages: the request, the switch, the check, the tracking poll.
Connects, drops and relinks are free choices at the switch; when they happen is
`Lifecycle`'s subject, and nothing in the channel code feeds back into it. The
chip has a channel setting (`work`) and the channels of the two directions
(`down`, `up`), as the comment on `lc_channel_check_link()` describes them: a
local change moves the uplink unless the chip is set to that channel already, a
peer hop moves the downlink. A relink is assumed to come back on the channels it had.
`last` and `made` are history.

| Action | Code (`lifecycled/lifecycle.c`) |
|---|---|
| `NoRequest`, `RefuseRequest`, `AcceptRequest`, `AcceptUnchecked` | `lc_drain_channel_request()` |
| `Connect`, `Drop`, `Relink`, `StayIdle`, `StayConnected` | the switch, as far as the channel goes |
| `CheckEnds`, `Push`, `Retune` | `lc_channel_check_link()` |
| `Track`, `TrackFails` | `lc_channel_track()` |
| `Restart` | a new process: `lifecycle_init()`, startup channel mode |
| `request_channel`, `PeerMoves`, `Adapt` | the HTTP thread, the ground, the chip in auto mode |

### FirmwarePush and SdioDriver

`FirmwarePush` is `artosyn_download_firmware()`: sections in their order, cut into
packets (`FwChunk`) that `artosyn_write_chunk()` cuts again (`RomWrite`). It runs
alone, from the first probe. `SdioDriver` then has the running chip: the daemon's
writer and reader, the network worker inside `artosyn_write_all()`, the interrupt
thread, and the removal. A step is what runs under one lock or between two.
Sizes are in blocks. A transfer is a sequence of frames for the daemon or for our
socket, may end in the middle of a frame, and may have stale bytes behind it; stale
bytes hold no frame head. The peer's stream is made of *pieces* of datagrams, of equal
size, each with a mark whether its last byte is `DGRAM_TAIL`. `ParseStream` decides as
the code does, by the byte where the tail has to be and nothing else, so a datagram
whose end was lost may be completed by another's (a splice); that a payload looks like
a head is left out.

| Action | Code (`kmod/artosyn_sdio.c`, receive side of `artosyn_net.c`) |
|---|---|
| `ProbeRom` with `FwNext`, `ProbeRtos` | `artosyn_probe()` in its two phases |
| `Irq` (`CheckEvents`, `RxTransfer`) | the interrupt thread: windows, transfers, the drain into the queue and `net_rx_stream()` |
| `WriteBegin`, `WriteLock`, `WriteWake`, `WriteTimeout`, `WriteCopy` | `artosyn_do_write()` and `artosyn_write_all()` through `artosyn_write_chunk()`: `tx_mutex`, courtesy poll, wait, copy under `io_mutex` |
| `Open`, `Release`, `ReadBegin`, `ReadTake`, `ReadGive`, `ReadFifo`, `ReadCopy`, `ReadFails` | `/dev/artosyn_sdio`: the queue of net mode and the direct FIFO read, whose failed copy loses what was read |
| `NetUp`, `NetDown` | `ndo_open`, `ndo_stop` (in its two steps) as far as the stream parser goes |
| `RemoveNet`, `RemoveFlag`, `RemoveFree` | `artosyn_remove()` |
| `ChipGrant`, `ChipData`, `ChipRxReady`, `ChipIrqLost` | the chip (external) |

### NetDevice

The stack's calls, the worker and the reply handling over one chip socket. Every
packet is one unit long. Positions count modulo `PosMod`; how far `wr_index` runs
ahead of the chip saturates at `MaxLead`, beyond which further distance changes
nothing (the chip refuses either way).

| Action | Code (`kmod/artosyn_net.c`) |
|---|---|
| `Xmit`, `XmitStop`, `XmitKick` | `net_start_xmit()`: enqueue, stop the queue, queue the work, other threads in between |
| `WorkStart`, `WorkDequeue`, `WorkSend`, `WorkFinal` | `net_tx_work()` |
| `NetOpen`, `OpenSend`, `OpenReply`, `OpenTimeout` | `net_open()` |
| `NetStop`, `StopCancel`, `StopSend` | `net_stop()` |
| `Rx` | `net_rx_write_ack()` and the open reply |
| `ChipTake`, `ChipDrain` | the chip's socket (external) |

### BitrateCtl

`RulesIterate` and `PiIterate` are one iteration of the two loops, in their order
of stages; a stage is an operator from the controller's locals to the set of
outcomes the encoder's answer allows: it answers, refuses, is not reached, or acts on
a request whose answer is lost (`unheard`: `http_get_status()` returns -1 for the last two
alike). `odd` alternates with each iteration, so
that "the loop goes on" can be said of iterations that change nothing else. Rates
are in a coarse unit (9 to 20), percentages are those of the code or round ones
that give different results at these rates; time is in iterations. At a frame-rate
divisor of N the encoder's floor is its floor over N. `FlushRing`, `Detach` and
`Attach` are the send loop's side; `Attach` stores ring and generation in one step.

| Operator | Code (`tx/bitrate_ctl.c`) |
|---|---|
| `RingStage`, `LdpcStage`, `RetxStage`, `McsStage` | the four parts of `run_rules()` |
| `Capacity`, `Disturb`, `Backstop`, `Focus`, `PiStep`, `Drive` | the parts of `run_pi()` |
| `LearnFloor`, `ApplyCut` | `learn_floor()`, `apply_cut()` with its bisection |
| `Backlog`, `LowMarks` | `ring_low_water()` and the flush settle time |

### Pairing

`BindButton` is the button's thread, `PeerStore` the files and what a power cut
leaves of them: each as seen or as last synced, except that renames in one directory
reach the flash in order, so a peer list is not kept without the configuration it was
written beside (`AfterCut`; an assumption on the file system, which is outside the
repository). Without it a cut could leave a list and no peer, and a first start would
then push nothing while the list names units. The pairing tool `ar8030-pair` is
another project; `lc_pair_persist()`, which has no caller in `src/`, is the same
routine, and the tool is modelled from it. What `fwrite()`, `fflush()` and `fsync()`
return is not looked at, neither there nor in `peers_save()`: a write that fails makes the
temporary file short, or whole and not on the flash, and it is renamed into place all the
same (`Written`; `Save` puts the start of the list in place). `torn` (history) notes that
this has happened to the configuration.

| Action | Code |
|---|---|
| `HttpPair`, `ButtonPair`, `Report` | `lc_pair_run()` |
| `Handshake`, `WriteTmp`, `Rename`, `Mark`, `Sync`, `Live`, `LiveUnsaved` | the tool: `lc_pair_persist()` step by step, then the chip |
| `ResetPulse`, `ResetDone` | `lifecycle_gpio.c` |
| `Start`, `Push`, `Connect`, `Save`, `SaveSync`, `DrainForget`, `FirstIdle`, `Drop`, `Leave` | the supervisor: `lc_pair_apply_known_candidate()`, `lc_peers_*`, hooks |
| `RequestForget`, `RequestStop`, `Reexec` | HTTP, SIGTERM, `main.c` |
| `LinkUp`, `LinkDown`, `PowerCut` | outside |

### ControlPath

Everything beside the video: probes and keyframe requests up, replies and sidecar
datagrams down. Time is the age of what waits, so a link that is down and a reader
busy with the encoder's HTTP answer are delays. `ClockWindow` knows a sample by
its round trip, its error and the boot of the air unit. `behind` (history) marks a
probe that waited behind a backlog. The replies in the outq are picked by their places
in ascending order (`Ascending`), not with `SelectSeq`, which the provers know nothing of.

| Action | Code |
|---|---|
| `SendProbe`, `RelayRequest` | `rx/idr_relay.c` |
| `ReadProbe`, `ReadRequest` (`Honor`, `DropCoalesced`, `DropCongested`) | `tx/idr_ctrl.c` |
| `SidecarFrame`, `Flush` | `tx/sidecar_sub.c`, `tx/outq.c`, `tx/main.c` |
| `OnReply` | `clock_sync_on_reply()` |
| `Tick`, `Want`, `Reboot` | time, the viewer, the air unit |

### LinkSession

The two programs of a unit (video and audio), each with its connection and its
port, over one daemon and one chip. External, from the code's comments: a daemon
that crashes leaves the ports taken on the chip, a clean stop frees them; the chip
has no close for one port; the SDK client reconnects its handle by itself, so the
probe fails only while the daemon is away; sockets of an old session are dead.

| Action | Code |
|---|---|
| `Connect`, `Resolve`, `OpenOk`, `OpenFails`, `CloseAll`, `GiveUp` | `ar8030_link_connect_retry()`, `resolve_connected_slot()`, `open_data_socket()` |
| `Send` | a frame written; tx counts dead writes |
| `HealthCheck` | the probe or the dead-write count, `ar8030_link_reconnect_retry()` |
| `Stop`, `Leave`, `Exit`, `Crash`, `Start` | the program's end and restart; `Stop` only sets `g_stop`, which the loop the program is in looks at in its own time |
| `DaemonGoes`, `DaemonComes`, `PeerConnects` | outside |

## 3. What TLC checks

| Run | Instance | Shows |
|---|---|---|
| `video_safe` | 3 frames (whole, or streamed with leading parameter sets), wrap at 3, every chunk may be lost and every write fail, one-slot ring, a reconnect after any failed write, one tx restart, encoder restarts (1.0 M states) | `TypeOK`, `NoMixing`, `CompletesExactly`, `OutputFaithful`, `CountersExact`, `MarkerExact`, and `DeliveryInOrder`: `VideoLink` implements `FrameDelivery` |
| `video_live` | frames too long for the reassembly buffer or for the chunker, two aux chunks for a queue of one, one restart; the tx thread is fair | `TxBalance`, `FwdWithinBuffer`, `QueuesServed` |
| `stream` | three chunks, payloads that contain the magic, one hole of up to 6 bytes, one changed byte, every cut into reads (0.1 M) | `ChunksAsSent`, `NothingLost`, `Drains` |
| `lc` | two bandwidths, one request of any kind, heat, and three of link changes, renegotiations, refused frame changes, a lost session and a SIGTERM | `SettingsHeld`, `LowPowerEnds`, `DropNeedsOutage`, `LinkServed` |
| `lc_frame` | the code's tick counts, a first link, one request | a violation of `FrameChangeHeld`: see section 4 |
| `chan` | three channels, one request, one ground change, three connects, drops or relinks, one failed push, one failed read, one restart (0.7 M) | `PushBudget`, `LastAskedSaved`, `LinkReachesChannel` |
| `sdio_shared` | firmware images around the block limits; windows of up to 2 blocks, frames of 2, a receive queue of 3, three datagrams of which parts may be lost or imitate a tail, one fault, the removal at any time (0.2 M) | `FirmwareSound`, `StreamsWhole`, `DatagramsExact`, `RemovalClean`, `NobodyStuck` |
| `netdev_stream` | a queue that stops at 2, two frames or replies in flight, one late open reply, one failure | `UpMeansOpen`, `SendingResumes` |
| `bitrate` | both controllers, two throughputs, one mishap of any kind (0.1 M) | `BeliefsTrue`, `SignalsTrue`, `RateSettles` |
| `pairing` | both roles and the three reset methods, four units and a list of three, one pairing, one forget request, two faults (0.4 M) | `PairingSurvives`, `PeersInStep`, `BoardSound`, `PairingSettles` |
| `control` | a window of 2, two tokens and one slot to remember them for longer than requests are coalesced, an outq of 2, one fault (1.2 M) | `ClockTrusted`, `NoFalseReset`, `KeyframeComes` |
| `sessions` | two slots, two attempts, and three out of two outages, one crash, one refusal and one stop (0.3 M) | `FreshSlot`, `OthersSpared`, `SessionsReturn` |

Several properties are conjunctions of named parts, each with its own comment in
the module: `OutputFaithful`, for example, is `ForwardedIsReassembled`,
`SlicesInOrder` and `SeiPlacement`. `PROJECT.json` lists a mutant for each part.
Only `video_safe` lists its `TypeOK`; TLC accepts the others' as a further invariant
of their runs.

*Bounds, video.* With `ChunkPayload = 1` a length is a number of chunks, so frames
of two or three chunks exercise first, middle and last chunk. A wrap of 3 makes
numbers meet after a restart, subject to `MaxOutage < SeqMod`, the assumption of
the proofs too. A frame whose number has wrapped is not transmitted with 3
frames; an instance with four frames, without restart, was checked
by hand (2.5 M states), as were one with a reconnect the probe asks for (2.9 M) and one
with frames of three slices (5.5 M), and `NoMixing` is proved for any number. `LinkCap = 1` loses
no behaviour of the ground: it sees an arbitrary subsequence of what tx writes,
whatever is in flight; `video_live` uses 2.

*Bounds, stream.* Three chunks are one damaged and one on either side; the hole is
longer than a header, so it can join two of them. The buffer holds exactly the
largest chunk, the least the code allows.

*Bounds, supervisor.* `lc` uses 2 ticks for the connect debounce, the poll and the
lost-session count (one that counts and one that decides) and 3 for the drop debounce:
longer than the poll interval, as the code's 6 is than its 5; `DropNeedsOutage` is proved
for any counts. Three link changes are a link, a drop and a relink at any point; the loop keeps no more history of
the link than one generation. `chan` shortens the delays to the
smallest that still order check and poll both ways and keeps the code's 4 pushes.
Three channels give the middle one two equally near neighbours; requests include an
index beyond the table. `LinkReachesChannel` is about connections without failing
calls, ground moves or a second request, any of which may use up the pushes; the run
has one request, and was also made with two (2.3 M states).

*Bounds, driver.* `Loads` pairs how many frames are written with how many transfers
are received, so that one run explores both directions without their product.
Two blocks per frame and windows of one or two make a frame need one window or
several. Positions modulo 7 tell apart all distances `MaxLead + MaxFlight` allows.

*Bounds, others.* In `bitrate` one mishap of any kind (a request that fails or whose answer
is lost, a failed reading, an encoder restart) comes at any iteration; hold-offs are 1 or 2 iterations, unequal
where the code's are. In `pairing` a full list plus the current peer is one more than
the chip takes; instances with two pairings and one fault were checked by hand
(3.1 M states, the invariants; without forgetting, liveness too). In `control` the relay
serves either probes or requests, as two configurations of the code do; both
together were checked by hand with an outq of 1 (2 M states, invariants). A token is
remembered for 3 ticks and requests are coalesced for 2, as the code's 2000 ms outlast
its 250 ms. In `sessions` two attempts are one retry and the giving up.

*Deadlock* is checked for the supervisor. Elsewhere the bounds run out (the encoder
stops, no pairing is left) and the system may stop.

*Fairness.* Each is weak fairness of threads that keep running, unless said.

* Video: the tx thread's own steps; a ring read returns within 200 ms and a
  `bb_socket_write()` within `write_timeout_ms`, with progress or without.
* Supervisor: the lifecycle thread (ioctls time out), the reader thread, ar8030d
  becoming reachable while startup retries (1298-1311), `main()` re-executing.
* Driver: the writers and readers, the interrupt thread for interrupts that are
  not missed, the chip offering windows; strong fairness for taking `tx_mutex` and for
  the end of the removal, since a kernel mutex hands over to its waiters. Network
  device: the worker, the control calls (they time out), the chip answering.
* Bitrate: an iteration comes again and again; the send loop attaches the ring.
* Pairing: threads and tools run, the handshake ends, an accepted unit is in range.
* Control: time passes, the reader reads; strong fairness for relaying a request,
  as the viewer repeats it and the socket takes one when there is room.
* Sessions: each program runs, has frames and its health check; something starts the
  daemon again (an init script); a peer connects.
* Chunk stream: the reader reads on.

## 4. Where code and text disagree

These came up while modelling. The properties above are stated so as to be true of
the code; each exclusion they make is named here.

*Video.*

* `flush_ring()` after a reconnect drops entries without regard to frame boundaries
  while `sf` stays (`tx/main.c` 1096): the ground completes a frame with a hole
  (`rx/main.c` 8 and `README.md` 20: whole frames). `PictureIntegrity` excludes frames
  a flush tore.
* `common/ar8030_chunk.h` 111 says control chunks are never written in the middle of
  a frame; `chunk_send_to_socket()` stages them before every video chunk
  (`tx/main.c` 518). The ground routes them away first, so nothing breaks.
* `common/reassembly.h` 35 says every discarded frame counts; one sent whole that lost
  its tail does not (`reassembly.c` 43). `StreamedDiscardsCounted` is what holds.
* A slice the chunker refuses (over 0xFFFF chunks) adds nothing to what the frame
  needs, so the frame counts as complete (`tx/main.c` 1223).
* Two tx runs can meet in one buffer: after a restart a chunk whose number equals
  that of the frame in progress extends it if its predecessors were lost. `NoMixing`
  speaks of one run, `PictureIntegrity` of frames of one run.
* The chunk checksum covers the payload only. A changed header field, or a header
  joined from two across a hole, goes unnoticed: the premise of `ChunksAsSent`.
  A damaged chunk made up by equal first bytes of the next one costs that one
  (`TakenInto`).

*Supervisor.*

* A poll reading taken before a drop and stored after its event (`lifecycle.c` 1401)
  keeps CONNECT for a whole connect debounce, so the unit connects to a dead link;
  the comment at 97 says the debounces need agreeing consecutive samples.
  `DropNeedsOutage` holds since every whole poll interval has a poll that stores a
  reading of the settled link.
* With `--default-power none`, leaving standby applies nothing and the chip stays at
  standby power (825; `README.md` 2371). `lc` has a default.
* `lc_drain_bandwidth_request()` does not mark the frame change pending (554), which the
  comment at 1547 says a renegotiation may reset, and the poll compares bandwidths only:
  after a request served on a live link the frame change may stay off until the next
  relink. Run `lc_frame` shows it, and `PROJECT.json` lists it as a finding.
  `SettingsHeld` excepts that request and a renegotiation by the chip that ends on the
  bandwidth wanted (`slipped`, until the next tuning of the link).
* The comment on `last_bandwidth` (147) says a live bandwidth change is captured;
  line 1530 and the code say it is undone.
* `LC_CHAN_PUSHES` is explained by a re-tune taking two pushes; after pushes that
  failed halfway a re-tune can start with the last one and leave the link on the
  neighbouring channel (780). A failed reading disarms the check, and two requests in
  one connection can use up the budget.
* `README.md` 2304 says a change made on the ground is saved; made just before the
  re-check it is pushed back (1527).
* A request acknowledged over HTTP is in a mailbox until the next tick (1634); a
  restart in between loses it.

*Pairing.*

* `lc_pair_persist()` and `peers_save()` ignore failed writes (`lifecycle_pair.c` 122-131,
  535-542): on a full flash an empty or short configuration takes the place of the old one
  and the pairing is reported as done, although the comment at 123 is about an empty
  configuration. `PairingSurvives` and `PeersInStep` say nothing once that has happened
  (`torn`); a list cut short is a list, of which both still hold.
* `lc_hooks_init()` ignores SIGCHLD (`lifecycle_hooks.c` 17), so `waitpid()` in
  `run_pair_tool()` fails with ECHILD and a failed pairing is reported as a success
  (`lifecycle_pair.c` 341; `README.md` 2062-2064 says the hooks follow the result).
  `run_linkctl()` (`lifecycle_http.c` 256) has the same shape. `ExitSeen` models what
  the code does; therefore the idle hook after a failed tool is never reached.
* `README.md` 2233-2235 says every paired unit is remembered; a unit paired and replaced
  before the supervisor connected to it is not.
* The long press is measured in whole seconds of the clock, so it may fire up to a
  second early (`README.md` 2065).
* A second forget request overwrites the first though both are answered with 202; with
  an unreadable `ap_mac` and an empty list nothing is pushed; a push that fails at
  startup is not repeated; a pairing over HTTP loses its thread when the process
  re-executes; the AP side may write "slotN" where the loader reads "slot".

*Bitrate.*

* On a new ring generation `run_pi()` sets `div = 1` without sending it
  (`bitrate_ctl.c` 881; the comment at 871 says all three are sent again). So
  `NeverOutruns` speaks of the divisor only until a first restart.
* A floor may be learned too high from an encoder that has restarted; the rules mode
  never learns of a restart. `FloorSound` speaks of the first run.
* A request whose answer is lost changes the encoder unseen (`http_get.c` 79-99): it runs
  faster than the controller believes after an increase, until the next request for
  the rate is answered, which a controller that sees no reason for one does not send; and
  a divisor changed unseen teaches the floor in the wrong units. `NeverOutruns` and
  `FloorSound` except the setting concerned (`enc.unheard`); `RateSettles` is about the
  controller's own rate.
* A first apply refused with 409 teaches nothing (`bitrate_ctl.h` 4-6); in PI mode a
  cut or a backlog does not mark the link congested (`bitrate_ctl.h` 242).
* `tx/main.c` clears `cfg->ring` before it frees the ring but does not wait for an
  iteration that has loaded it.

*Control.*

* A slow HTTP answer lets one burst of requests force two keyframes (`idr_ctrl.h`
  16-20). A token is recorded before the congestion check, and a request counts as
  honored even if the HTTP request fails; `KeyframeComes` holds because the viewer
  sends new tokens. A probe behind a request's HTTP call gets a late `t2`. Sidecar
  datagrams may push a stale reply, the sign of a backlog, out of the outq:
  `BacklogUnused` excuses the probes behind it.

*Driver.*

* `artosyn_do_write()` holds `tx_mutex` for one chunk and returns short, so a daemon
  frame that takes several may have the worker's frame inside (`artosyn_drv.h` and
  `doc/native-netdev.md` say frames never interleave). Only the worker's frames are
  contiguous: `NetFramesContiguous`.
* A datagram whose end was lost with a transfer is delivered with the end of a later one
  when a `DGRAM_TAIL` is in the right place (`artosyn_net.c` 377), and takes that one with
  it. `DatagramsExact` says when: the end of the first was lost.
* The direct FIFO read advances `read_offset` before the copy to the caller
  (`artosyn_sdio.c` 816); a copy that fails loses the bytes, counted nowhere.
  `DaemonStreamInOrder` knows them as lost, and says that in net mode there are none.
* The comment in `artosyn_remove()` says in-flight calls get a moment; a net-mode read
  does not set `reading`, and writers queued for `tx_mutex` are not waited for.
  `FreedWhenQuiet` says who is.
* Failures of the troot and signature sections are only logged; a zero-length signature
  with a troot would send the closing packet early.
* A late `so_open` reply can complete a later open, hence `late = 0` in `UpMeansOpen`.

*Sessions.*

* The comment in `tx/main.c` on closing all sockets says audio_tx "then has to reopen
  its own"; it reopens only when its probe fails, so its audio stays dead. `OthersSpared`
  is about the ground and about an air unit whose daemon stays.
* A SIGTERM that finds tx in the first round of `open_data_socket()` ends the attempts
  and not the rounds (598-602): tx closes all sockets on its way out, the audio program's
  too, without any outage. `Calm` excepts a tx stopped while it opens.
* Only tx counts dead writes; rx and the audio programs notice a daemon restart only
  if a probe falls into the outage, and otherwise run on with a dead socket for good.
  `VideoReturns` is about tx, `ConnectsOrExits` about programs that connect or leave.
* The audio programs do not ignore SIGPIPE. `ar8030_link_close()` publishes NULL first,
  but a thread that loaded the handle before may still use it.

## 5. What is proved

Each theorem holds for every value of the constants (sizes, wraps, depths, debounces,
tables, and all bounds on frames, faults and requests), under the assumptions the
modules name and the hypotheses given here. Every inductive invariant below was first
checked by TLC on the instance of the component's run.

**Video** (`VideoLinkProofs`)

* `FeedFacts`: what one `reassembly_feed()` can do. The other proofs use it in place
  of the definition.
* `TypeCorrect`: `Spec => []TypeOK`, one lemma per operation.
* `NoMixingHolds`: `Spec => []NoMixing`. `NoMixing` is not inductive: that a
  chunk with the right `frame_seq` belongs to the frame in progress follows only
  from where chunks can be in flight. `MixInv` adds: tx stamps chunks with the
  frame in hand (`CallInv`); video chunks in flight are in sending order, after
  what rx heard and not after the frame in hand (`LinkInv`); the frame in
  progress is the one heard last, filled up to `next_chunk_idx` (`BufInv`). Two
  frame numbers less than a wrap apart with equal remainder are equal
  (`ModSame`), which closes the argument. Assumed: `MaxOutage < SeqMod`.
* `FwdWithinBufferHolds`, from `FeedFacts` alone.
* `TxBalanceHolds`, strengthened by `SliceInv` (a slice in hand belongs to the
  open frame, a whole frame to none).
* `DeliveryHolds`: `Spec => DeliveryInOrder`, the refinement of `FrameDelivery`, where
  `Shown` maps the source frame of the first piece of what was completed last. A
  completion must show a younger picture; `OrderInv` says why it does: source frames
  do not decrease from the ring over the chunker call and the socket to the frame in
  progress, nothing of a frame follows its last piece, and all of it is younger than
  the picture shown (`RingOrder`, `RunOrder`, `LinkOrder`, `ShownOrder`). No assumption on
  the wrap is needed: a frame mixed from two runs, too, is shown once and in order.
* `MarkerExactHolds`, from `OrderInv`, `FwdWithinBuffer` and `MarkInv` (video chunks
  have bytes; a marker belongs to the picture shown last). Hypothesis
  `SlicesHaveBytes`: a streamed frame whose last slice were empty would complete
  with nothing left to put the marker on. The encoder that cuts them is outside the
  repository.
* `CompletesExactlyHolds`, in two halves.
  That a completed frame holds its picture from the first byte to the last
  (`PictureIntegrity`) needs `ContentInv`, which follows the bytes: the ring's entries are
  cut without a hole and the encoder goes on where they end (`RingCuts`); chunk 0 starts
  its source frame and each chunk goes on where the one before it ended, in the
  chunker's hands, in the socket and in the buffer (`Joined`); and the last chunk of the
  frame in hand ends where tx reads on (`InHandInv`), unless the source frame was torn by
  a flush of the ring or a restart of tx.
  That a frame which came in whole is completed (`NoFalseDrop`) needs `DropInv`, which
  follows the chunks: those of one frame are in flight by number (`FlightOrder`) and
  behind those that came in (`SeenInv`); they agree on how the frame ends, and the last
  one states it (`CountInv`); rx holds the frame heard last as far as it came in, with at
  most a payload per chunk, and has completed every frame that came in to its last
  chunk (`KeptInv`). It says nothing of a frame number used again after a tx restart
  (`SeqReused`), which a receiver of the old run may take for the frame it has.
* `OutputFaithfulHolds`. `SentInv` says what `fwd_off` and `fwd_vcl` stand for: the pieces
  of the buffer ahead of `fwd_off`, and no others, are what the stream holds under the
  frame's timestamp, and `fwd_vcl` is whether one of them is a coded slice; with nothing
  sent yet the stream is not at this timestamp. The last part is what the SEI and the
  first slice rest on, and it is not about rx alone: the stream would be at the
  timestamp already if the same source frame came in twice from its start. `StartOnce`
  excludes that along the whole path: the first bytes of a source frame are in one
  place only, and once they are past a place nothing behind it has them again.
  `ContentInv` (through `RunsOn`) then makes what went out a prefix of the source frame.
  Hypothesis `SlicesHaveBytes`, as above: with empty pieces `fwd_off` would not tell
  which of them went out.
* `CountersExactHolds`, about `dropped_frames` and `frames_lost`. The counters are compared
  with sets of frames, so the invariants follow the sets. `OverInv`: tx has no more to send
  of a frame whose last chunk is in flight, and of a completed frame nothing more comes; a
  completed frame is therefore not dropped later. `CounterInv`: which of the frames heard
  rx has given up (`NotedInv`, through `last_bad_seq`); the drops lie between the streamed
  frames abandoned and all frames not completed, the one given up counted once
  (`DropsInv`); the first and the last frame completed, the last one's `frame_seq` in
  `last_frame_seq` and the lost ones between them (`LostInv`). Assumed:
  `LossJump <= SeqMod` (1000 and 2^16): a jump that counts is shorter than a wrap.

**Supervisor** (`LifecycleProofs`, `LinkChannelProofs`)

* `LowPowerEndsHolds`. `LowInv`: on a live session the chip is at standby power only
  while `ctx.standby` says so, and between ticks an armed, cool unit is not in standby.
  Hypothesis `DefaultPower # PowerNone`; section 4 says what happens without.
* `SettingsHeldHolds`. `BwInv`: the bandwidth the loop enforces is the one on disk from
  the first tuning to the drop. `TuneInv`: whatever resets the chip's settings is a
  relink, which sits in the events or in `connect_gen` until the loop has read it;
  with none of them (`Holding`) and past the stages that tune, retx and power are the
  wanted ones and the frame change is in force, pending, due with the bandwidth the poll
  will find, or slipped (section 4). No hypothesis on the chip: any change of bandwidth
  may undo the frame change.
* `DropNeedsOutageHolds`. `OutageInv`: a link unchanged for a tick has no event
  under way, and the shared state agrees with it or the next poll is due before a
  whole interval is over. Hypothesis `PromptEvents`: the callback of an event is not
  delayed by more than a tick of a second. It needs no relation between the drop
  debounce and the poll interval.
* `PushBudgetHolds`, from `BudgetInv`: hops made and hops left add up to at most
  `ChanPushes`.
* `LastAskedSavedHolds`. A step property about the file; `SettledInv` gives it: once
  `chan_settled`, what the chip reports is the channel wanted or the one the ground
  asked for last, so the tracking saves nothing else.

**Pairing** (`PairingProofs`)

* `PairingSurvivesHolds`. `PairInv`: the configuration's content is on the flash and
  names a peer or nobody (`FilesInv`); one tool at a time is between handshake and exit,
  from its rename on the configuration names its peer and from its sync on it does so
  for good (`ToolInv`); and what was reported is in both. `PairingSurvives` alone does not
  say what a cut in the middle of `lc_pair_persist()` finds. All of it holds until a
  configuration not written as a whole takes the name (`torn`, which stays: `TornStays`);
  a write that fails before the rename, a rename that fails and a list cut short are
  covered.
* `BoardSoundHolds`. `BoardInv` counts the actions of a press against the state of the
  button thread (`ButtonInv`) and ties the reset line to the pulse (`PulseInv`). What
  whole seconds of the clock say about ticks held rests on `TimesMono`.
* `PeersInStepHolds`. `PeersInStep` speaks of the state at rest; `StepInv` says how the
  supervisor gets there from anywhere. No file, as seen or as kept, has a list without a
  configuration or a unit that was forgotten (`DiskInv`); the list about to be saved has
  none either (`SupInv`); nobody but the ground is asked to forget (`AskedInv`); once the
  start is over and unless a tool is between its rename and the chip, the chip knows the
  configuration's peer (`ToldInv`); and its candidates are those of one push, for the list
  there is and some peer not forgotten (`PushedInv`). That peer need not be the one in the
  configuration now: a tool may have renamed a new one into place since, which is why the
  oldest of a full list may be missing. The rest is about lists: what `Without`,
  `Remember` and `Effective` keep, in which order, and that they never exceed the list
  (`WithoutFacts`, `RememberFacts`, `EffectiveFacts`, `PushServes`). Assumed of what a unit
  kept (`Stored`): no list without a configuration, which is what `DiskInv` preserves.
  The attempt to prove it showed that a list of two is too short an instance: there the
  part about remembered units says nothing beyond the current peer, and the cut that
  loses the configuration but not the list went unseen. The run has a list of three since.

**Clock** (`ControlPathProofs`)

* `ClockTrustedHolds` and `NoFalseResetHolds`, both from `PathInv`, whose three parts say why
  a sample may be trusted.
  * `QueueInv`: a probe of a backlog whose own round trip is short enough to pass has the
    stale one ahead of it, in its own queue or in one that is ahead (`Guarded`), until the
    ground has heard of it and calls every probe under way old, or until the reply to it is
    lost. It is the older one that is stuck because who was sent first has waited longer
    (`Waited`), and the outq and the socket keep the order (`FlushReplies`). So what comes off
    the stream, neither stale nor old, is of no backlog (`SampleFacts`).
  * `BootInv`: replies that are not stale come in the order of the boots whose clock they
    tell, none of a boot to come.
  * `WinInv`: the samples of the window are of one boot, no later than what comes, with
    errors their round trips bound (`Honest`). For two such samples the threshold of
    `clock_sync_on_reply()` is crossed exactly when their boots differ (`JumpFacts`), so the
    window starts over at the first sample of a boot (`AddFacts`) and never otherwise; and
    the sample of the smallest round trip, whichever it is, exists and is of that boot
    (`Least`, `BestFacts`).

  Assumed: a reboot moves the clock by more than three round trip bounds and the slack
  (`ClockAssumption`).

**Driver and sessions** (`SdioDriverProofs`, `NetDeviceProofs`, `LinkSessionProofs`)

* `FirmwareSoundHolds`. `FwInv` says what the ROM holds of each section while a push is
  under way: nothing of those ahead, the current one up to the offset, those behind
  whole unless `artosyn_fw_push()` only logs their failure. That a packet with its header
  goes through one transfer uncut, and stays within its section, is arithmetic on
  whole blocks (`WholeBlocks`, `FwChunkFacts`), for any block size.
* `RemovalCleanHolds`. `LockInv`: a writer is past `tx_mutex` exactly when it owns it, so
  the removal, which takes the mutex, finds nobody inside.
* `NetFramesContiguousHolds`, the first part of `StreamsWhole`. `FrameInv`: while the worker
  holds `tx_mutex` the blocks of its frame are the end of the wire, and before that
  there are none.

* `UpMeansOpenHolds`. `NetInv`: while `ndo_open` waits, its `so_open` is the last control
  frame of the FIFO, or its reply the only one under way, or the reply was seen; a
  good one means an open socket from then on (`WaitInv`).
* `FreshSlotHolds` and `OthersSparedHolds`, both from `SessionInv`: what a program has
  seen since it connected covers the peer there is and the slot it chose (`SlotInv`);
  without an outage or a crash the ports taken are those of the live sockets and
  attempts fail only by refusal (`PortInv`), so tx comes to its second round by a stop or
  by as many refusals as attempts.

Only model-checked, and why:

* Liveness (`QueuesServed`, `LinkServed`, `LinkReachesChannel`, `NobodyStuck`,
  `SendingResumes`, `RateSettles`, `PairingSettles`, `KeyframeComes`, `SessionsReturn`,
  `Drains`): out of the prover's reach.
* `ChunksAsSent`, `NothingLost`, `DatagramsExact` and the rest of `StreamsWhole`: what a
  recursive function or a fold over a sequence computes for every input needs
  induction over data.
* `BeliefsTrue`, `SignalsTrue`: the controllers are one recursive local function
  after the other.

## 6. Not modelled

`linkctl/`, `still/`, `tools/` and log formatting (one-shot or without state);
request parsing, JSON and telemetry sampling; register and mailbox ioctls, sysfs, MAC
and MTU settings; several open descriptors of `/dev/artosyn_sdio`; the subscriber table
of the sidecar server; the shared-memory protocol of the vendored frame ring; clock
drift; ALSA; the ground's part in a channel change; a slot fixed with `-s`; a peer list
whose fsync alone failed before a power cut; use of the device handle by other threads
while it is replaced.

## 7. Plan

Every safety property the runs check of the video, the supervisor, pairing, the clock and
the sessions is proved. What is left needs induction over data, of which the provers have
only the least element of a set of numbers (`Least`): the byte streams of `ChunkStream` and
`SdioDriver`, and the controllers of `BitrateCtl`. Liveness stays with TLC.
