---- MODULE NetDevice ----
(***************************************************************************)
(* kmod/artosyn_net.c: the network interface over one chip socket.  The    *)
(* stack (ndo_open, ndo_stop and ndo_start_xmit, which the kernel never    *)
(* runs at the same time as ndo_stop), the transmit worker, and the        *)
(* receive drain that delivers the chip's replies.  artosyn_write_all() is *)
(* what SdioDriver shows it to be: one frame, whole, in order, or an error. *)
(*                                                                         *)
(* The chip's socket is external, as the reply codes of net_rx_write_ack() *)
(* and doc/native-netdev.md describe it: it takes the bytes at the stream  *)
(* position it expects; when its buffer is full it answers PENDING with    *)
(* that position, and WANTED when a write is for another position.  Every  *)
(* packet is one unit long and positions count modulo PosMod.              *)
(***************************************************************************)
EXTENDS Integers, Sequences

CONSTANTS StopLen,     \* NET_TXQ_STOP
          WakeLen,     \* NET_TXQ_WAKE
          PosMod,      \* positions are taken modulo this
          MaxLead,     \* bound: how far wr_index runs ahead of the chip
          MaxFlight,   \* bound: frames and replies under way
          MaxLate,     \* bound: opens whose reply comes after the timeout
          MaxErrors    \* bound: failed writes, refused opens and lost replies

ASSUME NetAssumption ==
    /\ StopLen \in Nat \ {0} /\ WakeLen \in 1..StopLen
    /\ MaxFlight \in Nat \ {0} /\ PosMod \in Nat /\ MaxLead \in Nat /\ PosMod > MaxLead + MaxFlight
    /\ MaxLate \in Nat /\ MaxErrors \in Nat

VARIABLES
    up,        \* the interface is up: ndo_open returned 0 (netif_running)
    ctl,       \* the stack's control call: "none", "opening", "waiting", "stopping", "closing"
    sockOpen,  \* net->sock_open
    wrIndex,   \* net->wr_index
    openSta,   \* net->open_sta with its completion: "none" or the status that completed it
    stopped,   \* netif_queue_stopped
    txq,       \* length of net->txq
    xmit,      \* ndo_start_xmit: "none", "stop", "kick"
    work,      \* tx_work: "idle", "loop", "send", "final"
    pending,   \* tx_work is queued
    toChip,    \* frames in the FIFO
    toHost,    \* replies under way
    chip,      \* external: open, pos (position expected), full
    verdict,   \* what the chip did with the last so_write: "none", "taken", "refused"
    late, errors

vars == <<up, ctl, sockOpen, wrIndex, openSta, stopped, txq, xmit, work, pending, toChip, toHost,
          chip, verdict, late, errors>>

Init ==
    /\ up = FALSE /\ ctl = "none" /\ sockOpen = FALSE /\ wrIndex = 0 /\ openSta = "none"
    /\ stopped = FALSE /\ txq = 0 /\ xmit = "none" /\ work = "idle"
    /\ pending = FALSE /\ toChip = <<>> /\ toHost = <<>>
    /\ chip = [open |-> FALSE, pos |-> 0, full |-> FALSE]
    /\ verdict = "none" /\ late = 0 /\ errors = 0

Room == Len(toChip) + Len(toHost) < MaxFlight
Error == errors < MaxErrors /\ errors' = errors + 1
Advance(p) == (p + 1) % PosMod

\* The stream position after a frame.  Positions wrap early here, so one that has run far
\* ahead stays there instead of coming back into step by wrapping.
AdvanceWr == IF (wrIndex - chip.pos) % PosMod = MaxLead THEN wrIndex ELSE Advance(wrIndex)

-----------------------------------------------------------------------------
\* ndo_start_xmit, three steps other threads can come between

\* A packet: dropped unless the socket is open, else queued.
Xmit ==
    /\ up /\ ctl = "none" /\ xmit = "none" /\ ~stopped
    /\ sockOpen
    /\ txq' = txq + 1
    /\ xmit' = IF txq + 1 >= StopLen THEN "stop" ELSE "kick"
    /\ UNCHANGED <<up, ctl, sockOpen, wrIndex, openSta, stopped, work, pending, toChip, toHost,
                   chip, verdict, late, errors>>

\* netif_stop_queue() on a full queue ...
XmitStop ==
    /\ xmit = "stop" /\ xmit' = "kick" /\ stopped' = TRUE
    /\ UNCHANGED <<up, ctl, sockOpen, wrIndex, openSta, txq, work, pending, toChip, toHost, chip,
                   verdict, late, errors>>

\* ... and always queue_work() last.
XmitKick ==
    /\ xmit = "kick" /\ xmit' = "none" /\ pending' = TRUE
    /\ UNCHANGED <<up, ctl, sockOpen, wrIndex, openSta, stopped, txq, work, toChip, toHost, chip,
                   verdict, late, errors>>

-----------------------------------------------------------------------------
\* net_tx_work()

WorkStart ==
    /\ pending /\ work = "idle"
    /\ pending' = FALSE /\ work' = "loop"
    /\ UNCHANGED <<up, ctl, sockOpen, wrIndex, openSta, stopped, txq, xmit, toChip, toHost, chip,
                   verdict, late, errors>>

\* skb_dequeue(): a packet, or the end of the loop.
WorkDequeue ==
    /\ work = "loop"
    /\ IF txq = 0 THEN work' = "final" /\ UNCHANGED txq
       ELSE work' = "send" /\ txq' = txq - 1
    /\ UNCHANGED <<up, ctl, sockOpen, wrIndex, openSta, stopped, xmit, pending, toChip, toHost,
                   chip, verdict, late, errors>>

\* net_build_frame(): the frame takes the position, which moves on before the write.
BuildFrame == [op |-> "write", pos |-> wrIndex]

\* Wake the queue when it has drained far enough; build the frame; artosyn_write_all() puts
\* it into the FIFO or loses it.
WorkSend ==
    /\ work = "send" /\ work' = "loop"
    /\ stopped' = (stopped /\ txq >= WakeLen)
    /\ wrIndex' = AdvanceWr
    /\ \/ Room /\ toChip' = Append(toChip, BuildFrame) /\ UNCHANGED errors
       \/ Error /\ UNCHANGED toChip
    /\ UNCHANGED <<up, ctl, sockOpen, openSta, txq, xmit, pending, toHost, chip, verdict, late>>

WorkFinalNoWake ==
    /\ work = "final" /\ work' = "idle" /\ UNCHANGED stopped
    /\ UNCHANGED <<up, ctl, sockOpen, wrIndex, openSta, txq, xmit, pending, toChip, toHost, chip,
                   verdict, late, errors>>

\* After the loop, whatever is stopped is woken.
WorkFinal ==
    /\ work = "final" /\ work' = "idle" /\ stopped' = FALSE
    /\ UNCHANGED <<up, ctl, sockOpen, wrIndex, openSta, txq, xmit, pending, toChip, toHost, chip,
                   verdict, late, errors>>

Work == WorkStart \/ WorkDequeue \/ WorkSend \/ WorkFinal

-----------------------------------------------------------------------------
\* net_send_ctl(): so_open and so_close are written like any frame, and the write may fail.
SendCtl(op) == Room /\ toChip' = Append(toChip, [op |-> op]) /\ UNCHANGED errors
SendCtlFails == Error /\ UNCHANGED toChip

\* ndo_open: fresh stream, claim the replies, send so_open ...
NetOpen ==
    /\ ctl = "none" /\ ~up /\ xmit = "none"
    /\ wrIndex' = 0 /\ openSta' = "none" /\ sockOpen' = TRUE /\ ctl' = "opening"
    /\ UNCHANGED <<up, stopped, txq, xmit, work, pending, toChip, toHost, chip, verdict, late, errors>>

OpenSend ==
    /\ ctl = "opening"
    /\ \/ SendCtl("open") /\ ctl' = "waiting" /\ UNCHANGED sockOpen
       \/ SendCtlFails /\ ctl' = "none" /\ sockOpen' = FALSE
    /\ UNCHANGED <<up, wrIndex, openSta, stopped, txq, xmit, work, pending, toHost, chip, verdict, late>>

OpenUp == up' = TRUE /\ stopped' = FALSE /\ UNCHANGED sockOpen
OpenRefused == sockOpen' = FALSE /\ UNCHANGED <<up, stopped>>

OpenReplyUnread ==
    /\ ctl = "waiting" /\ openSta # "none" /\ ctl' = "none"
    /\ OpenUp
    /\ UNCHANGED <<wrIndex, openSta, txq, xmit, work, pending, toChip, toHost, chip, verdict, late,
                   errors>>

\* ... and wait for the reply.  "Already open" is taken for success, anything else but 0
\* refuses; no reply in time is taken for success too.
OpenReply ==
    /\ ctl = "waiting" /\ openSta # "none" /\ ctl' = "none"
    /\ IF openSta \in {"ok", "already"} THEN OpenUp ELSE OpenRefused
    /\ UNCHANGED <<wrIndex, openSta, txq, xmit, work, pending, toChip, toHost, chip, verdict, late,
                   errors>>
OpenTimeout ==
    /\ ctl = "waiting" /\ openSta = "none" /\ late < MaxLate
    /\ late' = late + 1 /\ ctl' = "none" /\ OpenUp
    /\ UNCHANGED <<wrIndex, openSta, txq, xmit, work, pending, toChip, toHost, chip, verdict, errors>>

\* ndo_stop: stop the queue and the claim, wait for the worker, purge, send so_close.
NetStop ==
    /\ ctl = "none" /\ up /\ xmit = "none"
    /\ ctl' = "stopping" /\ up' = FALSE /\ stopped' = TRUE /\ sockOpen' = FALSE
    /\ UNCHANGED <<wrIndex, openSta, txq, xmit, work, pending, toChip, toHost, chip, verdict, late,
                   errors>>
StopCancel ==
    /\ ctl = "stopping" /\ work = "idle"
    /\ pending' = FALSE /\ txq' = 0 /\ ctl' = "closing"
    /\ UNCHANGED <<up, sockOpen, wrIndex, openSta, stopped, xmit, work, toChip, toHost, chip,
                   verdict, late, errors>>
StopSend ==
    /\ ctl = "closing" /\ ctl' = "none"
    /\ SendCtl("close") \/ SendCtlFails
    /\ UNCHANGED <<up, sockOpen, wrIndex, openSta, stopped, txq, xmit, work, pending, toHost, chip,
                   verdict, late>>

Control == NetOpen \/ OpenSend \/ OpenReply \/ OpenTimeout \/ NetStop \/ StopCancel \/ StopSend

-----------------------------------------------------------------------------
WriteAckPendingOnly(f) == IF f.sta = "pending" THEN f.pos ELSE wrIndex

\* net_rx_write_ack(): the stream position follows the chip's.
WriteAck(f) == IF f.sta \in {"pending", "wanted"} THEN f.pos ELSE wrIndex

\* net_rx_frame() for the reply at the head; a reply that comes while the socket is not
\* claimed goes to the daemon.
Rx ==
    /\ toHost # <<>> /\ toHost' = Tail(toHost)
    /\ LET f == Head(toHost)
       IN  \/ /\ wrIndex' = IF sockOpen /\ f.op = "write" THEN WriteAck(f) ELSE wrIndex
              /\ openSta' = IF sockOpen /\ f.op = "open" THEN f.sta ELSE openSta
              /\ UNCHANGED errors
           \/ /\ Error /\ UNCHANGED <<wrIndex, openSta>>
    /\ UNCHANGED <<up, ctl, sockOpen, stopped, txq, xmit, work, pending, toChip, chip, verdict, late>>

-----------------------------------------------------------------------------
\* The chip (external)

ChipTake ==
    /\ toChip # <<>> /\ toChip' = Tail(toChip)
    /\ LET f == Head(toChip)
       IN  CASE f.op = "open" ->
                  /\ \/ /\ chip' = IF chip.open THEN chip ELSE [chip EXCEPT !.open = TRUE, !.pos = 0]
                        /\ toHost' = Append(toHost, [op |-> "open",
                                               sta |-> IF chip.open THEN "already" ELSE "ok"])
                        /\ UNCHANGED errors
                     \/ /\ ~chip.open /\ Error
                        /\ toHost' = Append(toHost, [op |-> "open", sta |-> "refused"])
                        /\ UNCHANGED chip
                  /\ UNCHANGED verdict
             [] f.op = "close" ->
                  /\ chip' = [chip EXCEPT !.open = FALSE] /\ UNCHANGED <<toHost, verdict, errors>>
             [] OTHER ->
                  /\ UNCHANGED errors
                  /\ IF ~chip.open
                     THEN UNCHANGED <<chip, toHost>> /\ verdict' = "refused"
                     ELSE IF f.pos = chip.pos /\ ~chip.full
                     THEN /\ chip' = [chip EXCEPT !.pos = Advance(@), !.full = TRUE]
                          /\ toHost' = Append(toHost, [op |-> "write", sta |-> "ok", pos |-> f.pos])
                          /\ verdict' = "taken"
                     ELSE /\ toHost' = Append(toHost, [op |-> "write", pos |-> chip.pos,
                                  sta |-> IF f.pos = chip.pos THEN "pending" ELSE "wanted"])
                          /\ verdict' = "refused" /\ UNCHANGED chip
    /\ UNCHANGED <<up, ctl, sockOpen, wrIndex, openSta, stopped, txq, xmit, work, pending, late>>

\* The radio drains the chip's buffer.
ChipDrain ==
    /\ chip.full /\ chip' = [chip EXCEPT !.full = FALSE]
    /\ UNCHANGED <<up, ctl, sockOpen, wrIndex, openSta, stopped, txq, xmit, work, pending, toChip,
                   toHost, verdict, late, errors>>

Next == Xmit \/ XmitStop \/ XmitKick \/ Work \/ Control \/ Rx \/ ChipTake \/ ChipDrain

Spec == Init /\ [][Next]_vars

\* The worker, the drain, the stack's calls and the chip all keep going; packets, ifup and
\* ifdown come when they like.
FairSpec ==
    /\ Spec
    /\ WF_vars(XmitStop \/ XmitKick) /\ WF_vars(Work)
    /\ WF_vars(OpenSend \/ OpenReply \/ OpenTimeout \/ StopCancel \/ StopSend)
    /\ WF_vars(Rx) /\ WF_vars(ChipTake) /\ WF_vars(ChipDrain)

-----------------------------------------------------------------------------
Positions == 0..(PosMod - 1)
\* The interface's flags, the stream position and the queue bound.
TypeOK ==
    /\ {up, sockOpen, stopped, pending} \subseteq BOOLEAN
    /\ ctl \in {"none", "opening", "waiting", "stopping", "closing"}
    /\ wrIndex \in Positions /\ openSta \in {"none", "ok", "already", "refused"}
    /\ txq \in 0..(StopLen + 1) /\ xmit \in {"none", "stop", "kick"}
    /\ work \in {"idle", "loop", "send", "final"}
    /\ chip \in [open : BOOLEAN, pos : Positions, full : BOOLEAN]
    /\ verdict \in {"none", "taken", "refused"}
    /\ up => sockOpen

\* A stopped queue is woken again while the interface stays up: the worker's last look at
\* the queue, netif_stop_queue() and queue_work() may come in any order.
QueueWoken == up /\ stopped ~> (~up \/ ~stopped)

\* If every so_open was answered in time, an interface that is up has its socket open in
\* the chip, also after failed closes, refusals and an open that found the socket open.
UpMeansOpen == late = 0 /\ up => chip.open

\* If packets keep being sent on an open socket, the chip keeps taking some of them: after a
\* failed write, a full buffer, a lost reply or an open that found the socket in use, the
\* position comes back in step although replies to older writes are still under way.
StreamRecovers ==
    (<>[](up /\ chip.open) /\ []<><<WorkSend>>_vars) => []<>(verdict = "taken")

\* Whatever went wrong, an interface that stays up goes on sending: net_xmit(), net_tx_work()
\* and the write replies together.
SendingResumes == QueueWoken /\ StreamRecovers
====
