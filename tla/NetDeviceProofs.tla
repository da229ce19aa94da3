-------------------------- MODULE NetDeviceProofs --------------------------
(***************************************************************************)
(* UpMeansOpen for every value of the constants of NetDevice, along an     *)
(* invariant of the open and close frames under way and their replies.     *)
(***************************************************************************)
EXTENDS NetDevice, TLAPS

-----------------------------------------------------------------------------
(* The inductive invariant *)

Frames == [op : {"open", "close"}] \cup [op : {"write"}, pos : Nat]
Replies ==
    [op : {"open"}, sta : {"ok", "already", "refused"}]
        \cup [op : {"write"}, sta : {"ok", "pending", "wanted"}, pos : Nat]

Types ==
    /\ wrIndex \in Nat /\ late \in Nat /\ up \in BOOLEAN
    /\ chip \in [open : BOOLEAN, pos : Nat, full : BOOLEAN]
    /\ toChip \in Seq(Frames) /\ toHost \in Seq(Replies)

\* No control frame is under way; no so_open; no reply to one.
NoCtl == \A i \in 1..Len(toChip) : toChip[i].op = "write"
NoOpen == \A i \in 1..Len(toChip) : toChip[i].op # "open"
NoReply == \A i \in 1..Len(toHost) : toHost[i].op # "open"

Good == {"ok", "already"}

\* While ndo_open waits, its so_open is the last control frame of the FIFO, or its reply the only
\* one under way, or the reply has been seen; a good reply means an open socket from then on.
WaitInv ==
    /\ ~NoOpen => openSta = "none" /\ NoReply
    /\ \A i \in 1..Len(toChip) : \A j \in 1..Len(toChip) :
          toChip[i].op = "open" /\ i < j => toChip[j].op = "write"
    /\ ~NoReply => openSta = "none" /\ NoCtl
    /\ \A i \in 1..Len(toHost) : toHost[i].op = "open" =>
          /\ toHost[i].sta \in Good => chip.open
          /\ \A j \in 1..Len(toHost) : toHost[j].op = "open" => j = i
    /\ openSta # "none" => NoCtl /\ (openSta \in Good => chip.open)

\* Without a timeout no reply outlives the call that waits for it.
OpenInv ==
    late = 0 =>
        /\ up => ctl = "none" /\ chip.open /\ NoCtl
        /\ ctl # "waiting" => NoOpen /\ NoReply
        /\ ctl = "opening" => openSta = "none"
        /\ ctl = "waiting" => WaitInv

NetInv == Types /\ OpenInv

-----------------------------------------------------------------------------
(* Its proof *)

\* A queue with one more element.
LEMMA Appended ==
  ASSUME NEW S, NEW q \in Seq(S), NEW f \in S, NEW r, r = Append(q, f)
  PROVE  /\ r \in Seq(S) /\ Len(r) = Len(q) + 1 /\ Len(q) \in Nat /\ r[Len(q) + 1] = f
         /\ \A i \in 1..Len(q) : r[i] = q[i]
         /\ \A i \in 1..Len(r) : i \in 1..Len(q) \/ i = Len(q) + 1
  OBVIOUS

\* A queue whose head is taken.
LEMMA Taken ==
  ASSUME NEW S, NEW q \in Seq(S), q # <<>>, NEW r, r = Tail(q)
  PROVE  /\ r \in Seq(S) /\ Len(q) \in Nat \ {0} /\ Len(r) = Len(q) - 1
         /\ Head(q) = q[1] /\ q[1] \in S
         /\ \A i \in 1..Len(r) : r[i] = q[i + 1] /\ i + 1 \in 1..Len(q)
  OBVIOUS

\* The interface is down and nothing is under way.
LEMMA InitNet == Init => NetInv
<1> SUFFICES ASSUME Init PROVE NetInv  OBVIOUS
<1>1. Types
  <2>1. toChip \in Seq(Frames) /\ toHost \in Seq(Replies)  BY DEF Init
  <2>2. chip \in [open : BOOLEAN, pos : Nat, full : BOOLEAN]  BY DEF Init
  <2> QED BY <2>1, <2>2 DEF Init, Types
<1>2. Len(toChip) = 0 /\ Len(toHost) = 0 /\ ~up /\ ctl = "none"  BY DEF Init
<1>3. OpenInv  BY <1>2 DEF OpenInv, NoOpen, NoReply
<1> QED BY <1>1, <1>3 DEF NetInv

\* A step that leaves the call, its result and the queues alone, or only adds a so_write.
LEMMA WriteKeeps ==
  ASSUME NetInv, UNCHANGED <<up, ctl, openSta, late, toHost>>, chip'.open = chip.open,
         toChip' = toChip \/ \E p \in Nat : toChip' = Append(toChip, [op |-> "write", pos |-> p])
  PROVE  OpenInv' /\ toChip' \in Seq(Frames)
<1>1. Types /\ OpenInv  BY DEF NetInv
<1>2. CASE toChip' = toChip
  BY <1>1, <1>2 DEF OpenInv, WaitInv, NoCtl, NoOpen, NoReply, Types
<1>3. CASE \E p \in Nat : toChip' = Append(toChip, [op |-> "write", pos |-> p])
  <2>1. PICK p \in Nat : toChip' = Append(toChip, [op |-> "write", pos |-> p])  BY <1>3
  <2>2. PICK f : f = [op |-> "write", pos |-> p]  OBVIOUS
  <2>3. f \in Frames /\ f.op = "write"  BY <2>2 DEF Frames
  <2>4. toChip \in Seq(Frames) /\ toChip' = Append(toChip, f)  BY <1>1, <2>1, <2>2 DEF Types
  <2>5. /\ toChip' \in Seq(Frames) /\ Len(toChip') = Len(toChip) + 1 /\ Len(toChip) \in Nat
        /\ toChip'[Len(toChip) + 1] = f
        /\ \A i \in 1..Len(toChip) : toChip'[i] = toChip[i]
        /\ \A i \in 1..Len(toChip') : i \in 1..Len(toChip) \/ i = Len(toChip) + 1
    BY <2>3, <2>4, Appended
  <2>6. 1..Len(toChip) \subseteq 1..Len(toChip')  BY <2>5
  <2>7. (NoCtl' <=> NoCtl) /\ (NoOpen' <=> NoOpen) /\ (NoReply' <=> NoReply)
    BY <2>3, <2>5, <2>6 DEF NoCtl, NoOpen, NoReply
  <2>8. ASSUME WaitInv PROVE WaitInv'
    <3>1. ASSUME NEW i \in 1..Len(toChip'), NEW j \in 1..Len(toChip'), toChip'[i].op = "open", i < j
          PROVE  toChip'[j].op = "write"
      <4>1. i \in 1..Len(toChip) /\ toChip[i].op = "open"  BY <2>3, <2>5, <3>1
      <4>2. CASE j \in 1..Len(toChip)  BY <2>5, <2>8, <3>1, <4>1, <4>2 DEF WaitInv
      <4>3. CASE j = Len(toChip) + 1  BY <2>3, <2>5, <4>3
      <4> QED BY <2>5, <4>2, <4>3
    <3>2. /\ \A i \in 1..Len(toHost') : toHost'[i].op = "open" =>
                /\ toHost'[i].sta \in Good => chip'.open
                /\ \A j \in 1..Len(toHost') : toHost'[j].op = "open" => j = i
          /\ openSta' # "none" => NoCtl' /\ (openSta' \in Good => chip'.open)
          /\ ~NoOpen' => openSta' = "none" /\ NoReply'
          /\ ~NoReply' => openSta' = "none" /\ NoCtl'
      BY <2>7, <2>8 DEF WaitInv
    <3> QED BY <3>1, <3>2 DEF WaitInv
  <2>9. OpenInv'  BY <1>1, <2>7, <2>8 DEF OpenInv
  <2> QED BY <2>5, <2>9
<1> QED BY <1>2, <1>3

\* The transmit side: packets queue up and go out behind the control frames.
LEMMA WorkNet ==
  ASSUME NetInv, Xmit \/ XmitStop \/ XmitKick \/ Work \/ ChipDrain
  PROVE  NetInv'
<1>1. Types  BY DEF NetInv
<1>2. CASE WorkSend
  <2>1. UNCHANGED <<up, ctl, openSta, late, toHost, chip>> /\ wrIndex' = AdvanceWr  BY <1>2 DEF WorkSend
  <2>2. toChip' = toChip \/ \E p \in Nat : toChip' = Append(toChip, [op |-> "write", pos |-> p])
    BY <1>1, <1>2 DEF WorkSend, BuildFrame, Types
  <2>3. wrIndex' \in Nat
    <3>1. PosMod \in Nat \ {0}  BY NetAssumption
    <3>2. (wrIndex + 1) % PosMod \in Nat  BY <1>1, <3>1 DEF Types
    <3>3. wrIndex' = wrIndex \/ wrIndex' = (wrIndex + 1) % PosMod  BY <2>1 DEF AdvanceWr, Advance
    <3> QED BY <1>1, <3>2, <3>3 DEF Types
  <2>4. OpenInv' /\ toChip' \in Seq(Frames)  BY <2>1, <2>2, WriteKeeps
  <2> QED BY <1>1, <2>1, <2>3, <2>4 DEF NetInv, Types
<1>3. CASE ChipDrain
  <2>1. /\ UNCHANGED <<up, ctl, openSta, late, toHost, toChip, wrIndex>>
        /\ chip' = [chip EXCEPT !.full = FALSE]
    BY <1>3 DEF ChipDrain
  <2>2. chip'.open = chip.open /\ chip' \in [open : BOOLEAN, pos : Nat, full : BOOLEAN]
    BY <1>1, <2>1 DEF Types
  <2>3. OpenInv'  BY <2>1, <2>2, WriteKeeps
  <2> QED BY <1>1, <2>1, <2>2, <2>3 DEF NetInv, Types
<1>4. CASE Xmit \/ XmitStop \/ XmitKick \/ WorkStart \/ WorkDequeue \/ WorkFinal
  <2>1. UNCHANGED <<up, ctl, openSta, late, toHost, toChip, wrIndex, chip>>
    BY <1>4 DEF Xmit, XmitStop, XmitKick, WorkStart, WorkDequeue, WorkFinal
  <2>2. OpenInv'  BY <2>1, WriteKeeps
  <2> QED BY <1>1, <2>1, <2>2 DEF NetInv, Types
<1> QED BY <1>2, <1>3, <1>4 DEF Work

\* ndo_open and ndo_stop.
LEMMA ControlNet ==
  ASSUME NetInv, Control
  PROVE  NetInv'
<1>1. Types /\ OpenInv /\ toChip \in Seq(Frames)  BY DEF NetInv, Types
<1>2. UNCHANGED <<toHost, chip>>
  BY DEF Control, NetOpen, OpenSend, OpenReply, OpenTimeout, NetStop, StopCancel, StopSend
<1>3. ASSUME NEW op \in {"open", "close"}, SendCtl(op)
      PROVE  /\ toChip' \in Seq(Frames) /\ Len(toChip') = Len(toChip) + 1 /\ Len(toChip) \in Nat
             /\ toChip'[Len(toChip) + 1].op = op
             /\ \A i \in 1..Len(toChip) : toChip'[i] = toChip[i]
             /\ \A i \in 1..Len(toChip') : i \in 1..Len(toChip) \/ i = Len(toChip) + 1
  <2>1. PICK f : f = [op |-> op]  OBVIOUS
  <2>2. f \in Frames /\ f.op = op  BY <2>1 DEF Frames
  <2>3. toChip' = Append(toChip, f)  BY <1>3, <2>1 DEF SendCtl
  <2> QED BY <1>1, <2>2, <2>3, Appended
<1>4. CASE NetOpen
  <2>1. /\ UNCHANGED <<up, toChip, late>> /\ ctl = "none" /\ ~up /\ ctl' = "opening" /\ openSta' = "none"
        /\ wrIndex' = 0
    BY <1>4 DEF NetOpen
  <2>2. OpenInv'  BY <1>1, <1>2, <2>1 DEF OpenInv, NoOpen, NoReply
  <2> QED BY <1>1, <1>2, <2>1, <2>2 DEF NetInv, Types
<1>5. CASE OpenSend
  <2>1. UNCHANGED <<up, late, openSta, wrIndex>> /\ ctl = "opening"  BY <1>5 DEF OpenSend
  <2>2. CASE SendCtl("open") /\ ctl' = "waiting"
    <3>1. SUFFICES ASSUME late = 0 PROVE NetInv'
      BY <1>1, <1>2, <1>3, <2>1, <2>2 DEF NetInv, Types, OpenInv
    <3>2. ~up /\ openSta = "none" /\ NoOpen /\ NoReply  BY <1>1, <2>1, <3>1 DEF OpenInv
    <3>3. NoReply'  BY <1>2, <3>2 DEF NoReply
    <3>4. ASSUME NEW i \in 1..Len(toChip'), NEW j \in 1..Len(toChip'), toChip'[i].op = "open", i < j
          PROVE  FALSE
      <4>1. i = Len(toChip) + 1  BY <1>3, <2>2, <3>2, <3>4 DEF NoOpen
      <4>2. Len(toChip') = Len(toChip) + 1 /\ Len(toChip) \in Nat  BY <1>3, <2>2
      <4> QED BY <3>4, <4>1, <4>2
    <3>5. WaitInv'  BY <2>1, <3>2, <3>3, <3>4 DEF WaitInv, NoReply
    <3>6. OpenInv'  BY <2>1, <2>2, <3>2, <3>5 DEF OpenInv
    <3> QED BY <1>1, <1>2, <1>3, <2>1, <2>2, <3>6 DEF NetInv, Types
  <2>3. CASE SendCtlFails /\ ctl' = "none"
    <3>1. toChip' = toChip  BY <2>3 DEF SendCtlFails
    <3>2. OpenInv'  BY <1>1, <1>2, <2>1, <2>3, <3>1 DEF OpenInv, NoOpen, NoReply, NoCtl
    <3> QED BY <1>1, <1>2, <2>1, <3>1, <3>2 DEF NetInv, Types
  <2> QED BY <1>5, <2>2, <2>3 DEF OpenSend
<1>6. CASE OpenReply
  <2>1. /\ UNCHANGED <<toChip, late, openSta, wrIndex>> /\ ctl = "waiting" /\ ctl' = "none" /\ openSta # "none"
        /\ IF openSta \in Good THEN up' = TRUE ELSE up' = up
    BY <1>6 DEF OpenReply, OpenUp, OpenRefused, Good
  <2>2. ASSUME late = 0 PROVE WaitInv /\ ~up  BY <1>1, <2>1, <2>2 DEF OpenInv
  <2>3. ASSUME late = 0
        PROVE  NoOpen /\ NoReply /\ NoCtl /\ (openSta \in Good => chip.open)
    BY <2>1, <2>2, <2>3 DEF WaitInv
  <2>4. (NoOpen' <=> NoOpen) /\ (NoReply' <=> NoReply) /\ (NoCtl' <=> NoCtl)
    BY <1>2, <2>1 DEF NoOpen, NoReply, NoCtl
  <2>5. OpenInv'  BY <1>2, <2>1, <2>2, <2>3, <2>4 DEF OpenInv
  <2>6. up' \in BOOLEAN  BY <1>1, <2>1 DEF Types
  <2> QED BY <1>1, <1>2, <2>1, <2>5, <2>6 DEF NetInv, Types
<1>7. CASE OpenTimeout
  <2>1. UNCHANGED <<toChip, wrIndex>> /\ late' = late + 1 /\ up' = TRUE  BY <1>7 DEF OpenTimeout, OpenUp
  <2>2. late' \in Nat /\ late' # 0  BY <1>1, <2>1 DEF Types
  <2> QED BY <1>1, <1>2, <2>1, <2>2 DEF NetInv, Types, OpenInv
<1>8. CASE NetStop \/ StopCancel
  <2>1. /\ UNCHANGED <<toChip, late, openSta, wrIndex>> /\ ctl \in {"none", "stopping"}
        /\ ctl' \in {"stopping", "closing"} /\ up' \in {FALSE, up} /\ (ctl = "none" => up' = FALSE)
    BY <1>8 DEF NetStop, StopCancel
  <2>2. (NoOpen' <=> NoOpen) /\ (NoReply' <=> NoReply)  BY <1>2, <2>1 DEF NoOpen, NoReply
  <2>3. ASSUME late = 0 PROVE ~up'  BY <1>1, <2>1, <2>3 DEF OpenInv, Types
  <2>4. OpenInv'  BY <1>1, <2>1, <2>2, <2>3 DEF OpenInv
  <2>5. up' \in BOOLEAN  BY <1>1, <2>1 DEF Types
  <2> QED BY <1>1, <1>2, <2>1, <2>4, <2>5 DEF NetInv, Types
<1>9. CASE StopSend
  <2>1. UNCHANGED <<up, late, openSta, wrIndex>> /\ ctl = "closing" /\ ctl' = "none"  BY <1>9 DEF StopSend
  <2>2. toChip' \in Seq(Frames) /\ (NoOpen => NoOpen')
    <3>1. CASE SendCtl("close")
      <4>1. NoOpen => NoOpen'  BY <1>3, <3>1 DEF NoOpen
      <4> QED BY <1>3, <3>1, <4>1
    <3>2. CASE SendCtlFails  BY <1>1, <3>2 DEF SendCtlFails, NoOpen
    <3> QED BY <1>9, <3>1, <3>2 DEF StopSend
  <2>3. NoReply' <=> NoReply  BY <1>2 DEF NoReply
  <2>4. OpenInv'  BY <1>1, <2>1, <2>2, <2>3 DEF OpenInv
  <2> QED BY <1>1, <1>2, <2>1, <2>2, <2>4 DEF NetInv, Types
<1> QED BY <1>4, <1>5, <1>6, <1>7, <1>8, <1>9 DEF Control

\* The receive drain: the reply at the head is the one ndo_open waits for, or none is under way.
LEMMA RxNet ==
  ASSUME NetInv, Rx
  PROVE  NetInv'
<1>1. Types /\ OpenInv /\ toHost \in Seq(Replies)  BY DEF NetInv, Types
<1>2. /\ UNCHANGED <<up, ctl, toChip, chip, late>> /\ toHost # <<>> /\ toHost' = Tail(toHost)
  BY DEF Rx
<1>3. /\ toHost' \in Seq(Replies) /\ Len(toHost) \in Nat \ {0} /\ Len(toHost') = Len(toHost) - 1
      /\ Head(toHost) = toHost[1] /\ toHost[1] \in Replies
      /\ \A i \in 1..Len(toHost') : toHost'[i] = toHost[i + 1] /\ i + 1 \in 1..Len(toHost)
  BY <1>1, <1>2, Taken
<1>4. PICK f \in Replies : f = toHost[1]  BY <1>3
<1>5. 1 \in 1..Len(toHost)  BY <1>3
<1>6. /\ wrIndex' = wrIndex \/ (f.op = "write" /\ wrIndex' = WriteAck(f))
      /\ openSta' = openSta \/ (f.op = "open" /\ openSta' = f.sta)
  BY <1>3, <1>4 DEF Rx
<1>7. f.op = "write" => f.pos \in Nat  BY <1>4 DEF Replies
<1>8. wrIndex' \in Nat  BY <1>1, <1>6, <1>7 DEF WriteAck, Types
<1>9. (NoReply => NoReply') /\ (NoOpen' <=> NoOpen) /\ (NoCtl' <=> NoCtl)
  BY <1>2, <1>3 DEF NoReply, NoOpen, NoCtl
<1>10. NoReply => f.op # "open"  BY <1>4, <1>5 DEF NoReply
<1>11. ASSUME WaitInv PROVE WaitInv'
  <2>1. CASE f.op = "open"
    <3>1. /\ openSta = "none" /\ NoCtl /\ (f.sta \in Good => chip.open)
          /\ \A j \in 1..Len(toHost) : toHost[j].op = "open" => j = 1
      BY <1>4, <1>5, <1>10, <1>11, <2>1 DEF WaitInv
    <3>2. ASSUME NEW i \in 1..Len(toHost') PROVE toHost'[i].op # "open"
      <4>1. toHost'[i] = toHost[i + 1] /\ i + 1 \in 1..Len(toHost) /\ i + 1 # 1  BY <1>3
      <4> QED BY <3>1, <4>1
    <3>3. NoReply' /\ NoCtl' /\ NoOpen'
      <4>1. NoReply' /\ NoCtl'  BY <1>9, <3>1, <3>2 DEF NoReply
      <4>2. NoCtl => NoOpen  BY DEF NoCtl, NoOpen
      <4> QED BY <1>9, <3>1, <4>1, <4>2
    <3>4. openSta' \in {openSta, f.sta}  BY <1>6
    <3>5. openSta' \in Good => chip'.open  BY <1>2, <3>1, <3>4 DEF Good
    <3> QED BY <3>2, <3>3, <3>5 DEF WaitInv, NoOpen
  <2>2. CASE f.op # "open"
    <3>1. openSta' = openSta  BY <1>6, <2>2
    <3>2. ASSUME NEW i \in 1..Len(toHost'), toHost'[i].op = "open"
          PROVE  /\ toHost'[i].sta \in Good => chip'.open
                 /\ \A j \in 1..Len(toHost') : toHost'[j].op = "open" => j = i
      <4>1. toHost'[i] = toHost[i + 1] /\ i + 1 \in 1..Len(toHost)  BY <1>3
      <4>2. /\ toHost[i + 1].sta \in Good => chip.open
            /\ \A j \in 1..Len(toHost) : toHost[j].op = "open" => j = i + 1
        BY <1>11, <3>2, <4>1 DEF WaitInv
      <4>3. ASSUME NEW j \in 1..Len(toHost'), toHost'[j].op = "open" PROVE j = i
        <5>1. toHost'[j] = toHost[j + 1] /\ j + 1 \in 1..Len(toHost)  BY <1>3
        <5>2. j + 1 = i + 1  BY <4>2, <4>3, <5>1
        <5> QED BY <5>2
      <4> QED BY <1>2, <4>1, <4>2, <4>3
    <3>3. /\ ~NoOpen' => openSta' = "none" /\ NoReply'
          /\ ~NoReply' => openSta' = "none" /\ NoCtl'
          /\ openSta' # "none" => NoCtl' /\ (openSta' \in Good => chip'.open)
      BY <1>2, <1>9, <1>11, <3>1 DEF WaitInv
    <3>4. \A i \in 1..Len(toChip') : \A j \in 1..Len(toChip') :
            toChip'[i].op = "open" /\ i < j => toChip'[j].op = "write"
      BY <1>2, <1>11 DEF WaitInv
    <3> QED BY <3>2, <3>3, <3>4 DEF WaitInv
  <2> QED BY <2>1, <2>2
<1>12. OpenInv'
  <2>1. ASSUME late = 0, ctl # "waiting" PROVE openSta' = openSta  BY <1>1, <1>6, <1>10, <2>1 DEF OpenInv
  <2> QED BY <1>1, <1>2, <1>9, <1>11, <2>1 DEF OpenInv
<1> QED BY <1>1, <1>2, <1>3, <1>8, <1>12 DEF NetInv, Types

\* The chip takes the frame at the head of the FIFO and may answer.
LEMMA ChipNet ==
  ASSUME NetInv, ChipTake
  PROVE  NetInv'
<1>1. Types /\ OpenInv /\ toChip \in Seq(Frames) /\ toHost \in Seq(Replies)  BY DEF NetInv, Types
<1>2. /\ UNCHANGED <<up, ctl, wrIndex, openSta, late>> /\ toChip # <<>> /\ toChip' = Tail(toChip)
  BY DEF ChipTake
<1>3. /\ toChip' \in Seq(Frames) /\ Len(toChip) \in Nat \ {0} /\ Len(toChip') = Len(toChip) - 1
      /\ Head(toChip) = toChip[1] /\ toChip[1] \in Frames
      /\ \A i \in 1..Len(toChip') : toChip'[i] = toChip[i + 1] /\ i + 1 \in 1..Len(toChip)
  BY <1>1, <1>2, Taken
<1>4. PICK f \in Frames : f = toChip[1]  BY <1>3
<1>5. 1 \in 1..Len(toChip)  BY <1>3
<1>6. (NoCtl => NoCtl') /\ (NoOpen => NoOpen')  BY <1>3 DEF NoCtl, NoOpen
<1>7. \A i \in 1..Len(toChip') : \A j \in 1..Len(toChip') : i < j => i + 1 < j + 1  BY <1>3
<1>8. ASSUME WaitInv
      PROVE  \A i \in 1..Len(toChip') : \A j \in 1..Len(toChip') :
               toChip'[i].op = "open" /\ i < j => toChip'[j].op = "write"
  <2> SUFFICES ASSUME NEW i \in 1..Len(toChip'), NEW j \in 1..Len(toChip'), toChip'[i].op = "open", i < j
               PROVE  toChip'[j].op = "write"
    OBVIOUS
  <2>1. /\ toChip'[i] = toChip[i + 1] /\ i + 1 \in 1..Len(toChip)
        /\ toChip'[j] = toChip[j + 1] /\ j + 1 \in 1..Len(toChip) /\ i + 1 < j + 1
    BY <1>3, <1>7
  <2> QED BY <1>8, <2>1 DEF WaitInv
<1>9. ASSUME NEW r \in Replies, toHost' = Append(toHost, r)
      PROVE  /\ toHost' \in Seq(Replies) /\ Len(toHost') = Len(toHost) + 1 /\ Len(toHost) \in Nat
             /\ toHost'[Len(toHost) + 1] = r
             /\ \A i \in 1..Len(toHost) : toHost'[i] = toHost[i]
             /\ \A i \in 1..Len(toHost') : i \in 1..Len(toHost) \/ i = Len(toHost) + 1
  BY <1>1, <1>9, Appended
<1>10. CASE f.op = "open"
  <2>1. PICK sta \in {"ok", "already", "refused"} :
          /\ toHost' = Append(toHost, [op |-> "open", sta |-> sta])
          /\ chip' = chip \/ chip' = [chip EXCEPT !.open = TRUE, !.pos = 0]
          /\ sta \in Good => chip'.open
    <3>1. \/ /\ chip' = IF chip.open THEN chip ELSE [chip EXCEPT !.open = TRUE, !.pos = 0]
             /\ toHost' = Append(toHost, [op |-> "open", sta |-> IF chip.open THEN "already" ELSE "ok"])
          \/ chip' = chip /\ toHost' = Append(toHost, [op |-> "open", sta |-> "refused"])
      BY <1>3, <1>4, <1>10 DEF ChipTake
    <3>2. chip \in [open : BOOLEAN, pos : Nat, full : BOOLEAN]  BY <1>1 DEF Types
    <3>3. CASE chip.open /\ chip' = chip /\ toHost' = Append(toHost, [op |-> "open", sta |-> "already"])
      BY <3>3
    <3>4. CASE /\ chip' = [chip EXCEPT !.open = TRUE, !.pos = 0]
               /\ toHost' = Append(toHost, [op |-> "open", sta |-> "ok"])
      <4>1. chip'.open = TRUE  BY <3>2, <3>4
      <4> QED BY <3>4, <4>1
    <3>5. CASE chip' = chip /\ toHost' = Append(toHost, [op |-> "open", sta |-> "refused"])
      <4>1. "refused" \notin Good  BY DEF Good
      <4> QED BY <3>5, <4>1
    <3> QED BY <3>1, <3>3, <3>4, <3>5
  <2>2. PICK r : r = [op |-> "open", sta |-> sta]  OBVIOUS
  <2>3. r \in Replies /\ r.op = "open" /\ r.sta = sta  BY <2>2 DEF Replies
  <2>4. /\ toHost' \in Seq(Replies) /\ Len(toHost') = Len(toHost) + 1 /\ Len(toHost) \in Nat
        /\ toHost'[Len(toHost) + 1] = r
        /\ \A i \in 1..Len(toHost) : toHost'[i] = toHost[i]
        /\ \A i \in 1..Len(toHost') : i \in 1..Len(toHost) \/ i = Len(toHost) + 1
    BY <1>9, <2>1, <2>2, <2>3
  <2>5. chip' \in [open : BOOLEAN, pos : Nat, full : BOOLEAN]
    <3>1. chip \in [open : BOOLEAN, pos : Nat, full : BOOLEAN]  BY <1>1 DEF Types
    <3>2. CASE chip' = chip  BY <3>1, <3>2
    <3>3. CASE chip' = [chip EXCEPT !.open = TRUE, !.pos = 0]  BY <3>1, <3>3
    <3> QED BY <2>1, <3>2, <3>3
  <2>6. Types'  BY <1>1, <1>2, <1>3, <2>4, <2>5 DEF Types
  <2>7. ~NoOpen  BY <1>4, <1>5, <1>10 DEF NoOpen
  <2>8. ASSUME late = 0 PROVE ctl = "waiting" /\ ~up /\ WaitInv  BY <1>1, <2>7, <2>8 DEF OpenInv
  <2>9. ASSUME WaitInv PROVE WaitInv'
    <3>1. openSta = "none" /\ NoReply  BY <2>7, <2>9 DEF WaitInv
    <3>2. ASSUME NEW i \in 1..Len(toChip') PROVE toChip'[i].op = "write"
      <4>1. toChip'[i] = toChip[i + 1] /\ i + 1 \in 1..Len(toChip) /\ 1 < i + 1  BY <1>3
      <4> QED BY <1>4, <1>5, <1>10, <2>9, <4>1 DEF WaitInv
    <3>3. NoCtl' /\ NoOpen'  BY <3>2 DEF NoCtl, NoOpen
    <3>4. \A i \in 1..Len(toHost') : toHost'[i].op = "open" => i = Len(toHost) + 1
      BY <2>4, <3>1 DEF NoReply
    <3>5. ASSUME NEW i \in 1..Len(toHost'), toHost'[i].op = "open"
          PROVE  /\ toHost'[i].sta \in Good => chip'.open
                 /\ \A j \in 1..Len(toHost') : toHost'[j].op = "open" => j = i
      BY <2>1, <2>3, <2>4, <3>4, <3>5
    <3> QED BY <1>2, <1>8, <2>9, <3>1, <3>3, <3>5 DEF WaitInv
  <2>10. OpenInv'  BY <1>2, <2>8, <2>9 DEF OpenInv
  <2> QED BY <2>6, <2>10 DEF NetInv
<1>11. CASE f.op = "close"
  <2>1. chip' = [chip EXCEPT !.open = FALSE] /\ UNCHANGED toHost  BY <1>3, <1>4, <1>11 DEF ChipTake
  <2>2. chip' \in [open : BOOLEAN, pos : Nat, full : BOOLEAN]  BY <1>1, <2>1 DEF Types
  <2>3. Types'  BY <1>1, <1>2, <1>3, <2>1, <2>2 DEF Types
  <2>4. ~NoCtl  BY <1>4, <1>5, <1>11 DEF NoCtl
  <2>5. ASSUME late = 0 PROVE ~up  BY <1>1, <2>4, <2>5 DEF OpenInv
  <2>6. NoReply' <=> NoReply  BY <2>1 DEF NoReply
  <2>7. ASSUME WaitInv PROVE WaitInv'
    <3>1. NoReply /\ openSta = "none"  BY <2>4, <2>7 DEF WaitInv
    <3> QED BY <1>2, <1>8, <2>6, <2>7, <3>1 DEF WaitInv, NoReply
  <2>8. OpenInv'  BY <1>1, <1>2, <1>6, <2>5, <2>6, <2>7 DEF OpenInv
  <2> QED BY <2>3, <2>8 DEF NetInv
<1>12. CASE f.op \notin {"open", "close"}
  <2>1. f.op = "write" /\ f.pos \in Nat  BY <1>4, <1>12 DEF Frames
  <2>2. /\ chip' = chip \/ chip' = [chip EXCEPT !.pos = Advance(chip.pos), !.full = TRUE]
        /\ \/ toHost' = toHost
           \/ toHost' = Append(toHost, [op |-> "write", sta |-> "ok", pos |-> f.pos])
           \/ \E sta \in {"pending", "wanted"} :
                 toHost' = Append(toHost, [op |-> "write", pos |-> chip.pos, sta |-> sta])
    BY <1>3, <1>4, <1>12 DEF ChipTake
  <2>3. chip' \in [open : BOOLEAN, pos : Nat, full : BOOLEAN] /\ chip'.open = chip.open /\ chip.pos \in Nat
    <3>1. chip \in [open : BOOLEAN, pos : Nat, full : BOOLEAN]  BY <1>1 DEF Types
    <3>2. PosMod \in Nat \ {0}  BY NetAssumption
    <3>3. Advance(chip.pos) \in Nat  BY <3>1, <3>2 DEF Advance
    <3> QED BY <2>2, <3>1, <3>3
  <2>4. toHost' = toHost \/ \E r \in Replies : r.op = "write" /\ toHost' = Append(toHost, r)
    <3>1. /\ [op |-> "write", sta |-> "ok", pos |-> f.pos] \in Replies
          /\ \A sta \in {"pending", "wanted"} : [op |-> "write", pos |-> chip.pos, sta |-> sta] \in Replies
      BY <2>1, <2>3 DEF Replies
    <3>2. CASE toHost' = Append(toHost, [op |-> "write", sta |-> "ok", pos |-> f.pos])
      <4>1. PICK r : r = [op |-> "write", sta |-> "ok", pos |-> f.pos]  OBVIOUS
      <4>2. r \in Replies /\ r.op = "write"  BY <3>1, <4>1
      <4> QED BY <3>2, <4>1, <4>2
    <3>3. CASE \E sta \in {"pending", "wanted"} :
                 toHost' = Append(toHost, [op |-> "write", pos |-> chip.pos, sta |-> sta])
      <4>1. PICK sta \in {"pending", "wanted"} :
              toHost' = Append(toHost, [op |-> "write", pos |-> chip.pos, sta |-> sta])
        BY <3>3
      <4>2. PICK r : r = [op |-> "write", pos |-> chip.pos, sta |-> sta]  OBVIOUS
      <4>3. r \in Replies /\ r.op = "write"  BY <3>1, <4>2
      <4> QED BY <4>1, <4>2, <4>3
    <3> QED BY <2>2, <3>2, <3>3
  <2>5. /\ toHost' \in Seq(Replies) /\ (NoReply' <=> NoReply)
        /\ \A i \in 1..Len(toHost') : toHost'[i].op = "open" => i \in 1..Len(toHost) /\ toHost'[i] = toHost[i]
    <3>1. CASE toHost' = toHost  BY <1>1, <3>1 DEF NoReply
    <3>2. CASE \E r \in Replies : r.op = "write" /\ toHost' = Append(toHost, r)
      <4>1. PICK r \in Replies : r.op = "write" /\ toHost' = Append(toHost, r)  BY <3>2
      <4>2. /\ toHost' \in Seq(Replies) /\ Len(toHost') = Len(toHost) + 1 /\ Len(toHost) \in Nat
            /\ toHost'[Len(toHost) + 1] = r
            /\ \A i \in 1..Len(toHost) : toHost'[i] = toHost[i]
            /\ \A i \in 1..Len(toHost') : i \in 1..Len(toHost) \/ i = Len(toHost) + 1
        BY <1>9, <4>1
      <4>3. 1..Len(toHost) \subseteq 1..Len(toHost')  BY <4>2
      <4> QED BY <4>1, <4>2, <4>3 DEF NoReply
    <3> QED BY <2>4, <3>1, <3>2
  <2>6. Types'  BY <1>1, <1>2, <1>3, <2>3, <2>5 DEF Types
  <2>7. ASSUME WaitInv PROVE WaitInv'
    <3>1. \A i \in 1..Len(toHost') : toHost'[i].op = "open" =>
            /\ toHost'[i].sta \in Good => chip'.open
            /\ \A j \in 1..Len(toHost') : toHost'[j].op = "open" => j = i
      BY <2>3, <2>5, <2>7 DEF WaitInv
    <3>2. /\ ~NoOpen' => openSta' = "none" /\ NoReply'
          /\ ~NoReply' => openSta' = "none" /\ NoCtl'
          /\ openSta' # "none" => NoCtl' /\ (openSta' \in Good => chip'.open)
      BY <1>2, <1>6, <2>3, <2>5, <2>7 DEF WaitInv
    <3> QED BY <1>8, <2>7, <3>1, <3>2 DEF WaitInv
  <2>8. OpenInv'  BY <1>1, <1>2, <1>6, <2>3, <2>5, <2>7 DEF OpenInv
  <2> QED BY <2>6, <2>8 DEF NetInv
<1> QED BY <1>10, <1>11, <1>12

\* net_open(), net_stop() and net_rx_frame(): for every queue length, depth of the FIFO and number
\* of failed writes, refused opens and lost replies, an interface whose so_open was answered in
\* time is up only with its socket open in the chip.
THEOREM UpMeansOpenHolds == Spec => []UpMeansOpen
<1>1. NetInv => UpMeansOpen  BY DEF NetInv, OpenInv, UpMeansOpen
<1>2. NetInv /\ UNCHANGED vars => NetInv'
  BY DEF NetInv, Types, OpenInv, WaitInv, NoCtl, NoOpen, NoReply, vars
<1>3. NetInv /\ [Next]_vars => NetInv'  BY <1>2, WorkNet, ControlNet, RxNet, ChipNet DEF Next
<1> QED BY <1>1, <1>3, InitNet, PTL DEF Spec

=============================================================================
