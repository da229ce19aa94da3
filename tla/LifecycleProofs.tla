--------------------------- MODULE LifecycleProofs ---------------------------
(***************************************************************************)
(* Safety of Lifecycle for every value of its constants: SettingsHeld,     *)
(* along what a relink that the loop has not noticed yet leaves behind,    *)
(* and LowPowerEnds, along who can leave the chip at standby power.        *)
(***************************************************************************)
EXTENDS Lifecycle, TLAPS

-----------------------------------------------------------------------------
(* The inductive invariants *)

CtxType == [state: {"INIT", "IDLE", "CONNECTED"}, confirm: Nat, miss: Nat, gen: Nat,
            bw: Int, fcPending: BOOLEAN, power: Levels,
            armed: BOOLEAN, standby: BOOLEAN, overheat: BOOLEAN]
ChipType == [link: BOOLEAN, bw: Nat, fc: BOOLEAN, power: Levels \cup {StandbyPower, ChipPower},
             retx: Retxs \cup {RetxDefault, RetxRaw}]
MailType == [bw: Nat \cup {-1}, retx: Retxs \cup {Empty}, power: Powers \cup {Empty}, armed: {-1, 0, 1}]
LoopType == [did: BOOLEAN, polled: BOOLEAN, pollIn: Nat, fails: Nat]
LinkType == [up: BOOLEAN, valid: BOOLEAN, gen: Nat]
FileType == [bw: Nat \cup {-1}, retx: Retxs \cup {Empty}, power: Powers \cup {Empty}]

Types ==
    /\ ctx \in CtxType /\ chip \in ChipType /\ mail \in MailType /\ saved \in FileType
    /\ loop \in LoopType /\ lk \in LinkType
    /\ evq \in Seq({"up", "down"}) /\ session \in BOOLEAN

Connected == ctx.state = "CONNECTED"

\* lc_apply_tuning_on_connect has still to set the bandwidth; lc_apply_link_tuning has still to
\* set retx and power; and then the frame change.
Connecting == {"gen", "tune"}
Untuned    == Connecting \cup {"power", "repower"}
Unframed   == Untuned \cup {"frame", "reframe"}

\* Where the loop is in which state.
StageInv ==
    /\ pc = "start" => ctx.state = "INIT" /\ ctx.standby = FALSE
    /\ pc \in Unframed \cup {"check", "retry"} => Connected
    /\ ~StandbyMode => ctx.standby = FALSE

\* The bandwidth the loop enforces is the one on disk, from the first tuning to the drop.
BwInv ==
    /\ ~Connected => ctx.bw = -1
    /\ Connected /\ pc \notin Connecting => ctx.bw = WantedBw

\* A connected unit whose link is up, with no relink on its way to connect_gen or in it.
NoUp == \A i \in 1..Len(evq) : evq[i] # "up"
Holding == Connected /\ pc # "stopped" /\ session /\ chip.link /\ NoUp /\ lk.gen = ctx.gen

\* Whatever resets the chip's settings is a relink: it is in the events or in connect_gen until
\* the loop has read it, and the loop reads it before the tuning.  The frame change alone is also
\* undone by a change of bandwidth, which the next poll sees unless it slipped.
TuneInv ==
    /\ ctx.gen <= lk.gen
    /\ Holding /\ pc \notin Untuned =>
          /\ chip.retx = WantedRetx
          /\ WantedPower(ctx) # PowerNone => chip.power = WantedPower(ctx)
    /\ Holding /\ pc \notin Unframed /\ FrameChange =>
          chip.fc = TRUE \/ ctx.fcPending = TRUE \/ BandwidthOff \/ slipped = TRUE

\* The chip is at standby power only in standby, and standby ends with its reasons.
LowInv ==
    /\ session /\ Running /\ chip.power = StandbyPower => ctx.standby = TRUE
    /\ pc = "sleep" /\ ctx.armed = TRUE /\ ctx.overheat = FALSE => ctx.standby = FALSE

\* A link that has not changed for a tick has no event under way; and the shared link state agrees
\* with it, or the next poll is due before a whole poll interval is over.
OutageInv ==
    /\ since \in 0..PollTicks /\ loop.pollIn \in 0..PollTicks
    /\ since > 0 => evq = << >> /\ ev = "none"
    /\ pc = "start" => loop.pollIn = 0
    /\ pc \notin {"start", "top", "stopped"} => loop.pollIn > 0
    /\ since > 0 /\ session /\ pc = "pollset" => loop.polled = chip.link
    /\ since > 0 /\ session /\ pc \notin {"pollset", "stopped"} =>
          lk.up = chip.link \/ loop.pollIn + since <= PollTicks

-----------------------------------------------------------------------------
(* The ioctls *)

\* A new bandwidth, which may undo the frame change.
LEMMA RenegotiatedFacts ==
  ASSUME NEW c \in ChipType, NEW bw \in Nat, NEW d \in Renegotiated(c, bw)
  PROVE  /\ d \in ChipType
         /\ d.link = c.link /\ d.power = c.power /\ d.retx = c.retx /\ d.bw = bw
<1>1. d = [c EXCEPT !.bw = bw] \/ d = [c EXCEPT !.bw = bw, !.fc = FALSE]
  BY DEF Renegotiated
<1> QED BY <1>1 DEF ChipType

\* The chip's own change of bandwidth.
LEMMA ChipBandwidthFacts ==
  ASSUME Types, ChipBandwidth
  PROVE  /\ chip' \in ChipType
         /\ chip'.link = chip.link /\ chip'.power = chip.power /\ chip'.retx = chip.retx
<1>1. PICK b \in ChipBws : chip' \in Renegotiated(chip, b)  BY DEF ChipBandwidth
<1>2. b \in Nat /\ chip \in ChipType  BY LifecycleAssumption DEF Types
<1> QED BY <1>1, <1>2, RenegotiatedFacts

\* lc_tuning_apply changes the bandwidth and with it, perhaps, the frame change.
LEMMA TuningFacts ==
  ASSUME NEW c \in ChipType, NEW bw \in Nat, NEW d \in TuningApplies(c, bw)
  PROVE  /\ d \in ChipType
         /\ d.link = c.link /\ d.power = c.power /\ d.retx = c.retx
<1>1. d = c \/ d \in Renegotiated(c, bw)
  BY DEF TuningApplies
<1> QED BY <1>1, RenegotiatedFacts

\* lc_retx_apply sets the retx configuration alone, and nothing on a dead session.
LEMMA RetxFacts ==
  ASSUME NEW c \in ChipType, NEW x \in Retxs \cup {RetxDefault}
  PROVE  LET d == retx_apply(c, x)
         IN  /\ d \in ChipType
             /\ d.link = c.link /\ d.power = c.power /\ d.fc = c.fc /\ d.bw = c.bw
             /\ d.retx = IF session THEN x ELSE c.retx
  BY DEF ChipType, retx_apply

\* lc_apply_power sets the wanted level, or the standby target, and nothing else.
LEMMA PowerFacts ==
  ASSUME NEW c \in ChipType, NEW x \in CtxType
  PROVE  LET d == apply_power(c, x)
         IN  /\ d \in ChipType
             /\ d.link = c.link /\ d.retx = c.retx /\ d.fc = c.fc /\ d.bw = c.bw
             /\ d.power = IF session /\ WantedPower(x) # PowerNone THEN WantedPower(x) ELSE c.power
<1>1. x.power \in Levels /\ x.standby \in BOOLEAN  BY DEF CtxType
<1>2. StandbyPower # PowerNone  BY DEF StandbyPower, PowerNone
<1>3. CASE ~session \/ (~x.standby /\ x.power = PowerNone)
  BY <1>3 DEF apply_power, WantedPower
<1>4. CASE session /\ x.standby
  BY <1>2, <1>4 DEF apply_power, WantedPower, ChipType
<1>5. CASE session /\ ~x.standby /\ x.power # PowerNone
  BY <1>1, <1>5 DEF apply_power, WantedPower, ChipType
<1> QED BY <1>3, <1>4, <1>5

-----------------------------------------------------------------------------
(* Types, and where the loop is in which state *)

\* The process starts with nothing known.
LEMMA StartFacts ==
  ASSUME NEW s \in FileType
  PROVE  /\ lifecycle_init(s) \in CtxType
         /\ lifecycle_init(s).state = "INIT" /\ lifecycle_init(s).standby = FALSE
         /\ lifecycle_init(s).bw = -1 /\ lifecycle_init(s).gen = 0
         /\ NoMail \in MailType /\ NoFiles \in FileType
         /\ \A bw \in Nat : ResetChip(bw) \in ChipType
         /\ NoLink \in LinkType /\ NoLink.gen = 0 /\ NewLoop \in LoopType
<1>1. StartPower(s) \in Levels  BY DEF StartPower, FileType, Levels
<1> QED BY <1>1 DEF lifecycle_init, CtxType, NoMail, MailType, NoFiles, FileType, ResetChip, ChipType,
  NoLink, LinkType, NewLoop, LoopType

\* lc_drain_*: what was in the mailboxes is on the disk, in the context and on the chip.
LEMMA DrainFacts ==
  ASSUME Types, Drain
  PROVE  /\ mail' \in MailType /\ saved' \in FileType /\ ctx' \in CtxType /\ chip' \in ChipType
         /\ chip'.link = chip.link
         /\ ~(mail.bw > 0) => chip'.fc = chip.fc /\ chip'.bw = chip.bw
         /\ chip'.retx = IF session /\ mail.retx # Empty THEN mail.retx ELSE chip.retx
         /\ chip'.power = IF session /\ mail.power # Empty /\ WantedPower(ctx') # PowerNone
                          THEN WantedPower(ctx') ELSE chip.power
<1>1. mail' \in MailType  BY DEF Types, Drain, NoMail, MailType
<1>2. saved' \in FileType  BY DEF Types, Drain, FilesDrained, FileType, MailType
<1>3. ctx' \in CtxType
  <2>1. mail.bw \in Int /\ (mail.power # Empty => mail.power \in Levels)
    BY DEF Types, MailType, Levels
  <2> QED BY <2>1 DEF Types, Drain, CtxType
<1>4. PICK c \in BandwidthDrained : chip' = PowerDrained(RetxDrained(c), ctx')
  BY DEF Drain
<1>5. c \in ChipType /\ c.link = chip.link /\ c.power = chip.power /\ c.retx = chip.retx
      /\ (~(mail.bw > 0) => c = chip)
  <2>1. CASE c = chip  BY <2>1 DEF Types
  <2>2. CASE mail.bw > 0 /\ c \in TuningApplies(chip, mail.bw)
    <3>1. mail.bw \in Nat /\ chip \in ChipType  BY <2>2 DEF Types, MailType
    <3> QED BY <2>2, <3>1, TuningFacts
  <2>3. ~(mail.bw > 0) => c = chip  BY <1>4 DEF BandwidthDrained
  <2> QED BY <1>4, <2>1, <2>2, <2>3 DEF BandwidthDrained
<1>6. PICK d : d = RetxDrained(c)  OBVIOUS
<1>7. /\ d \in ChipType /\ d.link = c.link /\ d.power = c.power /\ d.fc = c.fc /\ d.bw = c.bw
      /\ d.retx = IF session /\ mail.retx # Empty THEN mail.retx ELSE c.retx
  <2>1. mail.retx # Empty => mail.retx \in Retxs  BY DEF Types, MailType
  <2> QED BY <1>5, <1>6, <2>1, RetxFacts DEF RetxDrained
<1>8. /\ chip' \in ChipType /\ chip'.link = d.link /\ chip'.fc = d.fc /\ chip'.retx = d.retx
      /\ chip'.bw = d.bw
      /\ chip'.power = IF session /\ mail.power # Empty /\ WantedPower(ctx') # PowerNone
                       THEN WantedPower(ctx') ELSE d.power
  BY <1>3, <1>4, <1>6, <1>7, PowerFacts DEF PowerDrained
<1> QED BY <1>1, <1>2, <1>3, <1>5, <1>7, <1>8

\* lc_overheat_update, the mailbox of /armed and lc_standby_update: the pause and the arming may
\* change, and standby with them.
LEMMA PostFacts ==
  ASSUME Types, Post
  PROVE  /\ ctx' \in CtxType
         /\ ctx'.state = ctx.state /\ ctx'.gen = ctx.gen /\ ctx'.bw = ctx.bw
         /\ ctx'.power = ctx.power /\ ctx'.fcPending = ctx.fcPending
         /\ ~StandbyMode => ctx'.standby = ctx.standby
         /\ StandbyMode /\ ctx'.armed = TRUE /\ ctx'.overheat = FALSE => ctx'.standby = FALSE
<1>1. PICK temp : LET x == SetArmed(overheat_update(ctx, temp))
                  IN  ctx' = IF StandbyMode THEN [x EXCEPT !.standby = WantStandby(x)] ELSE x
  BY DEF Post
<1>2. PICK y : y = overheat_update(ctx, temp)  OBVIOUS
<1>3. /\ y \in CtxType
      /\ y.state = ctx.state /\ y.gen = ctx.gen /\ y.bw = ctx.bw /\ y.power = ctx.power
      /\ y.fcPending = ctx.fcPending /\ y.standby = ctx.standby
  <2>1. y = ctx \/ y = [ctx EXCEPT !.overheat = TRUE] \/ y = [ctx EXCEPT !.overheat = FALSE]
    BY <1>2 DEF overheat_update
  <2> QED BY <2>1 DEF Types, CtxType
<1>4. PICK x : x = SetArmed(y)  OBVIOUS
<1>5. /\ x \in CtxType
      /\ x.state = ctx.state /\ x.gen = ctx.gen /\ x.bw = ctx.bw /\ x.power = ctx.power
      /\ x.fcPending = ctx.fcPending /\ x.standby = ctx.standby
  BY <1>3, <1>4 DEF SetArmed, CtxType
<1>6. ctx' = IF StandbyMode THEN [x EXCEPT !.standby = WantStandby(x)] ELSE x
  BY <1>1, <1>2, <1>4
<1>7. CASE ~StandbyMode  BY <1>5, <1>6, <1>7
<1>8. CASE StandbyMode
  <2>1. WantStandby(x) \in BOOLEAN
    <3>1. x.armed \in BOOLEAN /\ x.overheat \in BOOLEAN /\ x.standby \in BOOLEAN
      BY <1>5 DEF CtxType
    <3> QED BY <3>1, Zenon DEF WantStandby
  <2>2. x.armed = TRUE /\ x.overheat = FALSE => WantStandby(x) = FALSE
    BY DEF WantStandby
  <2>3. ctx' = [x EXCEPT !.standby = WantStandby(x)]  BY <1>6, <1>8
  <2> HIDE DEF WantStandby
  <2>4. ctx' \in CtxType /\ ctx'.standby = WantStandby(x)
        /\ ctx'.armed = x.armed /\ ctx'.overheat = x.overheat
    BY <1>5, <2>1, <2>3 DEF CtxType
  <2>5. /\ ctx'.state = x.state /\ ctx'.gen = x.gen /\ ctx'.bw = x.bw
        /\ ctx'.power = x.power /\ ctx'.fcPending = x.fcPending
    BY <1>5, <2>3 DEF CtxType
  <2> QED BY <1>5, <1>8, <2>2, <2>4, <2>5
<1> QED BY <1>7, <1>8

\* What Post leaves of the chip, the mailboxes and the context.
LEMMA PostChip ==
  ASSUME Types, Post
  PROVE  /\ chip' \in ChipType /\ mail' \in MailType
         /\ chip'.link = chip.link /\ chip'.retx = chip.retx /\ chip'.fc = chip.fc /\ chip'.bw = chip.bw
         /\ chip'.power = IF ctx'.standby # ctx.standby /\ session /\ WantedPower(ctx') # PowerNone
                          THEN WantedPower(ctx') ELSE chip.power
<1>1. ctx' \in CtxType /\ chip \in ChipType  BY PostFacts DEF Types
<1>2. chip' = IF ctx'.standby # ctx.standby THEN apply_power(chip, ctx') ELSE chip
  BY DEF Post
<1>3. mail' \in MailType  BY DEF Post, Types, MailType
<1> QED BY <1>1, <1>2, <1>3, PowerFacts

\* lc_apply_link_tuning: retx, then power, unless the session is dead.
LEMMA TuneFacts ==
  ASSUME Types, TunePower
  PROVE  /\ chip' \in ChipType /\ chip'.link = chip.link /\ chip'.fc = chip.fc
         /\ chip'.retx = IF session THEN WantedRetx ELSE chip.retx
         /\ chip'.power = IF session /\ WantedPower(ctx) # PowerNone THEN WantedPower(ctx) ELSE chip.power
<1>1. WantedRetx \in Retxs \cup {RetxDefault}  BY DEF Types, FileType, WantedRetx
<1>2. PICK d : d = retx_apply(chip, WantedRetx)  OBVIOUS
<1>3. /\ d \in ChipType /\ d.link = chip.link /\ d.power = chip.power /\ d.fc = chip.fc
      /\ d.retx = IF session THEN WantedRetx ELSE chip.retx
  BY <1>1, <1>2, RetxFacts DEF Types
<1> QED BY <1>2, <1>3, PowerFacts DEF TunePower, Types

\* The frame change, taken or refused, changes that setting and its pending mark alone.
LEMMA FrameFacts ==
  ASSUME Types, FrameChangeTakes \/ FrameChangeFails
  PROVE  /\ ctx' \in CtxType /\ chip' \in ChipType
         /\ ctx'.state = ctx.state /\ ctx'.gen = ctx.gen /\ ctx'.bw = ctx.bw
         /\ ctx'.power = ctx.power /\ ctx'.standby = ctx.standby
         /\ ctx'.armed = ctx.armed /\ ctx'.overheat = ctx.overheat
         /\ chip'.link = chip.link /\ chip'.retx = chip.retx /\ chip'.power = chip.power
         /\ chip'.fc = TRUE \/ ctx'.fcPending = TRUE
<1>1. CASE FrameChangeTakes  BY <1>1 DEF FrameChangeTakes, Types, CtxType, ChipType
<1>2. CASE FrameChangeFails  BY <1>2 DEF FrameChangeFails, Types, CtxType, ChipType
<1> QED BY <1>1, <1>2

\* The fields of the context that the invariants speak of.
SameCtx ==
    /\ ctx'.state = ctx.state /\ ctx'.gen = ctx.gen /\ ctx'.bw = ctx.bw
    /\ ctx'.power = ctx.power /\ ctx'.standby = ctx.standby /\ ctx'.fcPending = ctx.fcPending
    /\ ctx'.armed = ctx.armed /\ ctx'.overheat = ctx.overheat
\* A step of the loop's own bookkeeping.
Plain ==
    \/ AbandonStartup \/ Stop \/ SkipPoll \/ PollRead \/ PollSet \/ PollFail
    \/ StayIdle \/ ConfirmConnect \/ MissLink \/ Sleep \/ EventState \/ Http \/ Terminate
    \/ UNCHANGED vars

\* The debounces, the polls, the requests and the second half of an event touch no setting.
LEMMA PlainFacts ==
  ASSUME Types, Plain
  PROVE  /\ ctx' \in CtxType /\ SameCtx /\ mail' \in MailType
         /\ lk' \in LinkType /\ lk'.gen = lk.gen
         /\ UNCHANGED <<chip, saved, evq, session, slipped>>
<1>1. CASE StayIdle  BY <1>1 DEF StayIdle, Types, CtxType, SameCtx, events
<1>2. CASE ConfirmConnect  BY <1>2 DEF ConfirmConnect, Types, CtxType, SameCtx, events
<1>3. CASE MissLink  BY <1>3 DEF MissLink, Types, CtxType, SameCtx, events
<1>4. CASE PollSet
  <2>1. lk' = [lk EXCEPT !.up = loop.polled, !.valid = TRUE] /\ loop.polled \in BOOLEAN
    BY <1>4 DEF PollSet, Types, LoopType
  <2>2. lk' \in LinkType /\ lk'.gen = lk.gen  BY <2>1 DEF Types, LinkType
  <2> QED BY <1>4, <2>2 DEF PollSet, Types, SameCtx
<1>5. CASE EventState  BY <1>5 DEF EventState, Types, LinkType, SameCtx, thread
<1>6. CASE Http
  <2>1. PICK m \in MailType : Request(m)
    <3>1. CASE request_bandwidth
      <4>1. PICK b \in Bandwidths : Request([mail EXCEPT !.bw = b])  BY <3>1 DEF request_bandwidth
      <4>2. [mail EXCEPT !.bw = b] \in MailType  BY LifecycleAssumption DEF Types, MailType
      <4> QED BY <4>1, <4>2
    <3>2. CASE request_retx
      <4>1. PICK x \in Retxs : Request([mail EXCEPT !.retx = x])  BY <3>2 DEF request_retx
      <4>2. [mail EXCEPT !.retx = x] \in MailType  BY DEF Types, MailType
      <4> QED BY <4>1, <4>2
    <3>3. CASE request_power
      <4>1. PICK p \in Powers : Request([mail EXCEPT !.power = p])  BY <3>3 DEF request_power
      <4>2. [mail EXCEPT !.power = p] \in MailType  BY DEF Types, MailType
      <4> QED BY <4>1, <4>2
    <3>4. CASE request_armed
      <4>1. PICK a \in {0, 1} : Request([mail EXCEPT !.armed = a])  BY <3>4 DEF request_armed
      <4>2. [mail EXCEPT !.armed = a] \in MailType  BY DEF Types, MailType
      <4> QED BY <4>1, <4>2
    <3> QED BY <1>6, <3>1, <3>2, <3>3, <3>4 DEF Http
  <2> QED BY <2>1 DEF Request, Types, SameCtx, thread, events
<1>7. CASE AbandonStartup \/ Stop \/ SkipPoll \/ PollRead \/ PollFail \/ Sleep \/ Terminate
           \/ UNCHANGED vars
  BY <1>7 DEF AbandonStartup, Stop, SkipPoll, PollRead, PollFail, Sleep, Terminate,
     Types, SameCtx, vars, thread, events
<1> QED BY <1>1, <1>2, <1>3, <1>4, <1>5, <1>6, <1>7 DEF Plain

\* Where a plain step takes the loop.
LEMMA PlainPc ==
  ASSUME Plain
  PROVE  \/ pc' = pc \/ pc' = "stopped"
         \/ pc' \in {"top", "pollset", "drain", "post"} /\ pc \notin Unframed \cup {"start", "stopped"}
<1>1. CASE AbandonStartup \/ Stop  BY <1>1 DEF AbandonStartup, Stop
<1>2. CASE SkipPoll \/ PollRead \/ PollSet \/ PollFail \/ StayIdle \/ ConfirmConnect \/ MissLink \/ Sleep
  BY <1>2 DEF SkipPoll, PollRead, PollSet, PollFail, StayIdle, ConfirmConnect, MissLink, Sleep,
     Unframed, Untuned, Connecting
<1>3. CASE EventState \/ Http \/ Terminate \/ UNCHANGED vars
  BY <1>3 DEF EventState, Http, request_bandwidth, request_retx, request_power, request_armed,
     Request, Terminate, vars, thread
<1> QED BY <1>1, <1>2, <1>3 DEF Plain

\* The loop's locals keep their types.
LEMMA NextLoop ==
  ASSUME Types, [Next]_vars
  PROVE  loop' \in LoopType
<1>1. CASE SkipPoll  BY <1>1 DEF SkipPoll, Types, LoopType
<1>2. CASE PollRead
  <2>1. chip.link \in BOOLEAN /\ PollInterval \in Nat
    BY LifecycleAssumption DEF Types, ChipType, PollInterval
  <2> QED BY <1>2, <2>1 DEF PollRead, LoopType
<1>3. CASE PollFail
  <2>1. PollInterval \in Nat  BY LifecycleAssumption DEF PollInterval
  <2>2. PICK n \in Nat : n = loop.fails + 1  BY DEF Types, LoopType
  <2>3. loop' = [loop EXCEPT !.did = TRUE, !.pollIn = PollInterval, !.fails = n]
    BY <1>3, <2>2 DEF PollFail
  <2> QED BY <2>1, <2>3 DEF Types, LoopType
<1>4. CASE Sleep
  <2>1. PICK d \in {1, 2} : loop' = [loop EXCEPT !.pollIn = IF @ > d THEN @ - d ELSE 0]
    BY <1>4 DEF Sleep
  <2>2. PICK n \in Nat : n = IF loop.pollIn > d THEN loop.pollIn - d ELSE 0
    BY DEF Types, LoopType
  <2>3. loop' = [loop EXCEPT !.pollIn = n]  BY <2>1, <2>2
  <2> QED BY <2>3 DEF Types, LoopType
<1>5. CASE Reexec
  <2>1. NewLoop \in LoopType  BY DEF NewLoop, LoopType
  <2> QED BY <1>5, <2>1 DEF Reexec
<1>6. ASSUME \/ Startup \/ AbandonStartup \/ Stop \/ PollSet \/ Drain \/ StayIdle \/ ConfirmConnect
             \/ Connect \/ ReadGen \/ TuneBandwidth \/ TunePower \/ TuneFrame \/ MissLink \/ Drop
             \/ StayConnected \/ CheckBandwidth \/ RetryFrame \/ Post
      PROVE  loop' = loop
  BY <1>6 DEF Startup, AbandonStartup, Stop, PollSet, Drain, StayIdle, ConfirmConnect, Connect,
     ReadGen, TuneBandwidth, TunePower, TuneFrame, MissLink, Drop, StayConnected, CheckBandwidth,
     RetryFrame, Post
<1>7. ASSUME \/ EventGen \/ EventState \/ Http \/ ChipLinks \/ ChipDrops \/ ChipBandwidth
             \/ SessionLost \/ DaemonUp \/ Terminate \/ UNCHANGED vars
      PROVE  loop' = loop
  BY <1>7 DEF EventGen, EventState, Http, request_bandwidth, request_retx, request_power,
     request_armed, Request, ChipLinks, ChipDrops, LinkChange, ChipBandwidth, SessionLost, DaemonUp,
     Terminate, vars, thread
<1> QED BY <1>1, <1>2, <1>3, <1>4, <1>5, <1>6, <1>7 DEF Next, Thread, Reader, Chip, Types

\* The steps of the loop that act on the chip or the context, apart.
LEMMA NextCases ==
  ASSUME [Next]_vars
  PROVE  \/ Plain \/ Startup \/ Reexec \/ Drain \/ Connect \/ ReadGen \/ TuneBandwidth \/ TunePower
         \/ TuneFrame \/ Drop \/ StayConnected \/ CheckBandwidth \/ RetryFrame \/ Post \/ EventGen
         \/ ChipLinks \/ ChipDrops \/ ChipBandwidth \/ SessionLost \/ DaemonUp
  BY DEF Next, Thread, Reader, Chip, Plain

\* A link change of the chip, reported to a running loop's session.
LEMMA LinkChangeFacts ==
  ASSUME Types, ChipLinks \/ ChipDrops
  PROVE  /\ chip' \in ChipType /\ evq' \in Seq({"up", "down"})
         /\ UNCHANGED <<pc, ctx, mail, saved, lk, session>>
         /\ evq' = IF session /\ Running THEN Append(evq, IF chip'.link THEN "up" ELSE "down") ELSE evq
         /\ chip'.power = chip.power \/ chip'.power = ChipPower
<1>1. CASE ChipLinks
  <2>1. chip' \in ChipType /\ chip'.link = TRUE /\ chip'.power = ChipPower
    BY <1>1 DEF ChipLinks, Types, ChipType
  <2>2. evq' = IF session /\ Running THEN Append(evq, "up") ELSE evq  BY <1>1 DEF ChipLinks, Report
  <2>3. evq' \in Seq({"up", "down"})  BY <2>2 DEF Types
  <2> QED BY <1>1, <2>1, <2>2, <2>3 DEF ChipLinks, LinkChange, thread
<1>2. CASE ChipDrops
  <2>1. chip' \in ChipType /\ chip'.link = FALSE /\ chip'.power = chip.power
    BY <1>2 DEF ChipDrops, Types, ChipType
  <2>2. evq' = IF session /\ Running THEN Append(evq, "down") ELSE evq  BY <1>2 DEF ChipDrops, Report
  <2>3. evq' \in Seq({"up", "down"})  BY <2>2 DEF Types
  <2> QED BY <1>2, <2>1, <2>2, <2>3 DEF ChipDrops, LinkChange, thread
<1> QED BY <1>1, <1>2

\* The first half of lc_on_link_state_event: an "up" leaves the queue for connect_gen.
LEMMA EventGenFacts ==
  ASSUME Types, EventGen
  PROVE  /\ lk' \in LinkType /\ evq' \in Seq({"up", "down"})
         /\ UNCHANGED <<pc, ctx, mail, saved, chip, session, slipped>>
         /\ lk'.gen >= lk.gen
         /\ NoUp' /\ lk'.gen = lk.gen => NoUp
<1>1. evq # << >> /\ Head(evq) \in {"up", "down"} /\ evq' = Tail(evq) /\ evq' \in Seq({"up", "down"})
  BY DEF EventGen, Types
<1>2. lk' = IF Head(evq) = "up" THEN [lk EXCEPT !.gen = @ + 1] ELSE lk  BY DEF EventGen
<1>3. lk.gen \in Nat /\ lk' \in LinkType /\ lk'.gen = IF Head(evq) = "up" THEN lk.gen + 1 ELSE lk.gen
  BY <1>2 DEF Types, LinkType
<1>4. ASSUME NoUp', lk'.gen = lk.gen PROVE NoUp
  <2>1. Head(evq) # "up"  BY <1>3, <1>4
  <2>2. ASSUME NEW i \in 1..Len(evq) PROVE evq[i] # "up"
    <3>1. Len(evq) \in Nat \ {0} /\ Len(evq') = Len(evq) - 1 /\ Head(evq) = evq[1]
          /\ \A j \in 1..(Len(evq) - 1) : evq'[j] = evq[j + 1]
      BY <1>1 DEF Types
    <3>2. CASE i = 1  BY <2>1, <3>1, <3>2
    <3>3. CASE i # 1
      <4>1. i - 1 \in 1..Len(evq') /\ evq'[i - 1] = evq[i]  BY <3>1, <3>3
      <4> QED BY <1>4, <4>1 DEF NoUp
    <3> QED BY <3>2, <3>3
  <2> QED BY <2>2 DEF NoUp
<1> QED BY <1>1, <1>3, <1>4 DEF EventGen, thread

\* Every step keeps the types, and the loop's place in step with its state.
LEMMA NextBase ==
  ASSUME Types, StageInv, [Next]_vars
  PROVE  Types' /\ StageInv'
<1> USE DEF Connected
<1>0. loop' \in LoopType  BY NextLoop
<1>1. CASE Plain
  <2>1. Types'  BY <1>0, <1>1, PlainFacts DEF Types
  <2>2. ctx'.state = ctx.state /\ ctx'.standby = ctx.standby  BY <1>1, PlainFacts DEF SameCtx
  <2>3. pc' \in Unframed \cup {"check", "retry"} => pc \in Unframed \cup {"check", "retry"}
    BY <1>1, PlainPc DEF Unframed, Untuned, Connecting
  <2>4. pc' = "start" => pc = "start"  BY <1>1, PlainPc
  <2> QED BY <2>1, <2>2, <2>3, <2>4 DEF StageInv
<1>2. CASE Startup
  <2>1. chip' \in ChipType  BY <1>2, PowerFacts DEF Startup, Types
  <2>2. ctx' \in CtxType /\ ctx'.standby = ctx.standby  BY <1>2 DEF Startup, Types, CtxType
  <2> QED BY <1>0, <1>2, <2>1, <2>2 DEF Startup, Types, StageInv, events, Unframed, Untuned, Connecting
<1>3. CASE Reexec
  <2>1. chip.bw \in Nat /\ ctx' = lifecycle_init(saved) /\ saved \in FileType
    BY <1>3 DEF Reexec, Types, ChipType
  <2>2. ctx' \in CtxType /\ ctx'.state = "INIT" /\ ctx'.standby = FALSE  BY <2>1, StartFacts
  <2>3. chip' \in ChipType /\ mail' \in MailType /\ lk' \in LinkType
    BY <1>3, <2>1, StartFacts DEF Reexec, Types
  <2>4. evq' = << >> /\ session' = FALSE /\ saved' = saved /\ pc' = "start"
    BY <1>3 DEF Reexec
  <2>5. pc' \notin Unframed \cup {"check", "retry"}
    BY <2>4 DEF Unframed, Untuned, Connecting
  <2>6. session' \in BOOLEAN  BY <2>4, Zenon
  <2>7. evq' \in Seq({"up", "down"})  BY <2>4
  <2>8. Types'  BY <1>0, <2>1, <2>2, <2>3, <2>4, <2>6, <2>7 DEF Types
  <2> QED BY <2>2, <2>4, <2>5, <2>8 DEF StageInv
<1>4. CASE Drain
  <2>1. Types'  BY <1>0, <1>4, DrainFacts DEF Drain, Types, events
  <2>2. ctx'.state = ctx.state /\ ctx'.standby = ctx.standby  BY <1>4 DEF Drain, Types, CtxType
  <2>3. pc' = "switch"  BY <1>4 DEF Drain
  <2> QED BY <2>1, <2>2, <2>3 DEF StageInv, Unframed, Untuned, Connecting
<1>5. CASE Connect \/ ReadGen \/ Drop \/ StayConnected
  <2>1. ctx' \in CtxType /\ ctx'.standby = ctx.standby
    <3>1. CASE Connect  BY <3>1 DEF Connect, Types, CtxType
    <3>2. CASE ReadGen  BY <3>2 DEF ReadGen, Types, CtxType, LinkType
    <3>3. CASE Drop
      <4>1. -1 \in Int  OBVIOUS
      <4> QED BY <3>3, <4>1 DEF Drop, Types, CtxType
    <3>4. CASE StayConnected  BY <3>4 DEF StayConnected, Types, CtxType, LinkType
    <3> QED BY <1>5, <3>1, <3>2, <3>3, <3>4
  <2>2. UNCHANGED <<chip, mail, saved, lk, evq, session>>
    BY <1>5 DEF Connect, ReadGen, Drop, StayConnected, events
  <2>3. Types'  BY <1>0, <2>1, <2>2 DEF Types
  <2>4. /\ pc' # "start"
        /\ pc' \in Unframed \cup {"check", "retry"} => ctx'.state = "CONNECTED"
    <3>1. CASE Connect  BY <3>1 DEF Connect, Types, CtxType
    <3>2. CASE ReadGen  BY <3>2 DEF ReadGen, Types, CtxType, StageInv, Unframed, Untuned, Connecting
    <3>3. CASE Drop  BY <3>3 DEF Drop, Unframed, Untuned, Connecting
    <3>4. CASE StayConnected  BY <3>4 DEF StayConnected, Types, CtxType
    <3> QED BY <1>5, <3>1, <3>2, <3>3, <3>4
  <2> QED BY <2>1, <2>3, <2>4 DEF StageInv
<1>6. CASE TuneBandwidth
  <2>1. WantedBw \in Nat  BY LifecycleAssumption DEF WantedBw, Types, FileType
  <2>2. chip' \in ChipType  BY <1>6, <2>1, TuningFacts DEF TuneBandwidth, Types
  <2>3. ctx' \in CtxType /\ ctx'.state = ctx.state /\ ctx'.standby = ctx.standby
    BY <1>6, <2>1 DEF TuneBandwidth, Types, CtxType
  <2>4. Types'  BY <1>0, <1>6, <2>2, <2>3 DEF TuneBandwidth, Types, events
  <2> QED BY <1>6, <2>3, <2>4 DEF TuneBandwidth, StageInv, Unframed, Untuned, Connecting
<1>7. CASE TunePower
  <2>1. Types'  BY <1>0, <1>7, TuneFacts DEF TunePower, Types, events
  <2> QED BY <1>7, <2>1 DEF TunePower, StageInv, Unframed, Untuned, Connecting
<1>8. CASE TuneFrame \/ RetryFrame
  <2>1. ctx' \in CtxType /\ chip' \in ChipType /\ ctx'.state = ctx.state /\ ctx'.standby = ctx.standby
    BY <1>8, FrameFacts DEF TuneFrame, RetryFrame, Types
  <2>2. Types'  BY <1>0, <1>8, <2>1 DEF TuneFrame, RetryFrame, Types, events
  <2>3. pc' # "start" /\ (pc' \in Unframed \cup {"check", "retry"} => pc \in Unframed)
    BY <1>8 DEF TuneFrame, RetryFrame, Unframed, Untuned, Connecting
  <2> QED BY <2>1, <2>2, <2>3 DEF StageInv
<1>9. CASE CheckBandwidth
  <2>1. ctx' \in CtxType /\ ctx'.state = ctx.state /\ ctx'.standby = ctx.standby
    <3>1. CASE UNCHANGED ctx  BY <3>1 DEF Types
    <3>2. CASE ctx' = [ctx EXCEPT !.fcPending = @ \/ FrameChange]
      <4>1. PICK b \in BOOLEAN : b = (ctx.fcPending \/ FrameChange)  BY LifecycleAssumption, Zenon
      <4>2. ctx' = [ctx EXCEPT !.fcPending = b]  BY <3>2, <4>1
      <4> QED BY <4>2 DEF Types, CtxType
    <3> QED BY <1>9, <3>1, <3>2 DEF CheckBandwidth
  <2>2. chip' \in ChipType
    <3>1. CASE UNCHANGED chip  BY <3>1 DEF Types
    <3>2. CASE ctx.bw > 0 /\ chip' \in TuningApplies(chip, ctx.bw)
      <4>1. ctx.bw \in Nat  BY <3>2 DEF Types, CtxType
      <4> QED BY <3>2, <4>1, TuningFacts DEF Types
    <3> QED BY <1>9, <3>1, <3>2 DEF CheckBandwidth
  <2>3. Types'  BY <1>0, <1>9, <2>1, <2>2 DEF CheckBandwidth, Types, events
  <2> QED BY <1>9, <2>1, <2>3 DEF CheckBandwidth, StageInv
<1>10. CASE Post
  <2>1. Types'  BY <1>0, <1>10, PostFacts, PostChip DEF Post, Types, events
  <2>2. ctx'.state = ctx.state /\ (~StandbyMode => ctx'.standby = ctx.standby)  BY <1>10, PostFacts
  <2>3. pc' = "sleep"  BY <1>10 DEF Post
  <2> QED BY <2>1, <2>2, <2>3 DEF StageInv, Unframed, Untuned, Connecting
<1>11. CASE EventGen
  BY <1>0, <1>11, EventGenFacts DEF Types, StageInv
<1>12. CASE ChipLinks \/ ChipDrops
  BY <1>0, <1>12, LinkChangeFacts DEF Types, StageInv
<1>13. CASE ChipBandwidth
  <2>2. chip' \in ChipType  BY <1>13, ChipBandwidthFacts
  <2> QED BY <1>0, <1>13, <2>2 DEF ChipBandwidth, Types, StageInv, thread, events
<1>14. CASE SessionLost
  <2>1. chip.bw \in Nat /\ NoFiles \in FileType  BY DEF Types, ChipType, NoFiles, FileType
  <2>2. chip' \in ChipType  BY <1>14, <2>1, StartFacts DEF SessionLost
  <2>3. evq' = << >> /\ session' = FALSE /\ UNCHANGED <<pc, ctx, mail, saved, lk>>
    BY <1>14 DEF SessionLost, thread
  <2>4. session' \in BOOLEAN  BY <2>3, Zenon
  <2>5. evq' \in Seq({"up", "down"})  BY <2>3
  <2>6. Types'  BY <1>0, <2>2, <2>3, <2>4, <2>5 DEF Types
  <2> QED BY <2>3, <2>6 DEF StageInv
<1>15. CASE DaemonUp
  BY <1>0, <1>15 DEF DaemonUp, Types, StageInv, thread, events
<1> QED BY <1>1, <1>2, <1>3, <1>4, <1>5, <1>6, <1>7, <1>8, <1>9, <1>10, <1>11, <1>12, <1>13,
  <1>14, <1>15, NextCases

\* The process starts with the types, and in its first state.
LEMMA InitBase == Init => Types /\ StageInv
<1> SUFFICES ASSUME Init PROVE Types /\ StageInv  OBVIOUS
<1>1. NoFiles \in FileType  BY DEF NoFiles, FileType
<1>2. PICK bw \in ChipBws : chip = ResetChip(bw)  BY DEF Init
<1>3. bw \in Nat  BY LifecycleAssumption
<1>4. Types
  <2>1. ctx \in CtxType /\ chip \in ChipType /\ mail \in MailType /\ saved \in FileType
    BY <1>1, <1>2, <1>3, StartFacts DEF Init
  <2>2. loop \in LoopType /\ lk \in LinkType  BY <1>1, StartFacts DEF Init
  <2>3. evq = << >> /\ session = FALSE  BY DEF Init
  <2>4. session \in BOOLEAN  BY <2>3, Zenon
  <2>5. evq \in Seq({"up", "down"})  BY <2>3
  <2> QED BY <2>1, <2>2, <2>4, <2>5 DEF Types
<1>5. StageInv
  <2>1. ctx.state = "INIT" /\ ctx.standby = FALSE  BY <1>1, StartFacts DEF Init
  <2> QED BY <2>1 DEF Init, StageInv, Unframed, Untuned, Connecting
<1> QED BY <1>4, <1>5

-----------------------------------------------------------------------------
(* LowPowerEnds *)

\* With a default level there is always a wanted one, and it is not the standby target.
LEMMA LevelFacts ==
  ASSUME DefaultPower # PowerNone, NEW x \in CtxType
  PROVE  /\ WantedPower(x) # PowerNone
         /\ WantedPower(x) = StandbyPower <=> x.standby = TRUE
<1>1. x.power \in Levels /\ x.standby \in BOOLEAN  BY DEF CtxType
<1>2. x.power # StandbyPower /\ x.power # PowerNone /\ StandbyPower # PowerNone
  BY <1>1, LifecycleAssumption DEF Levels, StandbyPower, PowerNone
<1>3. CASE x.standby = TRUE  BY <1>2, <1>3 DEF WantedPower
<1>4. CASE x.standby = FALSE  BY <1>2, <1>4 DEF WantedPower
<1> QED BY <1>1, <1>3, <1>4

\* Every path that sets the power sets the level that the standby flag of the moment asks for, and
\* the step that clears the flag is one of them.
LEMMA NextLow ==
  ASSUME DefaultPower # PowerNone, Types, StageInv, LowInv, [Next]_vars
  PROVE  LowInv'
<1>0. Types' /\ StageInv'  BY NextBase
<1>1. CASE Plain
  <2>1. SameCtx /\ chip' = chip /\ session' = session  BY <1>1, PlainFacts
  <2>2. Running' => Running
    BY <1>1, PlainPc DEF Running
  <2>3. pc' = "sleep" => pc = "sleep"  BY <1>1, PlainPc
  <2> QED BY <2>1, <2>2, <2>3 DEF LowInv, SameCtx
<1>2. CASE Startup
  <2>1. ctx' \in CtxType /\ session /\ pc' = "top" /\ chip' = apply_power(chip, ctx)
        /\ ctx.standby = FALSE
    BY <1>0, <1>2 DEF Startup, Types, StageInv
  <2>2. chip'.power # StandbyPower
    BY <2>1, PowerFacts, LevelFacts DEF Types
  <2> QED BY <2>1, <2>2 DEF LowInv
<1>3. CASE Reexec
  BY <1>3 DEF Reexec, LowInv
<1>4. CASE Drain
  <2>1. pc' = "switch" /\ pc = "drain" /\ session' = session /\ ctx' \in CtxType
    BY <1>0, <1>4 DEF Drain, Types
  <2>2. ctx'.standby = ctx.standby  BY <1>4 DEF Drain, Types, CtxType
  <2>3. chip'.power \in {chip.power, WantedPower(ctx')}  BY <1>4, DrainFacts
  <2>4. CASE chip'.power = chip.power
    BY <2>1, <2>2, <2>4 DEF LowInv, Running
  <2>5. CASE chip'.power = WantedPower(ctx')
    BY <2>1, <2>5, LevelFacts DEF LowInv
  <2> QED BY <2>3, <2>4, <2>5
<1>5. CASE TunePower
  <2>1. pc' # "sleep" /\ pc \in {"power", "repower"} /\ session' = session /\ ctx' = ctx
    BY <1>5 DEF TunePower
  <2>2. CASE chip'.power = chip.power
    BY <2>1, <2>2 DEF LowInv, Running
  <2>3. CASE chip'.power = WantedPower(ctx)
    BY <2>1, <2>3, LevelFacts DEF LowInv, Types
  <2> QED BY <1>5, <2>2, <2>3, TuneFacts
<1>6. CASE Post
  <2>1. pc' = "sleep" /\ pc = "post" /\ session' = session /\ ctx' \in CtxType
    BY <1>0, <1>6 DEF Post, Types
  <2>2. session /\ chip'.power = StandbyPower => ctx'.standby = TRUE
    <3>1. CASE ctx'.standby = ctx.standby
      BY <1>6, <2>1, <3>1, PostChip DEF LowInv, Running
    <3>2. CASE ctx'.standby # ctx.standby
      BY <1>6, <2>1, <3>2, PostChip, LevelFacts
    <3> QED BY <3>1, <3>2
  <2>3. ctx'.armed = TRUE /\ ctx'.overheat = FALSE => ctx'.standby = FALSE
    BY <1>0, <1>6, PostFacts DEF StageInv
  <2> QED BY <2>1, <2>2, <2>3 DEF LowInv
<1>7. CASE Connect \/ ReadGen \/ Drop \/ StayConnected
  <2>1. ctx'.standby = ctx.standby
    BY <1>7 DEF Connect, ReadGen, Drop, StayConnected, Types, CtxType
  <2>2. chip' = chip /\ session' = session /\ pc' # "sleep" /\ pc \in {"switch", "gen"}
    BY <1>7 DEF Connect, ReadGen, Drop, StayConnected
  <2> QED BY <2>1, <2>2 DEF LowInv, Running
<1>8. CASE TuneBandwidth \/ CheckBandwidth
  <2>1. chip'.power = chip.power /\ ctx'.standby = ctx.standby
    <3>1. CASE TuneBandwidth
      <4>1. WantedBw \in Nat  BY LifecycleAssumption DEF WantedBw, Types, FileType
      <4> QED BY <3>1, <4>1, TuningFacts DEF TuneBandwidth, Types, CtxType
    <3>2. CASE CheckBandwidth
      <4>1. ctx.bw > 0 => ctx.bw \in Nat  BY DEF Types, CtxType
      <4> QED BY <3>2, <4>1, TuningFacts DEF CheckBandwidth, Types, CtxType
    <3> QED BY <1>8, <3>1, <3>2
  <2>2. session' = session /\ pc' # "sleep" /\ pc \in {"tune", "check"}
    BY <1>8 DEF TuneBandwidth, CheckBandwidth
  <2> QED BY <2>1, <2>2 DEF LowInv, Running
<1>9. CASE TuneFrame \/ RetryFrame
  <2>1. chip'.power = chip.power /\ ctx'.standby = ctx.standby
    BY <1>9, FrameFacts DEF TuneFrame, RetryFrame
  <2>2. session' = session /\ pc' # "sleep" /\ pc \in {"frame", "reframe", "retry"}
    BY <1>9 DEF TuneFrame, RetryFrame
  <2> QED BY <2>1, <2>2 DEF LowInv, Running
<1>10. CASE EventGen
  BY <1>10, EventGenFacts DEF LowInv, Running
<1>11. CASE ChipLinks \/ ChipDrops
  <2>1. ChipPower # StandbyPower  BY DEF ChipPower, StandbyPower
  <2> QED BY <1>11, <2>1, LinkChangeFacts DEF LowInv, Running
<1>12. CASE ChipBandwidth
  <2>1. chip'.power = chip.power  BY <1>12, ChipBandwidthFacts
  <2> QED BY <1>12, <2>1 DEF ChipBandwidth, LowInv, Running, thread
<1>13. CASE SessionLost
  BY <1>13 DEF SessionLost, LowInv, thread
<1>14. CASE DaemonUp
  BY <1>14 DEF DaemonUp, LowInv, Running, thread
<1> QED BY <1>1, <1>2, <1>3, <1>4, <1>5, <1>6, <1>7, <1>8, <1>9, <1>10, <1>11, <1>12, <1>13,
  <1>14, NextCases

\* lc_standby_update, lc_apply_power: between two ticks an armed unit that is not paused for heat
\* is not at standby power, for any debounces, levels and number of drops, relinks, requests and
\* restarts, where there is a wanted level at all (--default-power is not "none").
THEOREM LowPowerEndsHolds ==
  ASSUME DefaultPower # PowerNone
  PROVE  Spec => []LowPowerEnds
<1>1. Init => LowInv  BY DEF Init, LowInv, Running
<1>2. Types /\ LowInv => LowPowerEnds
  <2> SUFFICES ASSUME Types, LowInv, pc = "sleep", session, ctx.armed, ~ctx.overheat
               PROVE  chip.power # StandbyPower
    BY DEF LowPowerEnds
  <2>1. ctx.armed = TRUE /\ ctx.overheat = FALSE
    <3>1. ctx.armed \in BOOLEAN /\ ctx.overheat \in BOOLEAN  BY DEF Types, CtxType
    <3> QED BY <3>1
  <2> QED BY <2>1 DEF LowInv, Running
<1>3. Types /\ StageInv /\ [Next]_vars => Types' /\ StageInv'  BY NextBase
<1>4. Types /\ StageInv /\ LowInv /\ [Next]_vars => LowInv'  BY NextLow
<1> QED BY <1>1, <1>2, <1>3, <1>4, InitBase, PTL DEF Spec

-----------------------------------------------------------------------------
(* SettingsHeld *)

\* A bandwidth request changes the disk and, while connected, the loop's target together; a
\* connect reads the disk.
LEMMA NextBw ==
  ASSUME Types, StageInv, BwInv, [Next]_vars
  PROVE  BwInv'
<1> USE DEF Connected
<1>1. CASE Plain
  <2>1. SameCtx /\ saved' = saved  BY <1>1, PlainFacts
  <2>2. pc \in Connecting => pc' = pc
    BY <1>1 DEF Plain, AbandonStartup, Stop, SkipPoll, PollRead, PollSet, PollFail,
       StayIdle, ConfirmConnect, MissLink, Sleep, EventState, Http, request_bandwidth, request_retx,
       request_power, request_armed, Request, Terminate, vars, thread, Connecting
  <2> QED BY <2>1, <2>2 DEF BwInv, SameCtx, WantedBw
<1>2. CASE Startup
  BY <1>2 DEF Startup, BwInv, StageInv, Types, CtxType
<1>3. CASE Reexec
  <2>1. ctx' = lifecycle_init(saved)  BY <1>3 DEF Reexec
  <2> QED BY <2>1, StartFacts DEF BwInv, Types
<1>4. CASE Drain
  <2>1. ctx'.state = ctx.state /\ pc \notin Connecting
        /\ ctx'.bw = IF mail.bw > 0 /\ ctx.state = "CONNECTED" THEN mail.bw ELSE ctx.bw
    BY <1>4 DEF Drain, Types, CtxType, Connecting
  <2>2. saved'.bw = IF mail.bw > 0 THEN mail.bw ELSE saved.bw
    BY <1>4 DEF Drain, FilesDrained
  <2> QED BY <2>1, <2>2 DEF BwInv, WantedBw
<1>5. CASE Connect
  BY <1>5 DEF Connect, BwInv, Connecting, Types, CtxType
<1>6. CASE ReadGen
  BY <1>6 DEF ReadGen, BwInv, StageInv, Connecting, Unframed, Untuned, Types, CtxType
<1>7. CASE TuneBandwidth
  <2>1. ctx'.bw = WantedBw /\ ctx'.state = ctx.state /\ saved' = saved /\ ctx.state = "CONNECTED"
    BY <1>7 DEF TuneBandwidth, Types, CtxType, StageInv, Connecting, Unframed, Untuned
  <2> QED BY <2>1 DEF BwInv, WantedBw
<1>8. CASE Drop
  BY <1>8 DEF Drop, BwInv, Types, CtxType
<1>9. CASE StayConnected
  <2>1. ctx'.bw = ctx.bw /\ ctx'.state = ctx.state /\ saved' = saved /\ pc \notin Connecting
    BY <1>9 DEF StayConnected, Types, CtxType, Connecting
  <2> QED BY <2>1 DEF BwInv, WantedBw
<1>10. CASE CheckBandwidth
  <2>1. ctx'.bw = ctx.bw /\ ctx'.state = ctx.state /\ saved' = saved /\ pc \notin Connecting
    BY <1>10 DEF CheckBandwidth, Types, CtxType, Connecting
  <2> QED BY <2>1 DEF BwInv, WantedBw
<1>11. CASE TuneFrame \/ RetryFrame
  <2>1. ctx'.bw = ctx.bw /\ ctx'.state = ctx.state
    BY <1>11, FrameFacts DEF TuneFrame, RetryFrame
  <2>2. saved' = saved /\ pc \notin Connecting
    BY <1>11 DEF TuneFrame, RetryFrame, Connecting
  <2> QED BY <2>1, <2>2 DEF BwInv, WantedBw
<1>12. CASE TunePower
  BY <1>12 DEF TunePower, BwInv, WantedBw, Connecting
<1>13. CASE Post
  <2>1. ctx'.bw = ctx.bw /\ ctx'.state = ctx.state  BY <1>13, PostFacts
  <2>2. saved' = saved /\ pc \notin Connecting  BY <1>13 DEF Post, Connecting
  <2> QED BY <2>1, <2>2 DEF BwInv, WantedBw
<1>14. CASE EventGen \/ ChipLinks \/ ChipDrops \/ ChipBandwidth \/ SessionLost \/ DaemonUp
  <2>1. UNCHANGED <<pc, ctx, saved>>
    BY <1>14 DEF EventGen, ChipLinks, ChipDrops, LinkChange, ChipBandwidth, SessionLost, DaemonUp, thread
  <2> QED BY <2>1 DEF BwInv, WantedBw
<1> QED BY <1>1, <1>2, <1>3, <1>4, <1>5, <1>6, <1>7, <1>8, <1>9, <1>10, <1>11, <1>12, <1>13,
  <1>14, NextCases

\* A step that changes no setting and does not end the tuning.
LEMMA HeldOn ==
  ASSUME TuneInv, ctx'.gen <= lk'.gen, Holding' => Holding,
         pc \in Untuned /\ Holding' => pc' \in Untuned,
         pc \in Unframed /\ Holding' => pc' \in Unframed,
         chip'.retx = chip.retx, chip'.power = chip.power, chip'.fc = chip.fc, chip'.bw = chip.bw,
         ctx'.power = ctx.power, ctx'.standby = ctx.standby, ctx'.fcPending = ctx.fcPending,
         ctx'.bw = ctx.bw, saved'.retx = saved.retx, slipped' = slipped
  PROVE  TuneInv'
<1>1. WantedRetx' = WantedRetx /\ WantedPower(ctx)' = WantedPower(ctx)
  BY DEF WantedRetx, WantedPower
<1>2. BandwidthOff' <=> BandwidthOff  BY DEF BandwidthOff
<1> QED BY <1>1, <1>2 DEF TuneInv

\* The bandwidth aside, a setting changes only in the step that also changes what is wanted, in the
\* tuning, or in a relink, which the events or connect_gen hold until a tuning after it.
LEMMA NextTune ==
  ASSUME Types, StageInv, TuneInv, [Next]_vars
  PROVE  TuneInv'
<1> USE DEF Connected
<1>0. Types' /\ ctx.gen \in Nat /\ lk.gen \in Nat  BY NextBase DEF Types, CtxType, LinkType
<1>1. CASE Plain
  <2>1. SameCtx /\ lk'.gen = lk.gen /\ UNCHANGED <<chip, saved, evq, session, slipped>>
    BY <1>1, PlainFacts
  <2>2. pc' = "stopped" \/ pc \notin Unframed \/ pc' = pc  BY <1>1, PlainPc
  <2>3. pc = "stopped" => pc' = "stopped"  BY <1>1, PlainPc
  <2>4. Untuned \subseteq Unframed  BY DEF Unframed
  <2>5. Holding' => Holding  BY <2>1, <2>3 DEF Holding, NoUp, SameCtx
  <2>6. Holding' => pc' # "stopped"  BY DEF Holding
  <2> QED BY <2>1, <2>2, <2>4, <2>5, <2>6, HeldOn DEF SameCtx, TuneInv
<1>2. CASE Startup
  <2>1. ctx'.state = "IDLE" /\ ctx'.gen = ctx.gen /\ lk' = lk
    BY <1>2 DEF Startup, Types, CtxType, events
  <2> QED BY <2>1 DEF TuneInv, Holding
<1>3. CASE Reexec
  <2>1. ctx' = lifecycle_init(saved) /\ lk' = NoLink /\ session' = FALSE  BY <1>3 DEF Reexec
  <2>2. ctx'.gen = 0 /\ lk'.gen = 0  BY <2>1, StartFacts DEF Types
  <2> QED BY <2>1, <2>2 DEF TuneInv, Holding
<1>4. CASE Drain
  <2>1. /\ ctx'.state = ctx.state /\ ctx'.gen = ctx.gen /\ ctx'.standby = ctx.standby
        /\ ctx'.fcPending = ctx.fcPending
        /\ mail.power = Empty => ctx'.power = ctx.power
    BY <1>4 DEF Drain, Types, CtxType
  <2>2. lk' = lk /\ evq' = evq /\ session' = session /\ pc = "drain" /\ pc' = "switch"
    BY <1>4 DEF Drain, events
  <2>3. pc \notin Unframed /\ pc \notin Untuned  BY <2>2 DEF Unframed, Untuned, Connecting
  <2>4. chip'.link = chip.link  BY <1>4, DrainFacts
  <2>5. Holding' => Holding  BY <2>1, <2>2, <2>4 DEF Holding, NoUp
  <2>6. Holding => session  BY DEF Holding
  <2>7. Holding' => chip'.retx = WantedRetx'
    <3>1. saved'.retx = IF mail.retx # Empty THEN mail.retx ELSE saved.retx
      BY <1>4 DEF Drain, FilesDrained
    <3>2. chip'.retx = IF session /\ mail.retx # Empty THEN mail.retx ELSE chip.retx
      BY <1>4, DrainFacts
    <3>3. mail.retx # Empty => WantedRetx' = mail.retx  BY <3>1 DEF WantedRetx
    <3>4. mail.retx = Empty => WantedRetx' = WantedRetx  BY <3>1 DEF WantedRetx
    <3> QED BY <2>3, <2>5, <2>6, <3>2, <3>3, <3>4 DEF TuneInv
  <2>8. Holding' /\ WantedPower(ctx') # PowerNone => chip'.power = WantedPower(ctx')
    <3>1. CASE mail.power = Empty
      <4>1. WantedPower(ctx') = WantedPower(ctx)  BY <2>1, <3>1 DEF WantedPower
      <4> QED BY <1>4, <2>3, <2>5, <3>1, <4>1, DrainFacts DEF TuneInv
    <3>2. CASE mail.power # Empty
      BY <1>4, <2>5, <2>6, <3>2, DrainFacts
    <3> QED BY <3>1, <3>2
  <2>9. WantedPower(ctx)' = WantedPower(ctx')  BY DEF WantedPower
  <2>10. Holding' /\ FrameChange =>
             chip'.fc = TRUE \/ ctx'.fcPending = TRUE \/ BandwidthOff' \/ slipped' = TRUE
    <3>2. CASE mail.bw > 0
      <4>1. slipped' = (slipped \/ (mail.bw > 0 /\ ~chip'.fc))  BY <1>4 DEF Drain
      <4>2. chip'.fc \in BOOLEAN  BY <1>4, DrainFacts DEF ChipType
      <4>3. chip'.fc = FALSE => slipped' = TRUE  BY <3>2, <4>1
      <4> QED BY <4>2, <4>3
    <3>3. CASE ~(mail.bw > 0)
      <4>1. slipped = TRUE => slipped' = TRUE
        <5>1. slipped' = (slipped \/ (mail.bw > 0 /\ ~chip'.fc))  BY <1>4 DEF Drain
        <5> QED BY <5>1
      <4>2. ctx'.bw = ctx.bw  BY <1>4, <3>3 DEF Drain, Types, CtxType
      <4>3. chip'.fc = chip.fc /\ chip'.bw = chip.bw  BY <1>4, <3>3, DrainFacts
      <4>4. BandwidthOff' <=> BandwidthOff  BY <4>2, <4>3 DEF BandwidthOff
      <4> QED BY <2>1, <2>3, <2>5, <4>1, <4>3, <4>4 DEF TuneInv
    <3> QED BY <3>2, <3>3
  <2> QED BY <2>1, <2>2, <2>3, <2>4, <2>5, <2>7, <2>8, <2>9, <2>10 DEF TuneInv
<1>5. CASE Connect
  <2>1. pc' = "gen" /\ ctx'.gen = ctx.gen /\ lk' = lk
    BY <1>5 DEF Connect, Types, CtxType, events
  <2> QED BY <2>1 DEF TuneInv, Unframed, Untuned, Connecting
<1>6. CASE ReadGen
  <2>1. pc' = "tune" /\ ctx'.gen = lk.gen /\ lk' = lk
    BY <1>6 DEF ReadGen, Types, CtxType, events
  <2> QED BY <1>0, <2>1 DEF TuneInv, Unframed, Untuned, Connecting
<1>7. CASE TuneBandwidth
  <2>1. pc' = "power" /\ ctx'.gen = ctx.gen /\ lk' = lk
    BY <1>7 DEF TuneBandwidth, Types, CtxType, events
  <2> QED BY <2>1 DEF TuneInv, Unframed, Untuned
<1>8. CASE TunePower
  <2>1. UNCHANGED <<ctx, saved, lk, evq, session>> /\ pc' \in {"frame", "reframe"}
    BY <1>8 DEF TunePower, events
  <2>2. pc' \in Unframed  BY <2>1 DEF Unframed
  <2>3. Holding' => session  BY <2>1 DEF Holding
  <2>4. WantedRetx' = WantedRetx /\ WantedPower(ctx)' = WantedPower(ctx)
    BY <2>1 DEF WantedRetx, WantedPower
  <2>5. Holding' => /\ chip'.retx = WantedRetx
                    /\ WantedPower(ctx) # PowerNone => chip'.power = WantedPower(ctx)
    BY <1>8, <2>3, TuneFacts
  <2> QED BY <2>1, <2>2, <2>4, <2>5 DEF TuneInv
<1>9. CASE TuneFrame \/ RetryFrame
  <2>1. UNCHANGED <<saved, lk, evq, session>>  BY <1>9 DEF TuneFrame, RetryFrame, events
  <2>2. pc \in {"frame", "reframe", "retry"} /\ pc' # "stopped"  BY <1>9 DEF TuneFrame, RetryFrame
  <2>3. pc \notin Untuned /\ pc # "stopped"  BY <2>2 DEF Untuned, Connecting
  <2>4. CASE FrameChangeTakes \/ FrameChangeFails
    <3>1. /\ ctx'.state = ctx.state /\ ctx'.gen = ctx.gen
          /\ ctx'.power = ctx.power /\ ctx'.standby = ctx.standby
          /\ chip'.link = chip.link /\ chip'.retx = chip.retx /\ chip'.power = chip.power
          /\ chip'.fc = TRUE \/ ctx'.fcPending = TRUE
      BY <2>4, FrameFacts
    <3>2. Holding' => Holding  BY <2>1, <2>3, <3>1 DEF Holding, NoUp
    <3>3. WantedRetx' = WantedRetx /\ WantedPower(ctx)' = WantedPower(ctx)
      BY <2>1, <3>1 DEF WantedRetx, WantedPower
    <3> QED BY <2>1, <2>3, <3>1, <3>2, <3>3 DEF TuneInv
  <2>5. CASE TuneFrame /\ ~FrameChange
    <3>1. UNCHANGED <<chip, ctx>>  BY <2>5 DEF TuneFrame
    <3>2. Holding' => Holding  BY <2>1, <2>3, <3>1 DEF Holding, NoUp
    <3>3. WantedRetx' = WantedRetx /\ WantedPower(ctx)' = WantedPower(ctx)
      BY <2>1, <3>1 DEF WantedRetx, WantedPower
    <3> QED BY <2>1, <2>3, <2>5, <3>1, <3>2, <3>3 DEF TuneInv
  <2>6. CASE RetryFrame /\ UNCHANGED <<chip, ctx, slipped>>
    <3>1. pc \notin Unframed  BY <2>6 DEF RetryFrame, Unframed, Untuned, Connecting
    <3>2. Holding' => Holding  BY <2>1, <2>3, <2>6 DEF Holding, NoUp
    <3> QED BY <2>1, <2>3, <2>6, <3>1, <3>2, HeldOn DEF TuneInv
  <2> QED BY <1>9, <2>4, <2>5, <2>6 DEF TuneFrame, RetryFrame
<1>10. CASE Drop
  <2>1. ctx'.state = "IDLE" /\ ctx'.gen = ctx.gen /\ lk' = lk
    BY <1>10 DEF Drop, Types, CtxType, events
  <2> QED BY <2>1 DEF TuneInv, Holding
<1>11. CASE StayConnected
  <2>1. /\ ctx'.state = ctx.state /\ ctx'.gen = lk.gen /\ ctx'.power = ctx.power
        /\ ctx'.standby = ctx.standby /\ ctx'.fcPending = ctx.fcPending /\ ctx'.bw = ctx.bw
    BY <1>11 DEF StayConnected, Types, CtxType
  <2>2. UNCHANGED <<saved, chip, lk, evq, session, slipped>> /\ pc = "switch"
    BY <1>11 DEF StayConnected, events
  <2>3. pc \notin Unframed /\ pc \notin Untuned  BY <2>2 DEF Unframed, Untuned, Connecting
  <2>4. CASE lk.gen # ctx.gen
    <3>1. pc' \in Untuned /\ pc' \in Unframed
      BY <1>11, <2>4 DEF StayConnected, Unframed, Untuned
    <3> QED BY <1>0, <2>1, <2>2, <3>1 DEF TuneInv
  <2>5. CASE lk.gen = ctx.gen
    <3>1. Holding' => Holding  BY <2>1, <2>2, <2>5 DEF Holding, NoUp
    <3> QED BY <1>0, <2>1, <2>2, <2>3, <3>1, HeldOn
  <2> QED BY <2>4, <2>5
<1>12. CASE CheckBandwidth
  <2>1. UNCHANGED <<saved, lk, evq, session, slipped>> /\ pc = "check" /\ pc' = "retry"
    BY <1>12 DEF CheckBandwidth, events
  <2>2. pc \notin Unframed /\ pc \notin Untuned  BY <2>1 DEF Unframed, Untuned, Connecting
  <2>3. CASE UNCHANGED <<chip, ctx>>
    <3>1. Holding' => Holding  BY <2>1, <2>3 DEF Holding, NoUp
    <3> QED BY <2>1, <2>2, <2>3, <3>1, HeldOn DEF TuneInv
  <2>4. CASE /\ ctx.bw > 0 /\ chip' \in TuningApplies(chip, ctx.bw)
             /\ ctx' = [ctx EXCEPT !.fcPending = @ \/ FrameChange]
    <3>1. PICK b \in BOOLEAN : b = (ctx.fcPending \/ FrameChange)  BY LifecycleAssumption, Zenon
    <3>2. ctx' = [ctx EXCEPT !.fcPending = b]  BY <2>4, <3>1
    <3>3. FrameChange => b = TRUE  BY <3>1, Zenon
    <3>4. /\ ctx'.state = ctx.state /\ ctx'.gen = ctx.gen
          /\ ctx'.power = ctx.power /\ ctx'.standby = ctx.standby /\ ctx'.fcPending = b
      BY <3>2 DEF Types, CtxType
    <3>5. chip'.link = chip.link /\ chip'.retx = chip.retx /\ chip'.power = chip.power
      <4>1. ctx.bw \in Nat /\ chip \in ChipType  BY <2>4 DEF Types, CtxType
      <4> QED BY <2>4, <4>1, TuningFacts
    <3>6. Holding' => Holding  BY <2>1, <3>4, <3>5 DEF Holding, NoUp
    <3>7. WantedRetx' = WantedRetx /\ WantedPower(ctx)' = WantedPower(ctx)
      BY <2>1, <3>4 DEF WantedRetx, WantedPower
    <3> QED BY <2>1, <2>2, <3>3, <3>4, <3>5, <3>6, <3>7 DEF TuneInv
  <2> QED BY <1>12, <2>3, <2>4 DEF CheckBandwidth
<1>13. CASE Post
  <2>1. UNCHANGED <<saved, lk, evq, session, slipped>> /\ pc = "post" /\ pc' = "sleep"
    BY <1>13 DEF Post, events
  <2>2. pc \notin Unframed /\ pc \notin Untuned  BY <2>1 DEF Unframed, Untuned, Connecting
  <2>3. /\ ctx'.state = ctx.state /\ ctx'.gen = ctx.gen
        /\ ctx'.power = ctx.power /\ ctx'.fcPending = ctx.fcPending /\ ctx'.bw = ctx.bw
    BY <1>13, PostFacts
  <2>4. /\ chip'.link = chip.link /\ chip'.retx = chip.retx /\ chip'.fc = chip.fc /\ chip'.bw = chip.bw
        /\ chip'.power = IF ctx'.standby # ctx.standby /\ session /\ WantedPower(ctx') # PowerNone
                         THEN WantedPower(ctx') ELSE chip.power
    BY <1>13, PostChip
  <2>5. Holding' => Holding /\ session  BY <2>1, <2>3, <2>4 DEF Holding, NoUp
  <2>6. WantedRetx' = WantedRetx /\ WantedPower(ctx)' = WantedPower(ctx')
    BY <2>1 DEF WantedRetx, WantedPower
  <2>7. ctx'.standby = ctx.standby => WantedPower(ctx') = WantedPower(ctx)
    BY <2>3 DEF WantedPower
  <2>8. BandwidthOff' <=> BandwidthOff  BY <2>3, <2>4 DEF BandwidthOff
  <2> QED BY <2>1, <2>2, <2>3, <2>4, <2>5, <2>6, <2>7, <2>8 DEF TuneInv
<1>14. CASE EventGen
  <2>1. UNCHANGED <<pc, ctx, saved, chip, session, slipped>> /\ lk'.gen >= lk.gen /\ lk'.gen \in Nat
        /\ (NoUp' /\ lk'.gen = lk.gen => NoUp)
    BY <1>14, EventGenFacts DEF LinkType
  <2>2. Holding' => Holding
    <3> SUFFICES ASSUME Holding' PROVE Holding  OBVIOUS
    <3>1. lk'.gen = ctx.gen /\ NoUp'  BY <2>1 DEF Holding
    <3>2. lk'.gen = lk.gen  BY <1>0, <2>1, <3>1 DEF TuneInv
    <3> QED BY <2>1, <3>1, <3>2 DEF Holding
  <2>3. ctx'.gen <= lk'.gen  BY <1>0, <2>1 DEF TuneInv
  <2> QED BY <2>1, <2>2, <2>3, HeldOn
<1>15. CASE ChipLinks \/ ChipDrops
  <2>1. /\ UNCHANGED <<pc, ctx, saved, lk, session>>
        /\ evq' = IF session /\ Running THEN Append(evq, IF chip'.link THEN "up" ELSE "down") ELSE evq
    BY <1>15, LinkChangeFacts
  <2>2. ~Holding'
    <3> SUFFICES ASSUME Holding' PROVE FALSE  OBVIOUS
    <3>1. session /\ Running /\ chip'.link /\ NoUp'
      BY <2>1 DEF Holding, Running, StageInv
    <3>2. evq' = Append(evq, "up")  BY <2>1, <3>1
    <3>3. Len(evq') \in 1..Len(evq') /\ evq'[Len(evq')] = "up"  BY <3>2 DEF Types
    <3> QED BY <3>1, <3>3 DEF NoUp
  <2> QED BY <2>1, <2>2 DEF TuneInv
<1>16. CASE ChipBandwidth
  <2>1. PICK bw \in ChipBws : /\ chip' \in Renegotiated(chip, bw)
                              /\ slipped' = (slipped \/ (~(ctx.bw > 0 /\ bw # ctx.bw) /\ ~chip'.fc))
    BY <1>16 DEF ChipBandwidth
  <2>2. /\ chip' \in ChipType /\ chip'.bw = bw
        /\ chip'.link = chip.link /\ chip'.power = chip.power /\ chip'.retx = chip.retx
    <3>1. bw \in Nat /\ chip \in ChipType  BY LifecycleAssumption DEF Types
    <3> QED BY <2>1, <3>1, RenegotiatedFacts
  <2>3. UNCHANGED <<pc, ctx, saved, lk, evq, session>>  BY <1>16 DEF ChipBandwidth, thread, events
  <2>4. Holding' => Holding  BY <2>2, <2>3 DEF Holding, NoUp
  <2>5. chip'.fc = TRUE \/ BandwidthOff' \/ slipped' = TRUE
    <3>1. chip'.fc \in BOOLEAN  BY <2>2 DEF ChipType
    <3>2. BandwidthOff' <=> ctx.bw > 0 /\ bw # ctx.bw  BY <2>2, <2>3 DEF BandwidthOff
    <3>3. CASE BandwidthOff'  BY <3>3
    <3>4. CASE ~BandwidthOff' /\ chip'.fc = FALSE
      <4>1. slipped' = TRUE  BY <2>1, <3>2, <3>4
      <4> QED BY <4>1
    <3> QED BY <3>1, <3>3, <3>4
  <2>6. WantedRetx' = WantedRetx /\ WantedPower(ctx)' = WantedPower(ctx)
    BY <2>3 DEF WantedRetx, WantedPower
  <2> QED BY <2>2, <2>3, <2>4, <2>5, <2>6 DEF TuneInv
<1>17. CASE SessionLost
  BY <1>17 DEF SessionLost, TuneInv, Holding, thread
<1>18. CASE DaemonUp
  BY <1>18 DEF DaemonUp, TuneInv, Holding, StageInv, thread, events
<1> QED BY <1>1, <1>2, <1>3, <1>4, <1>5, <1>6, <1>7, <1>8, <1>9, <1>10, <1>11, <1>12, <1>13,
  <1>14, <1>15, <1>16, <1>17, <1>18, NextCases

\* lc_apply_link_tuning, connect_gen, lc_drain_bandwidth_request: between two ticks a connected
\* unit runs with what the operator set, for any debounces, settings and number of relinks at any
\* point of the tuning, on a chip where a new bandwidth may undo the frame change: the loop has it
\* pending or sees the bandwidth, unless the change slipped.
THEOREM SettingsHeldHolds == Spec => []SettingsHeld
<1>1. Init => BwInv /\ TuneInv
  <2> SUFFICES ASSUME Init PROVE BwInv /\ TuneInv  OBVIOUS
  <2>1. NoFiles \in FileType  BY DEF NoFiles, FileType
  <2>2. ctx.state = "INIT" /\ ctx.bw = -1 /\ ctx.gen = 0 /\ lk.gen = 0
    BY <2>1, StartFacts DEF Init
  <2> QED BY <2>2 DEF BwInv, TuneInv, Holding, Connected
<1>2. Types /\ BwInv /\ TuneInv => SettingsHeld
  <2> SUFFICES ASSUME Types, BwInv, TuneInv, pc = "sleep" PROVE SettingsHeld
    BY DEF SettingsHeld, TuningHeld, Steady, BandwidthAsSaved
  <2>1. pc \notin Unframed /\ pc \notin Untuned /\ pc \notin Connecting
    BY DEF Unframed, Untuned, Connecting
  <2>2. BandwidthAsSaved  BY <2>1 DEF BandwidthAsSaved, BwInv, Connected
  <2>3. ASSUME ctx.state = "CONNECTED", session, chip.link, RelinksSeen PROVE Holding
    <3>1. evq = << >> /\ lk.gen = ctx.gen  BY <2>3 DEF RelinksSeen, Quiet
    <3>2. NoUp  BY <3>1 DEF NoUp
    <3> QED BY <2>3, <3>1, <3>2 DEF Holding, Connected
  <2>4. TuningHeld  BY <2>1, <2>3 DEF TuningHeld, Steady, TuneInv
  <2> QED BY <2>2, <2>4 DEF SettingsHeld
<1>3. Types /\ StageInv /\ [Next]_vars => Types' /\ StageInv'  BY NextBase
<1>4. Types /\ StageInv /\ BwInv /\ [Next]_vars => BwInv'  BY NextBw
<1>5. Types /\ StageInv /\ TuneInv /\ [Next]_vars => TuneInv'  BY NextTune
<1> QED BY <1>1, <1>2, <1>3, <1>4, <1>5, InitBase, PTL DEF Spec

-----------------------------------------------------------------------------
(* DropNeedsOutage *)

\* The steps between the poll and the sleep of a tick.
Middle ==
    \/ Drain \/ StayIdle \/ ConfirmConnect \/ Connect \/ ReadGen \/ TuneBandwidth \/ TunePower
    \/ TuneFrame \/ MissLink \/ Drop \/ StayConnected \/ CheckBandwidth \/ RetryFrame \/ Post
MiddlePcs == PCs \ {"start", "top", "pollset", "stopped"}

\* They leave the poll timer, the events and the link as they are.
LEMMA MiddleFacts ==
  ASSUME Types, Middle
  PROVE  /\ UNCHANGED <<loop, lk, evq, ev, session, since>>
         /\ chip'.link = chip.link
         /\ pc \in MiddlePcs /\ pc' \in MiddlePcs
<1>1. UNCHANGED <<loop, lk, evq, ev, session, since>>
  BY DEF Middle, Drain, StayIdle, ConfirmConnect, Connect, ReadGen, TuneBandwidth, TunePower,
     TuneFrame, MissLink, Drop, StayConnected, CheckBandwidth, RetryFrame, Post, events
<1>2. pc \in MiddlePcs /\ pc' \in MiddlePcs
  BY DEF Middle, Drain, StayIdle, ConfirmConnect, Connect, ReadGen, TuneBandwidth, TunePower,
     TuneFrame, MissLink, Drop, StayConnected, CheckBandwidth, RetryFrame, Post, MiddlePcs, PCs
<1>3. chip'.link = chip.link
  <2>1. CASE Drain  BY <2>1, DrainFacts
  <2>2. CASE TuneBandwidth
    <3>1. WantedBw \in Nat  BY LifecycleAssumption DEF WantedBw, Types, FileType
    <3> QED BY <2>2, <3>1, TuningFacts DEF TuneBandwidth, Types
  <2>3. CASE CheckBandwidth
    <3>1. ctx.bw > 0 => ctx.bw \in Nat  BY DEF Types, CtxType
    <3> QED BY <2>3, <3>1, TuningFacts DEF CheckBandwidth, Types
  <2>4. CASE TunePower  BY <2>4, TuneFacts
  <2>5. CASE TuneFrame \/ RetryFrame  BY <2>5, FrameFacts DEF TuneFrame, RetryFrame
  <2>6. CASE Post  BY <2>6, PostChip
  <2>7. CASE StayIdle \/ ConfirmConnect \/ Connect \/ ReadGen \/ MissLink \/ Drop \/ StayConnected
    BY <2>7 DEF StayIdle, ConfirmConnect, Connect, ReadGen, MissLink, Drop, StayConnected
  <2> QED BY <2>1, <2>2, <2>3, <2>4, <2>5, <2>6, <2>7 DEF Middle
<1> QED BY <1>1, <1>2, <1>3

\* The first sleep after a link change waits for its events, and from then on the poll timer runs
\* down no slower than the ticks count up.
LEMMA NextOutage ==
  ASSUME PromptEvents, Types, OutageInv, [Next]_vars
  PROVE  OutageInv'
<1> USE LifecycleAssumption
<1>0. loop' \in LoopType  BY NextLoop
<1>1. CASE Middle
  BY <1>1, MiddleFacts DEF OutageInv, MiddlePcs
<1>2. CASE Startup
  <2>1. chip'.link = chip.link  BY <1>2, PowerFacts DEF Startup, Types
  <2> QED BY <1>2, <2>1 DEF Startup, OutageInv, events
<1>3. CASE AbandonStartup \/ Stop
  BY <1>3 DEF AbandonStartup, Stop, OutageInv, events
<1>4. CASE SkipPoll
  <2>1. loop'.pollIn = loop.pollIn /\ loop.pollIn > 0 /\ loop'.polled = loop.polled
    BY <1>4 DEF SkipPoll, Types, LoopType
  <2> QED BY <1>4, <2>1 DEF SkipPoll, OutageInv, events
<1>5. CASE PollRead
  <2>1. loop'.polled = chip.link /\ loop'.pollIn = PollTicks
    BY <1>5 DEF PollRead, PollInterval
  <2> QED BY <1>5, <2>1 DEF PollRead, OutageInv, events
<1>6. CASE PollSet
  <2>1. lk'.up = loop.polled  BY <1>6 DEF PollSet, Types, LinkType
  <2> QED BY <1>6, <2>1 DEF PollSet, OutageInv
<1>7. CASE PollFail
  <2>1. loop'.pollIn = PollTicks  BY <1>7 DEF PollFail, PollInterval, Types, LoopType
  <2> QED BY <1>7, <2>1 DEF PollFail, OutageInv, events
<1>8. CASE Sleep
  <2>1. PICK d \in {1, 2} : loop' = [loop EXCEPT !.pollIn = IF @ > d THEN @ - d ELSE 0]
    BY <1>8 DEF Sleep
  <2>2. loop'.pollIn = IF loop.pollIn > d THEN loop.pollIn - d ELSE 0  BY <2>1 DEF Types, LoopType
  <2>3. evq = << >> /\ ev = "none" /\ since' = IF since < PollTicks THEN since + 1 ELSE since
    BY <1>8 DEF Sleep, Quiet
  <2>4. pc = "sleep" /\ pc' = "top" /\ UNCHANGED <<lk, evq, ev, session, chip>>
    BY <1>8 DEF Sleep, events
  <2>5. since \in 0..PollTicks /\ loop.pollIn \in 1..PollTicks
    BY <2>4 DEF OutageInv
  <2>6. loop'.pollIn \in 0..(loop.pollIn - 1) /\ since' \in 1..PollTicks /\ since' <= since + 1
    BY <2>2, <2>3, <2>5
  <2>7. session' => lk'.up = chip'.link \/ loop'.pollIn + since' <= PollTicks
    <3>1. CASE since = 0  BY <2>5, <2>6, <3>1
    <3>2. CASE since > 0 /\ session /\ lk.up = chip.link  BY <2>4, <3>2
    <3>3. CASE since > 0 /\ session /\ loop.pollIn + since <= PollTicks  BY <2>5, <2>6, <3>3
    <3> QED BY <2>4, <2>5, <3>1, <3>2, <3>3 DEF OutageInv
  <2>8. loop'.pollIn \in 0..PollTicks  BY <2>5, <2>6
  <2> QED BY <2>3, <2>4, <2>6, <2>7, <2>8 DEF OutageInv
<1>9. CASE EventGen
  <2>1. since = 0  BY <1>9 DEF EventGen, OutageInv
  <2> QED BY <1>9, <2>1 DEF EventGen, OutageInv, thread
<1>10. CASE EventState
  <2>1. since = 0  BY <1>10 DEF EventState, OutageInv
  <2> QED BY <1>10, <2>1 DEF EventState, OutageInv, thread
<1>11. CASE Http \/ Terminate \/ UNCHANGED vars
  <2>1. UNCHANGED <<pc, loop, lk, evq, ev, session, since, chip>>
    BY <1>11 DEF Http, request_bandwidth, request_retx, request_power, request_armed, Request,
       Terminate, vars, thread, events
  <2> QED BY <2>1 DEF OutageInv
<1>12. CASE ChipBandwidth
  <2>1. chip'.link = chip.link  BY <1>12, ChipBandwidthFacts
  <2>2. UNCHANGED <<pc, loop, lk, evq, ev, session, since>>
    BY <1>12 DEF ChipBandwidth, thread, events
  <2> QED BY <2>1, <2>2 DEF OutageInv
<1>13. CASE ChipLinks \/ ChipDrops \/ SessionLost
  <2>1. since' = 0 /\ UNCHANGED <<pc, loop>>
    BY <1>13 DEF ChipLinks, ChipDrops, LinkChange, SessionLost, thread
  <2> QED BY <2>1 DEF OutageInv
<1>14. CASE Reexec
  <2>1. since' = 0 /\ loop'.pollIn = 0 /\ pc' = "start"  BY <1>14 DEF Reexec, NewLoop
  <2> QED BY <2>1 DEF OutageInv
<1>15. CASE DaemonUp
  BY <1>15 DEF DaemonUp, OutageInv, thread, events
<1> QED BY <1>1, <1>2, <1>3, <1>4, <1>5, <1>6, <1>7, <1>8, <1>9, <1>10, <1>11, <1>12, <1>13,
  <1>14, <1>15 DEF Next, Thread, Reader, Chip, Middle

\* lc_set_link_state, LC_POLL_FALLBACK_S: on a live session the "dropped" hook never fires for a
\* link that has been up for a whole poll interval, for any debounces and poll interval and any
\* interleaving of polls and events, where the reader thread handles an event within a tick.
THEOREM DropNeedsOutageHolds ==
  ASSUME PromptEvents
  PROVE  Spec => DropNeedsOutage
<1>1. Init => OutageInv
  BY LifecycleAssumption DEF Init, OutageInv, NewLoop
<1>2. Types /\ StageInv /\ OutageInv /\ [Next]_vars
        => [session /\ ctx.state = "CONNECTED" /\ ctx'.state = "IDLE"
              => ~chip.link \/ since < PollTicks]_vars
  <2> SUFFICES ASSUME Types, StageInv, OutageInv, Next, session, ctx.state = "CONNECTED",
                      ctx'.state = "IDLE", chip.link, ~(since < PollTicks)
               PROVE  FALSE
    BY DEF vars
  <2>1. CASE Drop
    <3>1. pc = "switch" /\ ~lk.up /\ lk.up \in BOOLEAN /\ chip.link \in BOOLEAN
      BY <2>1 DEF Drop, SeesDrop, Types, LinkType, ChipType
    <3>2. lk.up # chip.link  BY <3>1
    <3>3. since \in 0..PollTicks /\ loop.pollIn \in 1..PollTicks /\ PollTicks \in Nat \ {0}
      BY <3>1, LifecycleAssumption DEF OutageInv
    <3>4. since > 0  BY <3>3
    <3>5. pc \notin {"pollset", "stopped"}  BY <3>1
    <3>6. loop.pollIn + since <= PollTicks
      BY <3>2, <3>4, <3>5, Zenon DEF OutageInv
    <3> QED BY <3>3, <3>6
  <2>2. ASSUME \/ Plain \/ Startup \/ Reexec \/ Drain \/ Connect \/ ReadGen \/ TuneBandwidth
               \/ TunePower \/ TuneFrame \/ StayConnected \/ CheckBandwidth \/ RetryFrame \/ Post
               \/ EventGen \/ ChipLinks \/ ChipDrops \/ ChipBandwidth \/ SessionLost \/ DaemonUp
        PROVE  ctx'.state # "IDLE"
    <3>1. CASE Plain  BY <3>1, PlainFacts DEF SameCtx
    <3>2. CASE Startup  BY <3>2 DEF Startup, StageInv
    <3>3. CASE Reexec  BY <3>3, StartFacts DEF Reexec, Types
    <3>4. CASE Drain \/ Connect \/ ReadGen \/ TuneBandwidth \/ StayConnected \/ CheckBandwidth
      <4>1. CASE Drain  BY <4>1 DEF Drain, Types, CtxType
      <4>2. CASE Connect  BY <4>2 DEF Connect, Types, CtxType
      <4>3. CASE ReadGen \/ StayConnected  BY <4>3 DEF ReadGen, StayConnected, Types, CtxType
      <4>4. CASE TuneBandwidth  BY <4>4 DEF TuneBandwidth, Types, CtxType
      <4>5. CASE CheckBandwidth  BY <4>5 DEF CheckBandwidth, Types, CtxType
      <4> QED BY <3>4, <4>1, <4>2, <4>3, <4>4, <4>5
    <3>5. CASE TuneFrame \/ RetryFrame  BY <3>5, FrameFacts DEF TuneFrame, RetryFrame
    <3>6. CASE Post  BY <3>6, PostFacts
    <3>7. CASE TunePower \/ EventGen \/ ChipLinks \/ ChipDrops \/ ChipBandwidth \/ SessionLost
               \/ DaemonUp
      BY <3>7 DEF TunePower, EventGen, ChipLinks, ChipDrops, LinkChange, ChipBandwidth,
         SessionLost, DaemonUp, thread
    <3> QED BY <2>2, <3>1, <3>2, <3>3, <3>4, <3>5, <3>6, <3>7
  <2> QED BY <2>1, <2>2, NextCases
<1>3. Types /\ StageInv /\ [Next]_vars => Types' /\ StageInv'  BY NextBase
<1>4. Types /\ OutageInv /\ [Next]_vars => OutageInv'  BY NextOutage
<1> QED BY <1>1, <1>2, <1>3, <1>4, InitBase, PTL DEF Spec, DropNeedsOutage

=============================================================================
