----------------------------- MODULE Lifecycle -----------------------------
(***************************************************************************)
(* ar8030-lifecycled on the air unit (lifecycled/lifecycle.c): one thread  *)
(* follows the chip's link in a one-second loop, re-applies what a relink  *)
(* makes the chip forget, and serves the requests of the HTTP thread       *)
(* through one-slot mailboxes.                                             *)
(*                                                                         *)
(*   chip --event--> reader thread --+                                     *)
(*     ^                             v                                     *)
(*     |                       g_link_state, g_link_connect_gen            *)
(*     +--ioctl-- main loop <--------+------ mailboxes <-- HTTP thread     *)
(*                                                                         *)
(* The chip and its daemon ar8030d are external: they are modelled by what *)
(* this code relies on.  The channel is the subject of LinkChannel.        *)
(***************************************************************************)
EXTENDS Integers, Sequences

CONSTANTS
    ConfirmTicks,   \* LC_CONNECT_CONFIRM_TICKS
    DropTicks,      \* LC_DROP_CONFIRM_TICKS
    PollTicks,      \* LC_POLL_FALLBACK_S
    LostPolls,      \* LC_SESSION_LOST_POLLS
    DefaultBw,      \* --default-bandwidth; 0: none
    DefaultPower,   \* --default-power, or PowerNone
    FrameChange,    \* --frame-change
    StandbyMode,    \* --standby-dbm given
    OverheatMode,   \* --overheat-c given, with --soc-temp-cmd
    Bandwidths,     \* what POST /bandwidth may ask for
    Powers,         \* what POST /power may ask for
    Retxs,          \* what POST /retx-tuning may ask for
    ChipBws,        \* bandwidths the chip may fall back to by itself
    PromptEvents,   \* the reader thread handles an event within a tick
    MaxRequests,    \* bound: requests of the HTTP thread
    MaxFaults       \* bound: link changes, renegotiations, refusals of the frame
                    \* change, lost sessions and terminations, together

PowerNone    == "none"          \* LC_POWER_NONE
StandbyPower == "standby"       \* cfg.standby_dbm
ChipPower    == "chip"          \* what a relink leaves
RetxDefault  == "default"       \* LC_RETX_DEFAULT_*
RetxRaw      == "raw"           \* the controller never configured
Empty        == "empty"         \* nothing queued, nothing saved

ASSUME LifecycleAssumption ==
    /\ ConfirmTicks \in Nat \ {0} /\ DropTicks \in Nat \ {0}
    /\ PollTicks \in Nat \ {0} /\ LostPolls \in Nat \ {0}
    /\ DefaultBw \in Nat
    /\ Bandwidths \subseteq Nat \ {0} /\ ChipBws \subseteq Nat \ {0}
    /\ FrameChange \in BOOLEAN /\ StandbyMode \in BOOLEAN
    /\ OverheatMode \in BOOLEAN /\ PromptEvents \in BOOLEAN
    /\ \A p \in Powers \cup {DefaultPower} : p \notin {StandbyPower, ChipPower, Empty}
    /\ PowerNone \notin Powers
    /\ \A x \in Retxs : x \notin {RetxRaw, Empty}
    /\ MaxRequests \in Nat /\ MaxFaults \in Nat

VARIABLES
    pc,         \* where the lifecycle thread is in its loop
    loop,       \* its locals: did_fallback_poll, polled, ticks to the next
                \* poll, poll_fails
    ctx,        \* the lifecycle_ctx fields only this thread writes
    restart,    \* g_shutdown_requested
    lk,         \* g_link_state, g_link_state_valid, g_link_connect_gen
    evq,        \* link events on their way to the reader thread
    ev,         \* the event it is handling, between its two lock sections
    mail,       \* the mailboxes
    saved,      \* the sidecar files
    chip,       \* the chip's settings
    session,    \* the session to ar8030d is alive
    used,       \* the bounds used up
    since,      \* history: whole ticks since the chip's link last changed
    slipped     \* history: a change of bandwidth left the frame change off where
                \* the loop does not look for it

thread == <<pc, loop, ctx>>
events == <<lk, evq, ev>>
vars   == <<thread, restart, events, mail, saved, chip, session, used, since, slipped>>

-----------------------------------------------------------------------------
(***************************************************************************)
(* State.                                                                  *)
(***************************************************************************)

\* a chip out of reset: on its default bandwidth, nothing applied yet
ResetChip(bw) ==
    [link |-> FALSE, bw |-> bw, fc |-> FALSE, power |-> ChipPower, retx |-> RetxRaw]

\* the wanted power at startup: the saved one, else the default
StartPower(s) == IF s.power # Empty THEN s.power ELSE DefaultPower

lifecycle_init(s) ==
    [state |-> "INIT", confirm |-> 0, miss |-> 0, gen |-> 0, bw |-> -1,
     fcPending |-> FALSE, power |-> StartPower(s),
     armed |-> TRUE, standby |-> FALSE, overheat |-> FALSE]

NoMail  == [bw |-> -1, retx |-> Empty, power |-> Empty, armed |-> -1]
NoFiles == [bw |-> -1, retx |-> Empty, power |-> Empty]
NoLink  == [up |-> FALSE, valid |-> FALSE, gen |-> 0]
NewLoop == [did |-> FALSE, polled |-> FALSE, pollIn |-> 0, fails |-> 0]

Init ==
    /\ pc = "start" /\ loop = NewLoop /\ ctx = lifecycle_init(NoFiles)
    /\ restart = FALSE /\ lk = NoLink /\ evq = << >> /\ ev = "none"
    /\ mail = NoMail /\ saved = NoFiles
    /\ \E bw \in ChipBws : chip = ResetChip(bw)
    /\ session = FALSE
    /\ used = [requests |-> 0, faults |-> 0]
    /\ since = 0 /\ slipped = FALSE

Running == pc \notin {"start", "stopped"}

-----------------------------------------------------------------------------
(***************************************************************************)
(* ioctls.  On a dead session every one of them fails and changes nothing. *)
(***************************************************************************)

\* the chip on a new bandwidth: "Bandwidth renegotiation may reset the frame
\* structure."
Renegotiated(c, bw) ==
    {[c EXCEPT !.bw = bw]} \cup {[c EXCEPT !.bw = bw, !.fc = FALSE] : x \in {c.bw} \ {bw}}

\* lc_tuning_apply: without a link the setting may not take
TuningApplies(c, bw) ==
    IF ~session THEN {c} ELSE Renegotiated(c, bw) \cup {x \in {c} : ~c.link}

retx_apply(c, x) == IF session THEN [c EXCEPT !.retx = x] ELSE c

\* lc_apply_power: the wanted level, or the standby target in standby
apply_power(c, x) ==
    IF ~session THEN c
    ELSE IF x.standby THEN [c EXCEPT !.power = StandbyPower]
    ELSE IF x.power = PowerNone THEN c
    ELSE [c EXCEPT !.power = x.power]

\* BB_SET_FRAME_CHANGE needs a link, and even then the chip may refuse it
FrameChangeRefused == ~session \/ ~chip.link

-----------------------------------------------------------------------------
(***************************************************************************)
(* Startup and the end of the process.                                     *)
(***************************************************************************)

\* connect, subscribe, startup power; the loop's first tick polls at once
Startup ==
    /\ pc = "start" /\ session
    /\ chip' = apply_power(chip, ctx)
    /\ ctx' = [ctx EXCEPT !.state = "IDLE"]
    /\ pc' = "top"
    /\ UNCHANGED <<loop, restart, events, mail, saved, session, used, since, slipped>>

\* SIGTERM; the init script starts the process again
Terminate ==
    /\ used.faults < MaxFaults /\ pc # "stopped" /\ ~restart
    /\ restart' = TRUE
    /\ used' = [used EXCEPT !.faults = @ + 1]
    /\ UNCHANGED <<thread, events, mail, saved, chip, session, since, slipped>>

\* a shutdown during startup ends the thread there
AbandonStartup ==
    /\ pc = "start" /\ restart
    /\ pc' = "stopped"
    /\ UNCHANGED <<loop, ctx, restart, events, mail, saved, chip, session, used, since, slipped>>

\* re-exec: fresh memory, the files stay, the chip is reset unless the
\* board's reset method is "none"
Reexec ==
    /\ pc = "stopped"
    /\ pc' = "start" /\ loop' = NewLoop /\ ctx' = lifecycle_init(saved)
    /\ restart' = FALSE /\ lk' = NoLink /\ evq' = << >> /\ ev' = "none"
    /\ mail' = NoMail /\ session' = FALSE
    /\ chip' \in {chip, ResetChip(chip.bw)}
    /\ since' = 0
    /\ UNCHANGED <<saved, used, slipped>>

-----------------------------------------------------------------------------
(***************************************************************************)
(* One tick of lifecycle_thread_main's loop.                               *)
(***************************************************************************)

Stop ==
    /\ pc = "top" /\ restart
    /\ pc' = "stopped"
    /\ UNCHANGED <<loop, ctx, restart, events, mail, saved, chip, session, used, since, slipped>>

\* no fallback poll is due
SkipPoll ==
    /\ pc = "top" /\ ~restart /\ loop.pollIn > 0
    /\ loop' = [loop EXCEPT !.did = FALSE]
    /\ pc' = "drain"
    /\ UNCHANGED <<ctx, restart, events, mail, saved, chip, session, used, since, slipped>>

\* mutant: polls further apart than the drop debounce lasts
PollInterval_Long == DropTicks + 2

PollInterval == PollTicks

\* lc_poll_link_state reads the chip ...
PollRead ==
    /\ pc = "top" /\ ~restart /\ loop.pollIn = 0 /\ session
    /\ loop' = [did |-> TRUE, polled |-> chip.link, pollIn |-> PollInterval, fails |-> 0]
    /\ pc' = "pollset"
    /\ UNCHANGED <<ctx, restart, events, mail, saved, chip, session, used, since, slipped>>

\* ... and lc_set_link_state stores the reading under the lock later
PollSet ==
    /\ pc = "pollset"
    /\ lk' = [lk EXCEPT !.up = loop.polled, !.valid = TRUE]
    /\ pc' = "drain"
    /\ UNCHANGED <<loop, ctx, restart, evq, ev, mail, saved, chip, session, used, since, slipped>>

\* mutant: the failures are not counted across polls
PollFail_NotCounted ==
    /\ pc = "top" /\ ~restart /\ loop.pollIn = 0 /\ ~session
    /\ loop' = [loop EXCEPT !.did = TRUE, !.pollIn = PollInterval, !.fails = 0]
    /\ restart' = (1 >= LostPolls)
    /\ pc' = "drain"
    /\ UNCHANGED <<ctx, events, mail, saved, chip, session, used, since, slipped>>

\* LostPolls failures in a row: the session is gone, restart
PollFail ==
    /\ pc = "top" /\ ~restart /\ loop.pollIn = 0 /\ ~session
    /\ loop' = [loop EXCEPT !.did = TRUE, !.pollIn = PollInterval, !.fails = @ + 1]
    /\ restart' = (loop.fails + 1 >= LostPolls)
    /\ pc' = "drain"
    /\ UNCHANGED <<ctx, events, mail, saved, chip, session, used, since, slipped>>

\* lc_drain_bandwidth_request: applied only when connected
BandwidthDrained ==
    IF mail.bw > 0 /\ ctx.state = "CONNECTED" THEN TuningApplies(chip, mail.bw) ELSE {chip}

\* lc_drain_retx_request, lc_drain_power_request: applied link or not
RetxDrained(c)     == IF mail.retx # Empty THEN retx_apply(c, mail.retx) ELSE c
PowerDrained(c, x) == IF mail.power # Empty THEN apply_power(c, x) ELSE c

FilesDrained ==
    [bw    |-> IF mail.bw > 0 THEN mail.bw ELSE saved.bw,
     retx  |-> IF mail.retx # Empty THEN mail.retx ELSE saved.retx,
     power |-> IF mail.power # Empty THEN mail.power ELSE saved.power]

\* mutant: saved, but the loop goes on enforcing the old bandwidth
Drain_OldTarget ==
    /\ pc = "drain"
    /\ mail' = [NoMail EXCEPT !.armed = mail.armed]
    /\ saved' = FilesDrained
    /\ ctx' = [ctx EXCEPT !.power = IF mail.power # Empty THEN mail.power ELSE @]
    /\ \E c \in BandwidthDrained : chip' = PowerDrained(RetxDrained(c), ctx')
    /\ slipped' = (slipped \/ (mail.bw > 0 /\ ~chip'.fc))
    /\ pc' = "switch"
    /\ UNCHANGED <<loop, restart, events, session, used, since>>

\* each request is saved, so that it outlives the link and the process; a
\* bandwidth may undo the frame change here, and fcPending stays as it is
Drain ==
    /\ pc = "drain"
    /\ mail' = [NoMail EXCEPT !.armed = mail.armed]
    /\ saved' = FilesDrained
    /\ ctx' = [ctx EXCEPT
                 !.bw    = IF mail.bw > 0 /\ ctx.state = "CONNECTED" THEN mail.bw ELSE @,
                 !.power = IF mail.power # Empty THEN mail.power ELSE @]
    /\ \E c \in BandwidthDrained : chip' = PowerDrained(RetxDrained(c), ctx')
    /\ slipped' = (slipped \/ (mail.bw > 0 /\ ~chip'.fc))
    /\ pc' = "switch"
    /\ UNCHANGED <<loop, restart, events, session, used, since>>

-----------------------------------------------------------------------------
(***************************************************************************)
(* The state machine: the switch of the loop.                              *)
(***************************************************************************)

SeesConnect == lk.valid /\ lk.up
SeesDrop    == lk.valid /\ ~lk.up

\* IDLE, not CONNECT: the debounce starts over
StayIdle ==
    /\ pc = "switch" /\ ctx.state = "IDLE" /\ ~SeesConnect
    /\ ctx' = [ctx EXCEPT !.confirm = 0]
    /\ pc' = "post"
    /\ UNCHANGED <<loop, restart, events, mail, saved, chip, session, used, since, slipped>>

\* mutant: the count starts over on every tick
ConfirmConnect_NoCount ==
    /\ pc = "switch" /\ ctx.state = "IDLE" /\ SeesConnect
    /\ ctx.confirm + 1 < ConfirmTicks
    /\ pc' = "post"
    /\ UNCHANGED <<ctx, loop, restart, events, mail, saved, chip, session, used, since, slipped>>

ConfirmConnect ==
    /\ pc = "switch" /\ ctx.state = "IDLE" /\ SeesConnect
    /\ ctx.confirm + 1 < ConfirmTicks
    /\ ctx' = [ctx EXCEPT !.confirm = @ + 1]
    /\ pc' = "post"
    /\ UNCHANGED <<loop, restart, events, mail, saved, chip, session, used, since, slipped>>

\* the "connected" hook, then the tuning in the steps below
Connect ==
    /\ pc = "switch" /\ ctx.state = "IDLE" /\ SeesConnect
    /\ ctx.confirm + 1 >= ConfirmTicks
    /\ ctx' = [ctx EXCEPT !.confirm = 0, !.state = "CONNECTED"]
    /\ pc' = "gen"
    /\ UNCHANGED <<loop, restart, events, mail, saved, chip, session, used, since, slipped>>

\* read before the tuning: a relink from here on re-applies it
ReadGen ==
    /\ pc = "gen"
    /\ ctx' = [ctx EXCEPT !.gen = lk.gen]
    /\ pc' = "tune"
    /\ UNCHANGED <<loop, restart, events, mail, saved, chip, session, used, since, slipped>>

WantedBw   == IF saved.bw > 0 THEN saved.bw ELSE DefaultBw
WantedRetx == IF saved.retx # Empty THEN saved.retx ELSE RetxDefault

\* lc_apply_tuning_on_connect
TuneBandwidth ==
    /\ pc = "tune"
    /\ chip' \in (IF WantedBw > 0 THEN TuningApplies(chip, WantedBw) ELSE {chip})
    /\ ctx' = [ctx EXCEPT !.bw = WantedBw]
    /\ pc' = "power"
    /\ UNCHANGED <<loop, restart, events, mail, saved, session, used, since, slipped>>

\* lc_apply_link_tuning, on a connect and on a relink: retx and power ...
TunePower ==
    /\ pc \in {"power", "repower"}
    /\ chip' = apply_power(retx_apply(chip, WantedRetx), ctx)
    /\ pc' = IF pc = "power" THEN "frame" ELSE "reframe"
    /\ UNCHANGED <<loop, ctx, restart, events, mail, saved, session, used, since, slipped>>

\* ... and BB_SET_FRAME_CHANGE(1), left pending if the chip refuses it
FrameChangeTakes ==
    /\ ~FrameChangeRefused
    /\ chip' = [chip EXCEPT !.fc = TRUE]
    /\ ctx' = [ctx EXCEPT !.fcPending = FALSE]
    /\ slipped' = FALSE
    /\ UNCHANGED used

FrameChangeFails ==
    /\ \/ FrameChangeRefused /\ UNCHANGED used
       \/ /\ used.faults < MaxFaults
          /\ used' = [used EXCEPT !.faults = @ + 1]
    /\ ctx' = [ctx EXCEPT !.fcPending = TRUE]
    /\ UNCHANGED <<chip, slipped>>

\* mutant: takes the generation as seen once more at the end of the tuning
TuneFrame_RereadsGen ==
    /\ pc \in {"frame", "reframe"} /\ FrameChange
    /\ chip' = IF FrameChangeRefused THEN chip ELSE [chip EXCEPT !.fc = TRUE]
    /\ ctx' = [ctx EXCEPT !.gen = lk.gen, !.fcPending = FrameChangeRefused]
    /\ pc' = IF pc = "frame" THEN "post" ELSE "check"
    /\ UNCHANGED <<loop, restart, events, mail, saved, session, used, since, slipped>>

TuneFrame ==
    /\ pc \in {"frame", "reframe"}
    /\ IF FrameChange
       THEN FrameChangeTakes \/ FrameChangeFails
       ELSE UNCHANGED <<chip, ctx, used, slipped>>
    /\ pc' = IF pc = "frame" THEN "post" ELSE "check"
    /\ UNCHANGED <<loop, restart, events, mail, saved, session, since>>

\* CONNECTED, but the link reads down: not for DropTicks in a row yet
MissLink ==
    /\ pc = "switch" /\ ctx.state = "CONNECTED" /\ SeesDrop
    /\ ctx.miss + 1 < DropTicks
    /\ ctx' = [ctx EXCEPT !.miss = @ + 1]
    /\ pc' = "post"
    /\ UNCHANGED <<loop, restart, events, mail, saved, chip, session, used, since, slipped>>

\* the "dropped" hook
Drop ==
    /\ pc = "switch" /\ ctx.state = "CONNECTED" /\ SeesDrop
    /\ ctx.miss + 1 >= DropTicks
    /\ ctx' = [ctx EXCEPT !.miss = 0, !.state = "IDLE", !.bw = -1]
    /\ pc' = "post"
    /\ UNCHANGED <<loop, restart, events, mail, saved, chip, session, used, since, slipped>>

\* CONNECTED and linked: a relink the debounce absorbed needs the tuning
StayConnected ==
    /\ pc = "switch" /\ ctx.state = "CONNECTED" /\ ~SeesDrop
    /\ ctx' = [ctx EXCEPT !.miss = 0, !.gen = lk.gen]
    /\ pc' = IF lk.gen # ctx.gen THEN "repower" ELSE "check"
    /\ UNCHANGED <<loop, restart, events, mail, saved, chip, session, used, since, slipped>>

\* with a fallback poll: re-apply the bandwidth if the chip has another,
\* which may reset the frame structure
CheckBandwidth ==
    /\ pc = "check"
    /\ IF loop.did /\ session /\ ctx.bw > 0 /\ chip.bw # ctx.bw
       THEN /\ chip' \in TuningApplies(chip, ctx.bw)
            /\ ctx' = [ctx EXCEPT !.fcPending = @ \/ FrameChange]
       ELSE UNCHANGED <<chip, ctx>>
    /\ pc' = "retry"
    /\ UNCHANGED <<loop, restart, events, mail, saved, session, used, since, slipped>>

\* mutant: a refused frame change is not tried again
RetryFrame_Never ==
    /\ pc = "retry"
    /\ pc' = "post"
    /\ UNCHANGED <<ctx, loop, restart, events, mail, saved, chip, session, used, since, slipped>>

\* with a fallback poll: try a pending frame change again
RetryFrame ==
    /\ pc = "retry"
    /\ IF loop.did /\ ctx.fcPending
       THEN FrameChangeTakes \/ FrameChangeFails
       ELSE UNCHANGED <<chip, ctx, used, slipped>>
    /\ pc' = "post"
    /\ UNCHANGED <<loop, restart, events, mail, saved, session, since>>

-----------------------------------------------------------------------------
(***************************************************************************)
(* The rest of the tick: heat, the low-power mode, the sleep.              *)
(***************************************************************************)

\* lc_overheat_update on this tick's SoC reading; "none" keeps the pause
overheat_update(x, temp) ==
    CASE ~OverheatMode -> x
      [] OverheatMode /\ temp = "hot"  -> [x EXCEPT !.overheat = TRUE]
      [] OverheatMode /\ temp = "cool" -> [x EXCEPT !.overheat = FALSE]
      [] OTHER -> x

\* mutant: left only with a link up, as it is entered
WantStandby_NeedsLink(x) ==
    IF x.state = "CONNECTED" THEN ~x.armed \/ x.overheat ELSE x.standby

\* lc_standby_update: entered with a link up, left link or not
WantStandby(x) ==
    IF x.armed /\ ~x.overheat THEN FALSE
    ELSE x.standby \/ x.state = "CONNECTED"

SetArmed(x) == IF mail.armed >= 0 THEN [x EXCEPT !.armed = (mail.armed = 1)] ELSE x

Post ==
    /\ pc = "post"
    /\ \E temp \in IF OverheatMode THEN {"none", "cool", "hot"} ELSE {"none"} :
          LET x == SetArmed(overheat_update(ctx, temp))
          IN  ctx' = IF StandbyMode THEN [x EXCEPT !.standby = WantStandby(x)] ELSE x
    /\ chip' = IF ctx'.standby # ctx.standby THEN apply_power(chip, ctx') ELSE chip
    /\ mail' = [mail EXCEPT !.armed = -1]
    /\ pc' = "sleep"
    /\ UNCHANGED <<loop, restart, events, saved, session, used, since, slipped>>

Quiet == evq = << >> /\ ev = "none"

\* sleep(1); the poll timer is in seconds, and a tick lasts one or more
Sleep ==
    /\ pc = "sleep"
    /\ PromptEvents => Quiet
    /\ \E d \in {1, 2} : loop' = [loop EXCEPT !.pollIn = IF @ > d THEN @ - d ELSE 0]
    /\ since' = IF since < PollTicks THEN since + 1 ELSE since
    /\ pc' = "top"
    /\ UNCHANGED <<ctx, restart, events, mail, saved, chip, session, used, slipped>>

Thread ==
    \/ Startup \/ AbandonStartup \/ Stop
    \/ SkipPoll \/ PollRead \/ PollSet \/ PollFail \/ Drain
    \/ StayIdle \/ ConfirmConnect \/ Connect \/ ReadGen
    \/ TuneBandwidth \/ TunePower \/ TuneFrame
    \/ MissLink \/ Drop \/ StayConnected \/ CheckBandwidth \/ RetryFrame
    \/ Post \/ Sleep

-----------------------------------------------------------------------------
(***************************************************************************)
(* lc_on_link_state_event, on the client library's reader thread: two      *)
(* separate sections under g_link_state_lock.                              *)
(***************************************************************************)

EventGen ==
    /\ Running /\ evq # << >> /\ ev = "none"
    /\ lk' = IF Head(evq) = "up" THEN [lk EXCEPT !.gen = @ + 1] ELSE lk
    /\ ev' = Head(evq) /\ evq' = Tail(evq)
    /\ UNCHANGED <<thread, restart, mail, saved, chip, session, used, since, slipped>>

EventState ==
    /\ ev # "none"
    /\ lk' = [lk EXCEPT !.up = (ev = "up"), !.valid = TRUE]
    /\ ev' = "none"
    /\ UNCHANGED <<thread, restart, evq, mail, saved, chip, session, used, since, slipped>>

Reader == EventGen \/ EventState

-----------------------------------------------------------------------------
(***************************************************************************)
(* The requests of the HTTP thread: the last one written wins.             *)
(***************************************************************************)

Request(m) ==
    /\ pc # "stopped" /\ used.requests < MaxRequests
    /\ mail' = m
    /\ used' = [used EXCEPT !.requests = @ + 1]
    /\ UNCHANGED <<thread, restart, events, saved, chip, session, since, slipped>>

request_bandwidth == \E b \in Bandwidths : Request([mail EXCEPT !.bw = b])
request_retx      == \E x \in Retxs : Request([mail EXCEPT !.retx = x])
request_power     == \E p \in Powers : Request([mail EXCEPT !.power = p])
request_armed     == \E a \in {0, 1} : Request([mail EXCEPT !.armed = a])

Http == request_bandwidth \/ request_retx \/ request_power \/ request_armed

-----------------------------------------------------------------------------
(***************************************************************************)
(* The chip and ar8030d.  The chip reports every link change as an event   *)
(* to a subscribed session.                                                *)
(***************************************************************************)

Report(e) == evq' = IF session /\ Running THEN Append(evq, e) ELSE evq

LinkChange ==
    /\ used.faults < MaxFaults
    /\ used' = [used EXCEPT !.faults = @ + 1]
    /\ since' = 0
    /\ UNCHANGED <<thread, restart, lk, ev, mail, saved, session, slipped>>

\* a new link is back at frame mode 0, chip power, raw retx
ChipLinks ==
    /\ ~chip.link /\ LinkChange /\ Report("up")
    /\ chip' = [chip EXCEPT !.link = TRUE, !.fc = FALSE, !.power = ChipPower, !.retx = RetxRaw]

ChipDrops ==
    /\ chip.link /\ LinkChange /\ Report("down")
    /\ chip' = [chip EXCEPT !.link = FALSE]

\* the two ends negotiate another bandwidth, or an operator sets one with
\* `ar8030-linkctl bandwidth`; the loop sees the one it does not want
ChipBandwidth ==
    /\ chip.link /\ used.faults < MaxFaults
    /\ \E b \in ChipBws \ {chip.bw} :
          /\ chip' \in Renegotiated(chip, b)
          /\ slipped' = (slipped \/ (~(ctx.bw > 0 /\ b # ctx.bw) /\ ~chip'.fc))
    /\ used' = [used EXCEPT !.faults = @ + 1]
    /\ UNCHANGED <<thread, restart, events, mail, saved, session, since>>

\* ar8030d loses the chip (it re-enumerates) and closes its clients
SessionLost ==
    /\ session /\ used.faults < MaxFaults
    /\ session' = FALSE
    /\ used' = [used EXCEPT !.faults = @ + 1]
    /\ evq' = << >>
    /\ chip' = ResetChip(chip.bw)
    /\ since' = 0
    /\ UNCHANGED <<thread, restart, lk, ev, mail, saved, slipped>>

\* the session of a process that is starting up comes about
DaemonUp ==
    /\ ~session /\ pc = "start"
    /\ session' = TRUE
    /\ UNCHANGED <<thread, restart, events, mail, saved, chip, used, since, slipped>>

Chip == ChipLinks \/ ChipDrops \/ ChipBandwidth \/ SessionLost

-----------------------------------------------------------------------------

Next == Thread \/ Reader \/ Http \/ Chip \/ DaemonUp \/ Terminate \/ Reexec

Spec == Init /\ [][Next]_vars

\* The loop always runs, the reader thread handles what arrives, ar8030d
\* comes back, main() re-executes the binary.  The chip, the HTTP clients
\* and the operator owe nothing.
FairSpec ==
    /\ Spec
    /\ WF_vars(Thread) /\ WF_vars(Reader) /\ WF_vars(DaemonUp) /\ WF_vars(Reexec)

-----------------------------------------------------------------------------
(***************************************************************************)
(* Properties.                                                             *)
(***************************************************************************)

PCs == {"start", "top", "pollset", "drain", "switch", "gen", "tune", "power", "frame",
        "repower", "reframe", "check", "retry", "post", "sleep", "stopped"}

Levels == Powers \cup {DefaultPower}

\* The type of every variable of the lifecycle thread, the shared link
\* state and the chip.
TypeOK ==
    /\ pc \in PCs
    /\ loop \in [did: BOOLEAN, polled: BOOLEAN, pollIn: Nat, fails: Nat]
    /\ ctx \in [state: {"INIT", "IDLE", "CONNECTED"}, confirm: Nat, miss: Nat, gen: Nat,
                bw: Int, fcPending: BOOLEAN, power: Levels,
                armed: BOOLEAN, standby: BOOLEAN, overheat: BOOLEAN]
    /\ restart \in BOOLEAN
    /\ lk \in [up: BOOLEAN, valid: BOOLEAN, gen: Nat]
    /\ evq \in Seq({"up", "down"})
    /\ ev \in {"none", "up", "down"}
    /\ mail \in [bw: Int, retx: Retxs \cup {Empty}, power: Powers \cup {Empty}, armed: {-1, 0, 1}]
    /\ saved \in [bw: Int, retx: Retxs \cup {Empty}, power: Powers \cup {Empty}]
    /\ chip \in [link: BOOLEAN, bw: Nat, fc: BOOLEAN,
                 power: Levels \cup {StandbyPower, ChipPower},
                 retx: Retxs \cup {RetxDefault, RetxRaw}]
    /\ session \in BOOLEAN
    /\ used \in [requests: Nat, faults: Nat]
    /\ since \in Nat /\ slipped \in BOOLEAN

\* every relink the chip reported has been tuned
RelinksSeen == Quiet /\ lk.gen = ctx.gen

WantedPower(x) == IF x.standby THEN StandbyPower ELSE x.power

\* the next fallback poll re-applies the bandwidth, and the frame change with it
BandwidthOff == ctx.bw > 0 /\ chip.bw # ctx.bw

\* what RelinksSeen leaves to say about a tick
Steady == pc = "sleep" /\ ctx.state = "CONNECTED" /\ session /\ chip.link /\ RelinksSeen

\* Between two ticks of a connected unit, once no relink is waiting to be
\* noticed, the chip carries the wanted retx setting and power and has its
\* frame change, or the loop knows that it must try again or sees so by the
\* bandwidth.  Relinks inside the drop debounce, in the middle of the tuning
\* or while a request is served must not lose any of it
\* (lc_apply_link_tuning, connect_gen).  Excepted are a bandwidth request
\* just served and a renegotiation that ended where the loop wants it, with
\* the frame change off (slipped).
TuningHeld ==
    Steady
        => /\ chip.retx = WantedRetx
           /\ WantedPower(ctx) # PowerNone => chip.power = WantedPower(ctx)
           /\ FrameChange => chip.fc \/ ctx.fcPending \/ BandwidthOff \/ slipped

\* frame_change_pending is "not yet accepted on this link ... retried per
\* poll", and set where "Bandwidth renegotiation may reset the frame
\* structure": on the wanted bandwidth the frame change is in force or will be
\* tried again.  Not so after lc_drain_bandwidth_request.
FrameChangeHeld ==
    Steady /\ FrameChange => chip.fc \/ ctx.fcPending \/ BandwidthOff

\* An armed unit that is not paused for heat does not sit at standby power
\* between ticks, whatever drops, relinks, restarts and requests came
\* before (lc_standby_update, lc_apply_power).
LowPowerEnds ==
    pc = "sleep" /\ session /\ ctx.armed /\ ~ctx.overheat => chip.power # StandbyPower

\* While connected, the bandwidth the loop enforces and reports is the one
\* on disk (or the default): a request made idle, mid-connect or just before
\* a restart is the one that counts (lc_drain_bandwidth_request,
\* lc_apply_tuning_on_connect).
BandwidthAsSaved ==
    pc = "sleep" => ctx.bw = IF ctx.state = "CONNECTED" THEN WantedBw ELSE -1

\* On a live session the "dropped" hook never fires for a link that has been
\* up for a whole poll interval: a poll reading that overwrites a newer event
\* is corrected by the next poll at the latest, whatever the debounce has
\* counted so far.
DropNeedsOutage ==
    [][session /\ ctx.state = "CONNECTED" /\ ctx'.state = "IDLE"
           => ~chip.link \/ since < PollTicks]_vars

\* The state follows a link that stays up, or stays down with the session
\* alive (event, fallback poll and both debounces together).
LinkFollowed ==
    /\ <>[](chip.link) => <>[](ctx.state = "CONNECTED")
    /\ <>[](session /\ ~chip.link) => <>[](ctx.state = "IDLE")

\* On a link that stays up the chip is eventually on the wanted bandwidth and
\* the frame change in force, refusals, fallbacks and requests
\* notwithstanding, but for a frame change that slipped.
TuningReached ==
    /\ <>[](chip.link) => <>[](ctx.bw > 0 => chip.bw = ctx.bw)
    /\ <>[](chip.link /\ ~slipped) => <>[](chip.fc)

\* A lost session is replaced by a new one: failed polls are counted, the
\* process restarts, and its startup waits for ar8030d.
SessionRecovered == ~session ~> session

\* What the operator set is what a connected unit runs with, on the chip and
\* in the loop (lc_apply_link_tuning, lc_drain_bandwidth_request).
SettingsHeld == TuningHeld /\ BandwidthAsSaved

\* The loop gets there: state, tuning and session, after any change of the
\* link and any loss of the session.
LinkServed == LinkFollowed /\ TuningReached /\ SessionRecovered
=============================================================================
