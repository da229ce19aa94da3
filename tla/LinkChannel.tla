---------------------------- MODULE LinkChannel ----------------------------
(***************************************************************************)
(* The radio channel on the air unit (AP side of lifecycled/lifecycle.c):  *)
(* the AP owns the channel, saves it, puts the link on it after a connect  *)
(* or a relink, and adopts a change the ground makes.  Whether there is a  *)
(* link and when it relinks is Lifecycle's business; here those steps come *)
(* from outside at the place in the tick where the loop notices them.      *)
(***************************************************************************)
EXTENDS Integers

CONSTANTS
    Khz,            \* the chip's channel table: index |-> frequency
    TableRead,      \* whether the startup read of the table succeeded
    DefaultChannel, \* --default-channel
    CheckDelay,     \* LC_CHAN_CHECK_DELAY_S
    ChanPushes,     \* LC_CHAN_PUSHES
    PollTicks,      \* LC_POLL_FALLBACK_S
    Requests,       \* what POST /api/v1/channel may ask for
    MaxRequests,    \* bound: requests of the HTTP thread
    MaxPeerMoves,   \* bound: changes made by the ground
    MaxLinks,       \* bound: connects, drops and relinks
    MaxPushFails,   \* bound: BB_SET_CHAN or BB_SET_REMOTE failing
    MaxReadFails,   \* bound: BB_GET_CHAN_INFO or BB_GET_STATUS failing
    MaxRestarts     \* bound: restarts of the process

ChanAuto == -1          \* LC_CHANNEL_AUTO
None == -2          \* LC_CHANNEL_NONE
Off  == -3          \* check not armed; nothing saved, queued or on the way

Channels == DOMAIN Khz

ASSUME LinkChannelAssumption ==
    /\ Channels \subseteq Nat /\ 0 \in Channels
    /\ \A c \in Channels : 0..c \subseteq Channels
    /\ \A c \in Channels : Khz[c] \in Nat \ {0}
    /\ TableRead \in BOOLEAN
    /\ DefaultChannel \in Nat \cup {ChanAuto, None}
    /\ CheckDelay \in Nat \ {0} /\ ChanPushes \in Nat /\ PollTicks \in Nat \ {0}
    /\ Requests \subseteq Nat \cup {ChanAuto}
    /\ MaxRequests \in Nat /\ MaxPeerMoves \in Nat /\ MaxLinks \in Nat
    /\ MaxPushFails \in Nat /\ MaxReadFails \in Nat /\ MaxRestarts \in Nat

VARIABLES
    pc,         \* "top", "switch", "check", "track": where the tick is
    pollIn,     \* ticks to the next fallback poll; 0: it is this tick's
    connected,  \* ctx->state = LC_STATE_CONNECTED
    channel,    \* ctx->channel, the wanted one
    settled,    \* ctx->chan_settled
    checkIn,    \* ticks to ctx->chan_check_at, Off when it is 0
    pushes,     \* ctx->chan_pushes_left
    mail,       \* the request mailbox, Off when empty
    file,       \* the ar8030.channel sidecar, Off when missing
    chip,       \* mode, channel setting and the link's channels
    used,       \* the bounds used up
    last,       \* history: the channel asked for last, by either end
    made        \* history: pushes made on this connection

ctx   == <<connected, channel, settled, checkIn, pushes>>
ghost == <<last, made>>
vars  == <<pc, pollIn, ctx, mail, file, chip, used, ghost>>

-----------------------------------------------------------------------------
(***************************************************************************)
(* The chip (external): BB_SET_CHAN(rx) moves the AP's receivers and the   *)
(* peer's uplink, unless the chip is set to that channel already; only a   *)
(* peer hop (BB_SET_REMOTE) moves the downlink.                            *)
(***************************************************************************)

apply_mode(c, ch) == [c EXCEPT !.auto = (ch = ChanAuto)]

apply_local(c, ch) ==
    LET m == apply_mode(c, ch)
    IN  IF ch \in Channels \ {c.work} THEN [m EXCEPT !.work = ch, !.up = ch] ELSE m

peer_hop(c, ch) == IF ch \in Channels THEN [c EXCEPT !.down = ch] ELSE c

\* lc_channel_apply_linked: both halves, the local half alone (the push to
\* the peer failed) or nothing (the local change failed)
ApplyLinked(ch) ==
    \/ chip' = peer_hop(apply_local(chip, ch), ch) /\ UNCHANGED used
    \/ /\ used.pushFails < MaxPushFails
       /\ used' = [used EXCEPT !.pushFails = @ + 1]
       /\ chip' \in {chip, apply_local(chip, ch)}

\* lc_channel_read fails
ReadFails ==
    /\ used.readFails < MaxReadFails
    /\ used' = [used EXCEPT !.readFails = @ + 1]

\* lc_channel_matches
matches(ch) == IF ch = ChanAuto THEN chip.auto ELSE ~chip.auto /\ chip.work = ch

\* a chip out of reset: manual, first channel of the table, wherever the
\* startup scan went
ResetChips == {[auto |-> FALSE, work |-> 0, down |-> s, up |-> s] : s \in Channels}

-----------------------------------------------------------------------------

LoadChannel(f) == IF f # Off THEN f ELSE DefaultChannel

\* the channel mode only, before any link (lifecycle_thread_main)
StartChips(ch) == IF ch = None THEN ResetChips ELSE {apply_mode(c, ch) : c \in ResetChips}

Init ==
    /\ pc = "top" /\ pollIn = 0
    /\ connected = FALSE /\ channel = LoadChannel(Off)
    /\ settled = FALSE /\ checkIn = Off /\ pushes = 0
    /\ mail = Off /\ file = Off
    /\ chip \in StartChips(channel)
    /\ used = [requests |-> 0, moves |-> 0, links |-> 0, pushFails |-> 0,
               readFails |-> 0, restarts |-> 0]
    /\ last = DefaultChannel /\ made = 0

\* lifecycled restarts and resets the chip
Restart ==
    /\ used.restarts < MaxRestarts
    /\ used' = [used EXCEPT !.restarts = @ + 1]
    /\ pc' = "top" /\ pollIn' = 0
    /\ connected' = FALSE /\ channel' = LoadChannel(file)
    /\ settled' = FALSE /\ checkIn' = Off /\ pushes' = 0
    /\ mail' = Off
    /\ chip' \in StartChips(channel')
    /\ UNCHANGED <<file, last, made>>

-----------------------------------------------------------------------------
(***************************************************************************)
(* lc_drain_channel_request.                                               *)
(***************************************************************************)

NoRequest ==
    /\ pc = "top" /\ mail = Off
    /\ pc' = "switch"
    /\ UNCHANGED <<pollIn, ctx, mail, file, chip, used, ghost>>

\* the chip's table is shorter, and could be read
RefuseRequest ==
    /\ pc = "top" /\ mail >= 0 /\ mail \notin Channels
    /\ mail' = Off
    /\ pc' = "switch"
    /\ UNCHANGED <<pollIn, ctx, file, chip, used, ghost>>

\* saved and wanted from now on; on the air at once if there is a link
TakeRequest ==
    /\ pc = "top" /\ mail # Off
    /\ file' = mail /\ channel' = mail /\ last' = mail
    /\ settled' = FALSE
    /\ mail' = Off
    /\ pc' = "switch"
    /\ UNCHANGED <<pollIn, connected, checkIn, pushes, made>>

AcceptRequest ==
    /\ mail \in Channels \cup {ChanAuto}
    /\ TakeRequest
    /\ IF connected
       THEN ApplyLinked(mail)
       ELSE chip' = apply_mode(chip, mail) /\ UNCHANGED used

\* the read of the table fails: the index is taken on trust, and the chip
\* takes the mode only
AcceptUnchecked ==
    /\ mail \notin Channels \cup {ChanAuto}
    /\ TakeRequest
    /\ ReadFails
    /\ chip' = apply_mode(chip, mail)

-----------------------------------------------------------------------------
(***************************************************************************)
(* The switch of the loop: what Lifecycle decides.                         *)
(***************************************************************************)

UsesLink ==
    /\ pc = "switch" /\ used.links < MaxLinks
    /\ used' = [used EXCEPT !.links = @ + 1]

\* lc_channel_on_connect; the link came up wherever the search found it
Connect ==
    /\ ~connected /\ UsesLink
    /\ connected' = TRUE
    /\ settled' = FALSE /\ pushes' = ChanPushes /\ checkIn' = CheckDelay
    /\ \E d, u \in Channels : chip' = [chip EXCEPT !.down = d, !.up = u]
    /\ made' = 0
    /\ pc' = "end"
    /\ UNCHANGED <<pollIn, channel, mail, file, last>>

Drop ==
    /\ connected /\ UsesLink
    /\ connected' = FALSE
    /\ pc' = "end"
    /\ UNCHANGED <<pollIn, channel, settled, checkIn, pushes, mail, file, chip, ghost>>

\* mutant: a relink brings the pushes back
Relink_Refills ==
    /\ connected /\ UsesLink
    /\ checkIn' = CheckDelay /\ pushes' = ChanPushes
    /\ pc' = "track"
    /\ UNCHANGED <<pollIn, connected, channel, settled, mail, file, chip, ghost>>

\* a relink arms the check again; assumed of the chip is that the link comes
\* back on the channels it had in both directions
Relink ==
    /\ connected /\ UsesLink
    /\ checkIn' = CheckDelay
    /\ pc' = "track"
    /\ UNCHANGED <<pollIn, connected, channel, settled, pushes, mail, file, chip, ghost>>

StayIdle ==
    /\ pc = "switch" /\ ~connected
    /\ pc' = "end"
    /\ UNCHANGED <<pollIn, ctx, mail, file, chip, used, ghost>>

StayConnected ==
    /\ pc = "switch" /\ connected
    /\ pc' = IF checkIn = 0 THEN "check" ELSE "track"
    /\ UNCHANGED <<pollIn, ctx, mail, file, chip, used, ghost>>

-----------------------------------------------------------------------------
(***************************************************************************)
(* lc_channel_check_link.                                                  *)
(***************************************************************************)

\* lc_channel_neighbour: nearest in frequency, the first of equals
Distance(a, b) == IF Khz[a] > Khz[b] THEN Khz[a] - Khz[b] ELSE Khz[b] - Khz[a]

Neighbours(ch) ==
    {i \in Channels \ {ch} : \A j \in Channels \ {ch} :
        \/ Distance(i, ch) < Distance(j, ch)
        \/ Distance(i, ch) = Distance(j, ch) /\ i <= j}

\* the link's frequencies against the table; unknown without a table
link_ok ==
    channel \in Channels /\ TableRead => \A c \in {chip.down, chip.up} : Khz[c] = Khz[channel]

Checkable == channel \in Channels \cup {ChanAuto}

\* nothing to do, or nothing that can be done
CheckEnds ==
    /\ pc = "check"
    /\ \/ /\ ~Checkable \/ (matches(channel) /\ link_ok) \/ pushes <= 0
          /\ UNCHANGED <<settled, pushes, used>>
       \/ \* no reading of the channel, or of the link's frequencies
          /\ channel # None /\ ReadFails
          /\ UNCHANGED <<settled, pushes>>
       \/ \* a re-tune with no other channel to go through
          /\ Checkable /\ matches(channel) /\ ~link_ok /\ pushes > 0
          /\ Neighbours(channel) = {}
          /\ pushes' = pushes - 1 /\ settled' = FALSE
          /\ UNCHANGED used
    /\ checkIn' = Off
    /\ pc' = "track"
    /\ UNCHANGED <<pollIn, connected, channel, mail, file, chip, ghost>>

PushTo(target) ==
    /\ pc = "check" /\ Checkable /\ pushes > 0
    /\ pushes' = pushes - 1
    /\ settled' = FALSE
    /\ ApplyLinked(target)
    /\ checkIn' = CheckDelay
    /\ made' = made + 1
    /\ pc' = "track"
    /\ UNCHANGED <<pollIn, connected, channel, mail, file, last>>

\* the chip is set to another channel
Push ==
    /\ ~matches(channel)
    /\ PushTo(channel)

\* mutant: pushes the channel the chip believes it is on already
Retune_Direct ==
    /\ matches(channel) /\ ~link_ok
    /\ PushTo(channel)

\* the chip believes it is there already: through the nearest other channel
Retune ==
    /\ matches(channel) /\ ~link_ok
    /\ \E n \in Neighbours(channel) : PushTo(n)

-----------------------------------------------------------------------------
(***************************************************************************)
(* lc_channel_track, once per fallback poll.                               *)
(***************************************************************************)

Observed == IF chip.auto THEN ChanAuto ELSE chip.work

\* mutant: adopts whatever the chip reports
Track_Unsettled ==
    /\ pc = "track"
    /\ pc' = "end"
    /\ IF pollIn > 0 \/ channel = None \/ matches(channel)
       THEN UNCHANGED <<channel, file>>
       ELSE file' = Observed /\ channel' = Observed
    /\ UNCHANGED <<settled, pollIn, connected, checkIn, pushes, mail, chip, used, ghost>>

Track ==
    /\ pc = "track"
    /\ pc' = "end"
    /\ IF pollIn > 0 \/ channel = None
       THEN UNCHANGED <<settled, channel, file>>
       ELSE IF matches(channel)
       THEN settled' = TRUE /\ UNCHANGED <<channel, file>>
       ELSE IF settled
       THEN file' = Observed /\ channel' = Observed /\ UNCHANGED settled
       ELSE UNCHANGED <<settled, channel, file>>
    /\ UNCHANGED <<pollIn, connected, checkIn, pushes, mail, chip, used, ghost>>

TrackFails ==
    /\ pc = "track" /\ pollIn = 0
    /\ ReadFails
    /\ pc' = "end"
    /\ UNCHANGED <<pollIn, ctx, mail, file, chip, ghost>>

\* one second on
TickEnds ==
    /\ pc = "end"
    /\ pollIn' = IF pollIn = 0 THEN PollTicks - 1 ELSE pollIn - 1
    /\ checkIn' = IF checkIn > 0 THEN checkIn - 1 ELSE checkIn
    /\ pc' = "top"
    /\ UNCHANGED <<connected, channel, settled, pushes, mail, file, chip, used, ghost>>

Thread ==
    \/ NoRequest \/ RefuseRequest \/ AcceptRequest \/ AcceptUnchecked
    \/ Connect \/ Drop \/ Relink \/ StayIdle \/ StayConnected
    \/ CheckEnds \/ Push \/ Retune \/ Track \/ TrackFails \/ TickEnds

-----------------------------------------------------------------------------
(***************************************************************************)
(* The HTTP thread, the ground, the chip.                                  *)
(***************************************************************************)

\* lifecycle_request_channel: the last request wins
request_channel ==
    /\ used.requests < MaxRequests
    /\ \E ch \in Requests : mail' = ch
    /\ used' = [used EXCEPT !.requests = @ + 1]
    /\ UNCHANGED <<pc, pollIn, ctx, file, chip, ghost>>

\* the ground's own lc_channel_apply_linked moves both ends
PeerMoves ==
    /\ connected /\ used.moves < MaxPeerMoves
    /\ used' = [used EXCEPT !.moves = @ + 1]
    /\ \E ch \in Channels \cup {ChanAuto} :
          /\ chip' = peer_hop(apply_local(chip, ch), ch)
          /\ last' = ch
    /\ UNCHANGED <<pc, pollIn, ctx, mail, file, made>>

\* in auto mode the chip picks its channel
Adapt ==
    /\ chip.auto /\ connected
    /\ \E ch \in Channels : chip' = [chip EXCEPT !.work = ch, !.down = ch, !.up = ch]
    /\ UNCHANGED <<pc, pollIn, ctx, mail, file, used, ghost>>

Next == Thread \/ request_channel \/ PeerMoves \/ Adapt \/ Restart

Spec == Init /\ [][Next]_vars

\* The loop always runs; whether there is a link, and what the ground and
\* the HTTP clients do, is left open.
FairSpec == Spec /\ WF_vars(Thread)

-----------------------------------------------------------------------------
(***************************************************************************)
(* Properties.                                                             *)
(***************************************************************************)

\* The type of every variable.
TypeOK ==
    /\ pc \in {"top", "switch", "check", "track", "end"}
    /\ pollIn \in 0..PollTicks
    /\ connected \in BOOLEAN
    /\ channel \in Nat \cup {ChanAuto, None}
    /\ settled \in BOOLEAN
    /\ checkIn \in 0..CheckDelay \cup {Off}
    /\ pushes \in 0..ChanPushes
    /\ mail \in Requests \cup {Off}
    /\ file \in Nat \cup {ChanAuto, Off}
    /\ chip \in [auto: BOOLEAN, work: Channels, down: Channels, up: Channels]
    /\ used \in [requests: Nat, moves: Nat, links: Nat, pushFails: Nat,
                 readFails: Nat, restarts: Nat]
    /\ last \in Nat \cup {ChanAuto, None}
    /\ made \in Nat

\* The AP never saves a channel nobody asked for: what it writes to its
\* sidecar is what the HTTP side or the ground asked for last, never a
\* channel the chip passed through, booted on or was left on by a failed
\* push (lc_channel_track, chan_settled).
LastAskedSaved == [][file' # file => file' = last']_vars

\* However many relinks and changes of the wanted channel a connection
\* sees, the check disturbs it with at most ChanPushes hops
\* (lc_channel_check_link, chan_pushes_left).
PushBudget == made <= ChanPushes

OnChannel == chip.work = channel /\ chip.down = channel /\ chip.up = channel

\* No reading or push failed (a check that cannot be made is not made up for in the same
\* connection), the ground left the channel alone, and no more was asked than the pushes of
\* one connection are for.
Undisturbed == used.pushFails = 0 /\ used.readFails = 0 /\ used.moves = 0 /\ used.requests <= 1

\* A connection that lasts, with a fixed channel wanted, ends up on it with
\* both directions, from wherever the startup scan put the link
\* (lc_channel_check_link).
LinkReachesChannel ==
    <>[](connected /\ channel \in Channels) /\ []Undisturbed => <>[]OnChannel

=============================================================================
