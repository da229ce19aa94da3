-------------------------- MODULE LinkChannelProofs --------------------------
(***************************************************************************)
(* Safety of LinkChannel for every channel table, request set and bound:   *)
(* PushBudget, along the pushes made and left on a connection, and         *)
(* LastAskedSaved, along what chan_settled says about the chip.            *)
(***************************************************************************)
EXTENDS LinkChannel, TLAPS

-----------------------------------------------------------------------------
(* The inductive invariants *)

\* What a connection has pushed and what it may still push.
BudgetInv == made \in Nat /\ pushes \in Nat /\ made + pushes <= ChanPushes

Wanted == Nat \cup {ChanAuto, None}
ChipStates == [auto: BOOLEAN, work: Channels, down: Channels, up: Channels]

\* Once settled, the chip is on the wanted channel or on the one asked for last.  A push, a
\* connect and a request of its own all unsettle it, so only the ground can have moved it.
SettledInv ==
    /\ chip \in ChipStates /\ channel \in Wanted /\ settled \in BOOLEAN
    /\ mail \in Requests \cup {Off} /\ file \in Nat \cup {ChanAuto, Off}
    /\ settled => Observed \in {channel, last}

-----------------------------------------------------------------------------
(* PushBudget *)

\* A check pays for each push and a relink brings none back; only a new connection starts over.
LEMMA NextBudget ==
  ASSUME BudgetInv, [Next]_vars
  PROVE  BudgetInv'
<1> USE LinkChannelAssumption
<1>1. CASE Restart  BY <1>1 DEF Restart, BudgetInv
<1>2. CASE Connect  BY <1>2 DEF Connect, BudgetInv
<1>3. CASE CheckEnds
  <2>1. made' = made /\ (pushes' = pushes \/ (pushes > 0 /\ pushes' = pushes - 1))
    BY <1>3 DEF CheckEnds, ghost
  <2> QED BY <2>1 DEF BudgetInv
<1>4. CASE Push \/ Retune
  <2>1. PICK target : PushTo(target)  BY <1>4 DEF Push, Retune
  <2>2. pushes > 0 /\ pushes' = pushes - 1 /\ made' = made + 1  BY <2>1 DEF PushTo
  <2> QED BY <2>2 DEF BudgetInv
<1>5. ASSUME \/ NoRequest \/ RefuseRequest \/ AcceptRequest \/ AcceptUnchecked
             \/ Drop \/ Relink \/ StayIdle \/ StayConnected \/ Track \/ TrackFails \/ TickEnds
             \/ request_channel \/ PeerMoves \/ Adapt \/ UNCHANGED vars
      PROVE  UNCHANGED <<made, pushes>>
  BY <1>5 DEF NoRequest, RefuseRequest, AcceptRequest, AcceptUnchecked, TakeRequest, Drop, Relink,
     StayIdle, StayConnected, Track, TrackFails, TickEnds, request_channel, PeerMoves, Adapt,
     vars, ctx, ghost
<1> QED BY <1>1, <1>2, <1>3, <1>4, <1>5 DEF Next, Thread, BudgetInv

\* lc_channel_check_link, chan_pushes_left: whatever relinks, requests, moves of the ground and
\* failures a connection sees, the check disturbs it with at most ChanPushes hops.
THEOREM PushBudgetHolds == Spec => []PushBudget
<1>1. Init => BudgetInv  BY LinkChannelAssumption DEF Init, BudgetInv
<1>2. BudgetInv => PushBudget  BY LinkChannelAssumption DEF BudgetInv, PushBudget
<1> QED BY <1>1, <1>2, NextBudget, PTL DEF Spec

-----------------------------------------------------------------------------
(* LastAskedSaved *)

\* Setting a mode or a channel, whole or in part, leaves a chip's settings.
LEMMA AppliesType ==
  ASSUME NEW c \in ChipStates, NEW ch
  PROVE  /\ apply_mode(c, ch) \in ChipStates
         /\ apply_local(c, ch) \in ChipStates
         /\ peer_hop(c, ch) \in ChipStates
<1>1. apply_mode(c, ch) \in ChipStates  BY DEF ChipStates, apply_mode
<1>2. peer_hop(c, ch) \in ChipStates  BY DEF ChipStates, peer_hop
<1>3. apply_local(c, ch) \in ChipStates
  <2> HIDE DEF apply_mode
  <2> QED BY <1>1 DEF ChipStates, apply_local
<1> QED BY <1>1, <1>2, <1>3

\* lc_channel_apply_linked leaves a chip's settings, however much of it fails.
LEMMA LinkedType ==
  ASSUME chip \in ChipStates, NEW ch, ApplyLinked(ch)
  PROVE  chip' \in ChipStates
<1>1. apply_local(chip, ch) \in ChipStates  BY AppliesType
<1>2. peer_hop(apply_local(chip, ch), ch) \in ChipStates  BY <1>1, AppliesType
<1> QED BY <1>1, <1>2 DEF ApplyLinked

\* The ground's change is what the AP's chip then reports.
LEMMA PeerObserved ==
  ASSUME NEW c \in ChipStates, NEW ch \in Channels \cup {ChanAuto}
  PROVE  LET d == peer_hop(apply_local(c, ch), ch)
         IN  (IF d.auto THEN ChanAuto ELSE d.work) = ch
<1>1. CASE ch = ChanAuto
  <2>1. ch \notin Channels  BY <1>1, LinkChannelAssumption DEF ChanAuto
  <2> QED BY <1>1, <2>1 DEF apply_local, apply_mode, peer_hop, ChipStates
<1>2. CASE ch \in Channels
  <2>1. ch # ChanAuto  BY <1>2, LinkChannelAssumption DEF ChanAuto
  <2> QED BY <1>2, <2>1 DEF apply_local, apply_mode, peer_hop, ChipStates
<1> QED BY <1>1, <1>2

\* lc_channel_matches compares the wanted channel with the one the chip reports.
LEMMA MatchesObserved ==
  ASSUME chip \in ChipStates, channel \in Wanted
  PROVE  matches(channel) <=> Observed = channel
  BY LinkChannelAssumption DEF matches, Observed, ChipStates, ChanAuto

\* A chip out of reset, with the mode of the saved channel.
LEMMA StartType ==
  ASSUME NEW ch
  PROVE  StartChips(ch) \subseteq ChipStates
<1>1. ResetChips \subseteq ChipStates
  <2>1. ASSUME NEW s \in Channels
        PROVE  [auto |-> FALSE, work |-> 0, down |-> s, up |-> s] \in ChipStates
    BY LinkChannelAssumption DEF ChipStates
  <2> QED BY <2>1 DEF ResetChips
<1> QED BY <1>1, AppliesType DEF StartChips

\* Only the ground's move keeps chan_settled while the chip changes channel, and it is then the
\* channel asked for last; the AP's own changes clear chan_settled first.
LEMMA NextSettled ==
  ASSUME SettledInv, [Next]_vars
  PROVE  SettledInv'
<1> USE LinkChannelAssumption
<1>1. CASE Restart
  <2>1. LoadChannel(file) \in Wanted  BY DEF LoadChannel, SettledInv, Wanted
  <2> QED BY <1>1, <2>1, StartType DEF Restart, SettledInv
<1>2. CASE AcceptRequest \/ AcceptUnchecked
  <2>1. TakeRequest  BY <1>2 DEF AcceptRequest, AcceptUnchecked
  <2>2. mail \in Nat \cup {ChanAuto}  BY <2>1 DEF TakeRequest, SettledInv
  <2>3. chip \in ChipStates /\ (ApplyLinked(mail) \/ chip' = apply_mode(chip, mail))
    BY <1>2 DEF AcceptRequest, AcceptUnchecked, SettledInv
  <2>4. chip' \in ChipStates  BY <2>3, LinkedType, AppliesType
  <2> QED BY <2>1, <2>2, <2>4 DEF TakeRequest, SettledInv, Wanted
<1>3. CASE Connect  BY <1>3 DEF Connect, SettledInv, ChipStates
<1>4. CASE Push \/ Retune
  <2>1. PICK target : PushTo(target)  BY <1>4 DEF Push, Retune
  <2>2. chip' \in ChipStates  BY <2>1, LinkedType DEF PushTo, SettledInv
  <2> QED BY <2>1, <2>2 DEF PushTo, SettledInv
<1>5. CASE CheckEnds
  <2>1. (settled' = settled \/ settled' = FALSE) /\ UNCHANGED <<channel, mail, file, chip, last>>
    BY <1>5 DEF CheckEnds, ghost
  <2>2. Observed' = Observed  BY <2>1 DEF Observed
  <2>3. settled' \in BOOLEAN  BY <2>1, Zenon DEF SettledInv
  <2>4. settled' => settled  BY <2>1, Zenon
  <2>5. settled' => Observed' \in {channel', last'}
    BY <2>1, <2>2, <2>4 DEF SettledInv
  <2> QED BY <2>1, <2>3, <2>5 DEF SettledInv
<1>6. CASE Track
  <2>1. UNCHANGED <<mail, chip, last>>  BY <1>6 DEF Track, ghost
  <2>2. Observed \in Channels \cup {ChanAuto}  BY DEF SettledInv, Observed, ChipStates
  <2>3. CASE UNCHANGED <<settled, channel, file>>
    BY <2>1, <2>3 DEF SettledInv, Observed
  <2>4. CASE matches(channel) /\ settled' = TRUE /\ UNCHANGED <<channel, file>>
    <3>1. Observed = channel  BY <2>4, MatchesObserved DEF SettledInv
    <3> QED BY <2>1, <2>4, <3>1 DEF SettledInv, Observed
  <2>5. CASE file' = Observed /\ channel' = Observed /\ UNCHANGED settled
    <3>1. Observed' = Observed  BY <2>1 DEF Observed
    <3> QED BY <2>1, <2>2, <2>5, <3>1 DEF SettledInv, Wanted
  <2> QED BY <1>6, <2>3, <2>4, <2>5 DEF Track
<1>7. CASE request_channel
  BY <1>7 DEF request_channel, SettledInv, Observed, ctx, ghost
<1>8. CASE PeerMoves
  <2>1. PICK ch \in Channels \cup {ChanAuto} :
           chip' = peer_hop(apply_local(chip, ch), ch) /\ last' = ch
    BY <1>8 DEF PeerMoves
  <2>2. chip' \in ChipStates  BY <2>1, AppliesType DEF SettledInv
  <2>3. Observed' = ch  BY <2>1, PeerObserved DEF SettledInv, Observed
  <2> QED BY <1>8, <2>1, <2>2, <2>3 DEF PeerMoves, SettledInv, ctx
<1>9. CASE Adapt
  <2>1. PICK ch \in Channels : chip' = [chip EXCEPT !.work = ch, !.down = ch, !.up = ch]
    BY <1>9 DEF Adapt
  <2>2. chip' \in ChipStates /\ chip'.auto = chip.auto /\ chip.auto
    BY <1>9, <2>1 DEF Adapt, SettledInv, ChipStates
  <2> QED BY <1>9, <2>2 DEF Adapt, SettledInv, Observed, ctx, ghost
<1>10. CASE NoRequest \/ Drop \/ Relink \/ StayIdle \/ StayConnected \/ TrackFails \/ TickEnds
            \/ UNCHANGED vars
  <2>1. UNCHANGED <<channel, settled, mail, file, chip, last>>
    BY <1>10 DEF NoRequest, Drop, Relink, StayIdle, StayConnected, TrackFails, TickEnds,
       vars, ctx, ghost
  <2> QED BY <2>1 DEF SettledInv, Observed
<1>11. CASE RefuseRequest  BY <1>11 DEF RefuseRequest, SettledInv, Observed, ctx, ghost
<1> QED BY <1>1, <1>2, <1>3, <1>4, <1>5, <1>6, <1>7, <1>8, <1>9, <1>10, <1>11 DEF Next, Thread

\* lc_channel_track, chan_settled: what the AP writes to its sidecar is the channel asked for
\* last, by the HTTP side or by the ground; never one the chip passed through, booted on or was
\* left on by a failed push, for any table and any number of moves, pushes and restarts.
THEOREM LastAskedSavedHolds == Spec => LastAskedSaved
<1>1. Init => SettledInv
  <2>1. LoadChannel(Off) = DefaultChannel  BY DEF LoadChannel
  <2> QED BY <2>1, StartType, LinkChannelAssumption DEF Init, SettledInv, Wanted
<1>2. SettledInv /\ [Next]_vars => [file' # file => file' = last']_vars
  <2> SUFFICES ASSUME SettledInv, Next, file' # file PROVE file' = last'
    BY DEF vars
  <2>1. CASE AcceptRequest \/ AcceptUnchecked
    BY <2>1 DEF AcceptRequest, AcceptUnchecked, TakeRequest
  <2>2. CASE Track
    <3>1. settled /\ ~matches(channel) /\ file' = Observed /\ last' = last
      BY <2>2 DEF Track, ghost
    <3> QED BY <3>1, MatchesObserved DEF SettledInv
  <2>3. ASSUME \/ NoRequest \/ RefuseRequest \/ Connect \/ Drop \/ Relink \/ StayIdle
               \/ StayConnected \/ CheckEnds \/ Push \/ Retune \/ TrackFails \/ TickEnds
               \/ request_channel \/ PeerMoves \/ Adapt \/ Restart
        PROVE  file' = file
    BY <2>3 DEF NoRequest, RefuseRequest, Connect, Drop, Relink, StayIdle, StayConnected,
       CheckEnds, Push, Retune, PushTo, TrackFails, TickEnds, request_channel, PeerMoves,
       Adapt, Restart
  <2> QED BY <2>1, <2>2, <2>3 DEF Next, Thread
<1> QED BY <1>1, <1>2, NextSettled, PTL DEF Spec, LastAskedSaved

=============================================================================
