---- MODULE ControlPath ----
(***************************************************************************)
(* The messages beside the video: on the ground the relay thread            *)
(* (rx/idr_relay.c) sends clock probes and keyframe requests up the video   *)
(* socket; on the air unit one thread (tx/idr_ctrl.c) reads them, asks the  *)
(* encoder for keyframes and queues the probes' replies (tx/outq.c) with    *)
(* the sidecar's datagrams (tx/sidecar_sub.c), which the main loop writes   *)
(* (tx/main.c) and the receiver's main loop takes (rx/main.c).             *)
(*                                                                         *)
(* Time is the age of what waits: a tick makes everything in a queue older. *)
(* Nothing has to move before the next tick, so a link that is down for a   *)
(* while and a reader busy with the encoder's answer are delays.           *)
(***************************************************************************)
EXTENDS ClockWindow, FiniteSets

CONSTANTS
    FastPeriod, Period,   \* CLOCK_SYNC_FAST_PERIOD_MS, CLOCK_SYNC_PERIOD_MS
    Tokens,               \* the tokens PixelPilot sends
    Slots,                \* IDR_CTRL_TOKENS
    Dedup, Coalesce,      \* dedup_ms, coalesce_ms
    OutqDepth,            \* TX_OUTQ_DEPTH
    MaxUp, MaxDown,       \* what the socket's two directions hold
    Configs,              \* idr_relay_cfg_t: which of "sync" and "idr" the relay serves
    MaxFaults             \* reboots, requests without a keyframe and requests met by congestion

ASSUME PathAssumption == Configs \subseteq SUBSET {"sync", "idr"} /\ Slots \in Nat \ {0} /\ OutqDepth \in Nat \ {0}

VARIABLES
    uses,      \* the relay's configuration
    epoch,     \* the air unit's boots
    upq,       \* ground to air: probes and keyframe requests
    seen,      \* [token -> its age in the reader's memory; Dedup: not there]
    honored,   \* the age of the last honored request
    outq,      \* replies and sidecar datagrams
    downq,     \* air to ground: replies
    win,       \* the window of the clock's samples
    since,     \* the age of the last probe sent
    fresh,     \* a sample of this boot of the air unit has been taken
    want,      \* PixelPilot is waiting for a keyframe
    left       \* the faults that may still happen

vars == <<uses, epoch, upq, seen, honored, outq, downq, win, since, fresh, want, left>>

Ground == <<win, since, fresh>>
World == <<uses, epoch, want>>

(* A probe, then its reply: up and down are the times it took either way,   *)
(* old says that t1 < stale_until_us.  behind is no state of the program:   *)
(* the probe waited in a queue with one that became stale there, and the    *)
(* reply to that one is not lost.                                           *)
Probe == [kind |-> "probe", up |-> 0, down |-> 0, old |-> FALSE, behind |-> FALSE, epoch |-> 0]
Request(t) == [kind |-> "request", token |-> t]
Sidecar == [kind |-> "sidecar"]
IsProbe(m) == m.kind = "probe"

Unseen == [t \in Tokens |-> Dedup]

Init ==
    /\ uses \in Configs /\ epoch = 0 /\ upq = <<>> /\ seen = Unseen /\ honored = Coalesce
    /\ outq = <<>> /\ downq = <<>> /\ win = <<>> /\ since = Period /\ fresh = FALSE
    /\ want = FALSE /\ left = MaxFaults

Fault == left > 0 /\ left' = left - 1

Each(q, Do(_)) == [i \in DOMAIN q |-> IF IsProbe(q[i]) THEN Do(q[i]) ELSE q[i]]
Excused(q) == Each(q, LAMBDA m : [m EXCEPT !.behind = FALSE])
Stuck(q) == \E i \in DOMAIN q : IsProbe(q[i]) /\ q[i].up > MaxRtt
Marked(q) == IF Stuck(q) THEN Each(q, LAMBDA m : [m EXCEPT !.behind = TRUE]) ELSE q

-----------------------------------------------------------------------------
(* The ground: the relay thread.                                           *)

\* clock_sync_due(): the fast period until the window is full.
Due == since >= IF Len(win) < Window THEN FastPeriod ELSE Period

\* A probe goes into the socket, or is lost where that takes no more.
SendProbe ==
    /\ "sync" \in uses /\ Due
    /\ since' = 0
    /\ upq' = IF Len(upq) < MaxUp THEN Marked(Append(upq, Probe)) ELSE upq
    /\ UNCHANGED <<World, seen, honored, outq, downq, win, fresh, left>>

\* PixelPilot repeats its request, with any token, until a keyframe comes; the relay passes it on.
RelayRequest ==
    /\ want /\ Len(upq) < MaxUp
    /\ \E t \in Tokens : upq' = Append(upq, Request(t))
    /\ UNCHANGED <<World, seen, honored, outq, downq, Ground, left>>

-----------------------------------------------------------------------------
(* The air unit: the reader of the reverse direction, and the main loop.   *)

\* tx_outq_push(): a full queue loses its oldest entry.
Pushed(q, m) == Append(IF Len(q) = OutqDepth THEN Tail(q) ELSE q, m)
LosesReply(q) == Len(q) = OutqDepth /\ IsProbe(q[1])
Push(rest, m) ==
    IF LosesReply(outq) THEN outq' = Excused(Pushed(outq, m)) /\ upq' = Excused(rest)
    ELSE outq' = Pushed(outq, m) /\ upq' = rest

\* A probe: t2 is read once the thread gets to it, the reply queued.
ReadProbe ==
    /\ upq # <<>> /\ IsProbe(upq[1])
    /\ Push(Tail(upq), upq[1])
    /\ UNCHANGED <<World, seen, honored, downq, Ground, left>>

\* handle_idr(): a new token takes the place of the oldest of a full memory.
Live == {t \in Tokens : seen[t] < Dedup}
Evicted ==
    IF Cardinality(Live) < Slots THEN {}
    ELSE {CHOOSE o \in Live : \A t \in Live : seen[t] <= seen[o]}
Remember(t) == seen' = [u \in Tokens |-> IF u = t THEN 0 ELSE IF u \in Evicted THEN Dedup ELSE seen[u]]

\* The encoder is asked; its answer may be an error, and the keyframe may be lost on its way.
Honor ==
    /\ honored' = 0
    /\ \/ want' = FALSE /\ UNCHANGED left
       \/ Fault /\ UNCHANGED want

DropExtending == honored' = 0 /\ UNCHANGED <<want, left>>

\* A request soon after one that was honored.
DropCoalesced == UNCHANGED <<honored, want, left>>

\* bitrate_ctl_congested().
DropCongested == Fault /\ UNCHANGED <<honored, want>>

\* A token that is still remembered is passed over.
ReadRequest ==
    /\ upq # <<>> /\ ~IsProbe(upq[1])
    /\ upq' = Tail(upq)
    /\ IF upq[1].token \in Live THEN UNCHANGED <<seen, honored, want, left>>
       ELSE /\ Remember(upq[1].token)
            /\ \/ DropCongested
               \/ honored < Coalesce /\ DropCoalesced
               \/ honored >= Coalesce /\ Honor
    /\ UNCHANGED <<uses, epoch, outq, downq, Ground>>

\* sidecar_sub_thread_main(): a datagram of the encoder's sidecar.
SidecarFrame ==
    /\ Push(upq, Sidecar)
    /\ UNCHANGED <<World, seen, honored, downq, Ground, left>>

\* The numbers of S, none above m, from the least on.
Ascending(S, m) ==
    {at \in UNION {[1 .. n -> S] : n \in 0 .. m} :
        /\ \A i \in S : \E k \in DOMAIN at : at[k] = i
        /\ \A k, l \in DOMAIN at : k < l => at[k] < at[l]}

\* stage_outq() and the write: everything queued goes, each reply with its t3, or is lost.
Flush ==
    /\ outq # <<>> /\ outq' = <<>>
    /\ \E at \in Ascending({i \in DOMAIN outq : IsProbe(outq[i])}, Len(outq)) :
          LET rs == [k \in DOMAIN at |-> [outq[at[k]] EXCEPT !.epoch = epoch]]
          IN  \/ Len(downq) + Len(rs) <= MaxDown /\ downq' = downq \o rs /\ UNCHANGED upq
              \/ rs # <<>> /\ upq' = Excused(upq) /\ UNCHANGED downq
    /\ UNCHANGED <<World, seen, honored, Ground, left>>

-----------------------------------------------------------------------------
(* The ground: a reply comes off the stream.                               *)

AgedNone(q) == q

\* A stale reply moves stale_until_us: every probe under way was sent before it came.
Aged(q) == Each(q, LAMBDA m : [m EXCEPT !.old = TRUE])

\* clock_sync_on_reply().
OnReply ==
    /\ downq # <<>>
    /\ LET r == downq[1]
           rest == Tail(downq)
       IN  IF r.up + r.down > MaxRtt   \* a stale one
           THEN /\ upq' = Aged(upq) /\ outq' = Aged(outq) /\ downq' = Aged(rest)
                /\ UNCHANGED <<win, fresh>>
           ELSE /\ downq' = rest
                /\ win' = IF r.old THEN win ELSE Add(win, Sample(r))
                /\ fresh' = (fresh \/ (~r.old /\ r.epoch = epoch))
                /\ UNCHANGED <<upq, outq>>
    /\ UNCHANGED <<World, seen, honored, since, left>>

-----------------------------------------------------------------------------
(* Time, and the world.                                                    *)

Older(age, cap) == IF age < cap THEN age + 1 ELSE age

\* Of a stale one nothing else matters.
Stale == [Probe EXCEPT !.up = MaxRtt + 1]
Wait(q, way) == Each(q, LAMBDA m : IF m.up + m.down < MaxRtt THEN [m EXCEPT ![way] = @ + 1] ELSE Stale)

\* The wait in outq is between t2 and t3, which the ground takes out.
Tick ==
    /\ upq' = Marked(Wait(upq, "up")) /\ downq' = Wait(downq, "down")
    /\ seen' = [t \in Tokens |-> Older(seen[t], Dedup)] /\ honored' = Older(honored, Coalesce)
    /\ since' = Older(since, Period)
    /\ UNCHANGED <<World, outq, win, fresh, left>>

\* PixelPilot needs a keyframe.
Want ==
    /\ "idr" \in uses /\ ~want /\ want' = TRUE
    /\ UNCHANGED <<uses, epoch, upq, seen, honored, outq, downq, Ground, left>>

\* The air unit reboots: its clock starts over and what it held is gone.
Reboot ==
    /\ Fault
    /\ epoch' = epoch + 1 /\ fresh' = FALSE
    /\ seen' = Unseen /\ honored' = Coalesce /\ outq' = <<>> /\ upq' = Excused(upq)
    /\ UNCHANGED <<uses, want, downq, win, since>>

Next ==
    \/ SendProbe \/ RelayRequest
    \/ ReadProbe \/ ReadRequest \/ SidecarFrame \/ Flush
    \/ OnReply
    \/ Tick \/ Want \/ Reboot

Spec == Init /\ [][Next]_vars

(* The reader runs, so the link comes back, time goes on, and of the        *)
(* requests PixelPilot keeps sending one finds room.                        *)
FairSpec ==
    /\ Spec
    /\ WF_vars(Tick) /\ WF_vars(ReadProbe \/ ReadRequest) /\ SF_vars(RelayRequest)

-----------------------------------------------------------------------------
(* Properties.                                                             *)

Range(f) == {f[i] : i \in DOMAIN f}

\* The queues keep to their size and the window to its length, with samples of round
\* trips no longer than the bound only (clock_sync_on_reply(), tx_outq_push()).
TypeOK ==
    /\ uses \in Configs /\ want \in BOOLEAN
    /\ epoch \in 0 .. MaxFaults /\ fresh \in BOOLEAN
    /\ Len(upq) <= MaxUp /\ Len(downq) <= MaxDown /\ Len(outq) <= OutqDepth /\ Len(win) <= Window
    /\ seen \in [Tokens -> 0 .. Dedup] /\ honored \in 0 .. Coalesce /\ since \in 0 .. Period
    /\ \A s \in Range(win) : s.rtt \in 0 .. MaxRtt /\ s.epoch \in 0 .. epoch

\* From its first sample on, the clock of a rebooted air unit is the one clock_sync_get()
\* tells, however much better the samples of the clock before it were.
EstimateSound == fresh => Best(win).epoch = epoch

\* No probe of a backlog is a sample, not even the young ones whose own round trip is
\* short, unless the reply that would have shown the backlog was lost.
BacklogUnused == \A s \in Range(win) : ~s.behind

\* Delays alone, however unlike each other, never make clock_sync_on_reply() start over:
\* a window of one boot only grows to its full length.
NoFalseReset ==
    [][LET s == win'[Len(win')]
       IN  win' # win /\ (\A o \in Range(win) : o.epoch = s.epoch)
             => Len(win') = IF Len(win) < Window THEN Len(win) + 1 ELSE Window]_vars

\* A keyframe that is wanted comes in the end: no token's memory, coalescing, congestion or
\* failed request keeps every later request from the encoder (handle_idr()).
KeyframeComes == want ~> ~want

\* clock_sync_on_reply() takes as samples only what tells the air unit's clock: neither a
\* backlog nor a clock from before a reboot is what clock_sync_get() answers from.
ClockTrusted == EstimateSound /\ BacklogUnused
====
