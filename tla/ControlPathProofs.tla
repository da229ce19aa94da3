-------------------------- MODULE ControlPathProofs -------------------------
(***************************************************************************)
(* The air unit's clock for every value of ControlPath's constants.        *)
(* QueueInv follows the backlogs: a probe that waited beside one gone      *)
(* stale, and whose own round trip does not give it away, has the stale    *)
(* one ahead of it until the ground knows, or the reply to it is lost.     *)
(* BootInv says that replies come in the order of the boots of the air     *)
(* unit, WinInv that the window of samples is of one boot, no later than   *)
(* what comes.  Together they are PathInv, which is inductive.             *)
(***************************************************************************)
EXTENDS ControlPath, WellFoundedInduction, TLAPS

-----------------------------------------------------------------------------
(* The inductive invariant *)

\* What waits in the queues, and the samples of the window.
Probes == [kind : {"probe"}, up : Nat, down : Nat, old : BOOLEAN, behind : BOOLEAN, epoch : Nat]
Requests == [kind : {"request"}, token : Tokens]
Samples == [err : Int, rtt : Nat, epoch : Nat, behind : BOOLEAN]
QueueTypes ==
    /\ upq \in Seq(Probes \cup Requests) /\ outq \in Seq(Probes \cup {Sidecar}) /\ downq \in Seq(Probes)
    /\ epoch \in Nat

\* A reply that will be found stale, and one before i.
Late(m) == IsProbe(m) /\ m.up + m.down > MaxRtt
HasLate(q) == \E j \in DOMAIN q : Late(q[j])
LateBefore(q, i) == \E j \in DOMAIN q : j < i /\ Late(q[j])

\* On the way up and in the air unit only the way up counts; who was sent first waited longer.
NoDown(q) == \A i \in DOMAIN q : IsProbe(q[i]) => q[i].down = 0
Waited(q) == \A i, j \in DOMAIN q : i < j /\ IsProbe(q[i]) /\ IsProbe(q[j]) => q[j].up <= q[i].up
AgeInv == NoDown(upq) /\ NoDown(outq) /\ Waited(upq)

\* A probe of a backlog that its own round trip does not give away has the stale one ahead of it,
\* in its own queue or in one that is ahead.
Suspect(m) == IsProbe(m) /\ m.behind /\ ~m.old /\ ~Late(m)
Guarded(q, ahead) == \A i \in DOMAIN q : Suspect(q[i]) => ahead \/ LateBefore(q, i)
BacklogInv ==
    /\ Guarded(downq, FALSE) /\ Guarded(outq, HasLate(downq))
    /\ Guarded(upq, HasLate(downq) \/ HasLate(outq))

QueueInv == QueueTypes /\ AgeInv /\ BacklogInv

\* Replies come in the order of the boots they tell the clock of.
Boots(q, e) ==
    /\ \A i \in DOMAIN q : ~Late(q[i]) => q[i].epoch <= e
    /\ \A i, j \in DOMAIN q : i < j /\ ~Late(q[i]) /\ ~Late(q[j]) => q[i].epoch <= q[j].epoch
BootInv == Boots(downq, epoch)

\* A sample clock_sync_on_reply() may take: delays bound its error, and it is not of a backlog.
Honest(s) ==
    s \in Samples /\ s.rtt <= MaxRtt /\ s.err <= s.rtt /\ -s.rtt <= s.err /\ ~s.behind

\* The samples of the window are of one boot, no later than what comes.
OneBoot(w) == \A i, j \in DOMAIN w : w[i].epoch = w[j].epoch
UpTo(w, e) == \A i \in DOMAIN w : w[i].epoch <= e
Ahead(w, q) == \A i \in DOMAIN w, j \in DOMAIN q : ~Late(q[j]) => w[i].epoch <= q[j].epoch
WinInv ==
    /\ win \in Seq(Samples) /\ Len(win) <= Window /\ \A i \in DOMAIN win : Honest(win[i])
    /\ OneBoot(win) /\ UpTo(win, epoch) /\ Ahead(win, downq)
    /\ fresh => win # <<>> /\ \A i \in DOMAIN win : win[i].epoch = epoch

PathInv == QueueInv /\ BootInv /\ WinInv

-----------------------------------------------------------------------------
(* Messages and queues *)

\* What a probe has.
LEMMA ProbeFacts ==
  ASSUME NEW m \in Probes
  PROVE  /\ IsProbe(m) /\ m.up \in Nat /\ m.down \in Nat /\ m.epoch \in Nat
         /\ m.old \in BOOLEAN /\ m.behind \in BOOLEAN
<1>1. m.kind = "probe" /\ m.up \in Nat /\ m.down \in Nat /\ m.epoch \in Nat  BY DEF Probes
<1>2. m.old \in BOOLEAN /\ m.behind \in BOOLEAN  BY DEF Probes
<1> QED BY <1>1, <1>2 DEF IsProbe

\* A probe with another mark is a probe.
LEMMA WithBehind ==
  ASSUME NEW m \in Probes, NEW b \in BOOLEAN, NEW w, w = [m EXCEPT !.behind = b]
  PROVE  w \in Probes /\ w.behind = b /\ w.up = m.up /\ w.down = m.down /\ w.old = m.old
  BY DEF Probes

\* So it is when it is called old.
LEMMA WithOld ==
  ASSUME NEW m \in Probes, NEW b \in BOOLEAN, NEW w, w = [m EXCEPT !.old = b]
  PROVE  w \in Probes /\ w.old = b /\ w.up = m.up /\ w.down = m.down /\ w.epoch = m.epoch
  BY DEF Probes

\* And when the air unit puts its clock in.
LEMMA WithEpoch ==
  ASSUME NEW m \in Probes, NEW e \in Nat, NEW w, w = [m EXCEPT !.epoch = e]
  PROVE  /\ w \in Probes /\ w.epoch = e /\ w.up = m.up /\ w.down = m.down
         /\ w.old = m.old /\ w.behind = m.behind
  BY DEF Probes

\* A new probe, and one that is stale.
LEMMA NewProbe ==
  /\ Probe \in Probes /\ Probe.up = 0 /\ Probe.down = 0 /\ ~Probe.behind
  /\ Stale \in Probes /\ Late(Stale) /\ Stale.down = 0 /\ Stale.up = MaxRtt + 1
<1>1. MaxRtt \in Nat  BY ClockAssumption
<1>2. Probe \in Probes /\ Probe.up = 0 /\ Probe.down = 0  BY DEF Probe, Probes
<1>3. ~Probe.behind  BY DEF Probe
<1>3a. PICK m \in Probes : m = Probe  BY <1>2
<1>4. [m EXCEPT !.up = MaxRtt + 1] \in Probes /\ [m EXCEPT !.up = MaxRtt + 1].up = MaxRtt + 1
      /\ [m EXCEPT !.up = MaxRtt + 1].down = m.down /\ [m EXCEPT !.up = MaxRtt + 1].kind = "probe"
  BY <1>1 DEF Probes
<1>5. Stale \in Probes /\ Stale.down = 0 /\ Stale.up = MaxRtt + 1 /\ Stale.kind = "probe"
  BY <1>2, <1>3a, <1>4 DEF Stale
<1>6. Late(Stale)  BY <1>1, <1>5 DEF Late, IsProbe
<1> QED BY <1>2, <1>3, <1>5, <1>6

\* A tick more of a probe's way.
LEMMA WaitProbe ==
  ASSUME NEW m \in Probes, NEW way \in {"up", "down"}, NEW w, w = [m EXCEPT ![way] = @ + 1]
  PROVE  /\ w \in Probes /\ w.up = IF way = "up" THEN m.up + 1 ELSE m.up
         /\ w.down = IF way = "down" THEN m.down + 1 ELSE m.down
         /\ w.behind = m.behind /\ w.old = m.old /\ w.epoch = m.epoch
<1>1. CASE way = "up"  BY <1>1 DEF Probes
<1>2. CASE way = "down"  BY <1>2 DEF Probes
<1> QED BY <1>1, <1>2

\* The other messages.
Others == Requests \cup {Sidecar}

\* They are no probes.
LEMMA OtherFacts == \A m \in Others : ~IsProbe(m) /\ m \notin Probes
  BY DEF Others, Requests, Sidecar, IsProbe, Probes

\* Element by element two queues have the same probes with the same times.
Same(q, p) ==
    /\ DOMAIN p = DOMAIN q /\ Len(p) = Len(q)
    /\ \A i \in DOMAIN q : (IsProbe(p[i]) <=> IsProbe(q[i]))
    /\ \A i \in DOMAIN q : IsProbe(q[i]) => p[i].up = q[i].up /\ p[i].down = q[i].down

\* So they have the same late ones.
LEMMA SameLate ==
  ASSUME NEW q, NEW p, Same(q, p)
  PROVE  (\A i \in DOMAIN q : (Late(p[i]) <=> Late(q[i]))) /\ (HasLate(p) <=> HasLate(q))
         /\ \A i \in DOMAIN q : (LateBefore(p, i) <=> LateBefore(q, i))
<1>1. \A i \in DOMAIN q : (Late(p[i]) <=> Late(q[i]))  BY DEF Same, Late
<1> QED BY <1>1 DEF Same, HasLate, LateBefore

\* A queue of probes and others, of which the probes are replaced by probes.
LEMMA EachType ==
  ASSUME NEW R \in SUBSET Others, NEW q \in Seq(Probes \cup R), NEW p,
         p = [i \in DOMAIN q |-> IF IsProbe(q[i]) THEN p[i] ELSE q[i]],
         \A i \in DOMAIN q : IsProbe(q[i]) => p[i] \in Probes
  PROVE  p \in Seq(Probes \cup R) /\ DOMAIN p = DOMAIN q /\ Len(p) = Len(q)
         /\ \A i \in DOMAIN q : (IsProbe(p[i]) <=> IsProbe(q[i]))
<1>1. DOMAIN q = 1..Len(q) /\ Len(q) \in Nat /\ \A i \in DOMAIN q : q[i] \in Probes \cup R  OBVIOUS
<1>2. DOMAIN p = DOMAIN q /\ \A i \in DOMAIN q : p[i] \in Probes \cup R  BY <1>1
<1>3. p \in [1..Len(q) -> Probes \cup R]  BY <1>1, <1>2
<1>4. p \in Seq(Probes \cup R) /\ Len(p) = Len(q)  BY <1>1, <1>3
<1>5. ASSUME NEW i \in DOMAIN q PROVE (IsProbe(p[i]) <=> IsProbe(q[i]))
  <2>1. CASE IsProbe(q[i])
    <3>1. p[i] \in Probes  BY <2>1
    <3> QED BY <2>1, <3>1, ProbeFacts
  <2>2. CASE ~IsProbe(q[i])
    <3>1. p[i] = q[i]  BY <2>2
    <3> QED BY <2>2, <3>1
  <2> QED BY <2>1, <2>2
<1> QED BY <1>2, <1>4, <1>5

\* The probes of such a queue.
LEMMA Elements ==
  ASSUME NEW R \in SUBSET Others, NEW q \in Seq(Probes \cup R), NEW i \in DOMAIN q
  PROVE  IsProbe(q[i]) <=> q[i] \in Probes
<1>1. q[i] \in Probes \cup R  OBVIOUS
<1>2. CASE q[i] \in Probes  BY <1>2, ProbeFacts
<1>3. CASE q[i] \in R  BY <1>3, OtherFacts
<1> QED BY <1>1, <1>2, <1>3

\* Excused(): no probe is suspect any more.
LEMMA ExcusedFacts ==
  ASSUME NEW R \in SUBSET Others, NEW q \in Seq(Probes \cup R)
  PROVE  /\ Excused(q) \in Seq(Probes \cup R) /\ Same(q, Excused(q))
         /\ \A i \in DOMAIN q : ~Suspect(Excused(q)[i])
<1>1. PICK p : p = Excused(q)  OBVIOUS
<1>2. p = [i \in DOMAIN q |-> IF IsProbe(q[i]) THEN [q[i] EXCEPT !.behind = FALSE] ELSE q[i]]
  BY <1>1 DEF Excused, Each
<1>3. \A i \in DOMAIN q : IsProbe(q[i]) => q[i] \in Probes  BY Elements
<1>4. ASSUME NEW i \in DOMAIN q, IsProbe(q[i])
      PROVE  p[i] \in Probes /\ ~p[i].behind /\ p[i].up = q[i].up /\ p[i].down = q[i].down
  <2>1. PICK m \in Probes : m = q[i]  BY <1>3, <1>4
  <2>2. p[i] = [m EXCEPT !.behind = FALSE]  BY <1>2, <1>4, <2>1
  <2> QED BY <2>1, <2>2, WithBehind
<1>5. p = [i \in DOMAIN q |-> IF IsProbe(q[i]) THEN p[i] ELSE q[i]]  BY <1>2
<1>6. /\ p \in Seq(Probes \cup R) /\ DOMAIN p = DOMAIN q /\ Len(p) = Len(q)
      /\ \A i \in DOMAIN q : IsProbe(p[i]) <=> IsProbe(q[i])
  BY <1>4, <1>5, EachType
<1>7. Same(q, p)  BY <1>4, <1>6 DEF Same
<1>8. \A i \in DOMAIN q : ~Suspect(p[i])  BY <1>4, <1>6 DEF Suspect
<1> QED BY <1>1, <1>6, <1>7, <1>8

\* Marked(): nothing but behind changes, and that only beside a probe that is stuck.
LEMMA MarkedFacts ==
  ASSUME NEW R \in SUBSET Others, NEW q \in Seq(Probes \cup R)
  PROVE  /\ Marked(q) \in Seq(Probes \cup R) /\ Same(q, Marked(q))
         /\ ~Stuck(q) => Marked(q) = q
<1>1. CASE ~Stuck(q)
  <2>1. Marked(q) = q  BY <1>1 DEF Marked
  <2> QED BY <2>1 DEF Same
<1>2. CASE Stuck(q)
  <2>1. PICK p : p = Marked(q)  OBVIOUS
  <2>2. p = [i \in DOMAIN q |-> IF IsProbe(q[i]) THEN [q[i] EXCEPT !.behind = TRUE] ELSE q[i]]
    BY <1>2, <2>1 DEF Marked, Each
  <2>3. \A i \in DOMAIN q : IsProbe(q[i]) => q[i] \in Probes  BY Elements
  <2>4. ASSUME NEW i \in DOMAIN q, IsProbe(q[i])
        PROVE  p[i] \in Probes /\ p[i].up = q[i].up /\ p[i].down = q[i].down
    <3>1. PICK m \in Probes : m = q[i]  BY <2>3, <2>4
    <3>2. p[i] = [m EXCEPT !.behind = TRUE]  BY <2>2, <2>4, <3>1
    <3> QED BY <3>1, <3>2, WithBehind
  <2>5. p = [i \in DOMAIN q |-> IF IsProbe(q[i]) THEN p[i] ELSE q[i]]  BY <2>2
  <2>6. /\ p \in Seq(Probes \cup R) /\ DOMAIN p = DOMAIN q /\ Len(p) = Len(q)
        /\ \A i \in DOMAIN q : IsProbe(p[i]) <=> IsProbe(q[i])
    BY <2>4, <2>5, EachType
  <2>7. Same(q, p)  BY <2>4, <2>6 DEF Same
  <2> QED BY <1>2, <2>1, <2>6, <2>7
<1> QED BY <1>1, <1>2

\* Aged(): every probe is an old one, with its times and its epoch.
LEMMA AgedFacts ==
  ASSUME NEW R \in SUBSET Others, NEW q \in Seq(Probes \cup R)
  PROVE  /\ Aged(q) \in Seq(Probes \cup R) /\ Same(q, Aged(q))
         /\ \A i \in DOMAIN q : ~Suspect(Aged(q)[i])
         /\ \A i \in DOMAIN q : IsProbe(q[i]) => Aged(q)[i].epoch = q[i].epoch
<1>1. PICK p : p = Aged(q)  OBVIOUS
<1>2. p = [i \in DOMAIN q |-> IF IsProbe(q[i]) THEN [q[i] EXCEPT !.old = TRUE] ELSE q[i]]
  BY <1>1 DEF Aged, Each
<1>3. \A i \in DOMAIN q : IsProbe(q[i]) => q[i] \in Probes  BY Elements
<1>4. ASSUME NEW i \in DOMAIN q, IsProbe(q[i])
      PROVE  /\ p[i] \in Probes /\ p[i].old /\ p[i].up = q[i].up /\ p[i].down = q[i].down
             /\ p[i].epoch = q[i].epoch
  <2>1. PICK m \in Probes : m = q[i]  BY <1>3, <1>4
  <2>2. p[i] = [m EXCEPT !.old = TRUE]  BY <1>2, <1>4, <2>1
  <2> QED BY <2>1, <2>2, WithOld
<1>5. p = [i \in DOMAIN q |-> IF IsProbe(q[i]) THEN p[i] ELSE q[i]]  BY <1>2
<1>6. /\ p \in Seq(Probes \cup R) /\ DOMAIN p = DOMAIN q /\ Len(p) = Len(q)
      /\ \A i \in DOMAIN q : IsProbe(p[i]) <=> IsProbe(q[i])
  BY <1>4, <1>5, EachType
<1>7. Same(q, p)  BY <1>4, <1>6 DEF Same
<1>8. \A i \in DOMAIN q : ~Suspect(p[i])  BY <1>4, <1>6 DEF Suspect
<1> QED BY <1>1, <1>4, <1>6, <1>7, <1>8

\* A tick later w is what m was: its way is longer, and past the bound only that counts.
Longer(m, w, way) ==
    IF m.up + m.down < MaxRtt
    THEN /\ w.up = IF way = "up" THEN m.up + 1 ELSE m.up
         /\ w.down = IF way = "down" THEN m.down + 1 ELSE m.down
         /\ w.behind = m.behind /\ w.old = m.old /\ w.epoch = m.epoch
    ELSE Late(w) /\ w.up = MaxRtt + 1 /\ w.down = 0

\* Late stays late, and who is not late now was not.
LEMMA LongerFacts ==
  ASSUME NEW m \in Probes, NEW w \in Probes, NEW way, Longer(m, w, way)
  PROVE  /\ Late(m) => Late(w)
         /\ ~Late(w) => ~Late(m) /\ w.epoch = m.epoch
         /\ Suspect(w) => Suspect(m)
<1>1. /\ m.up \in Nat /\ m.down \in Nat /\ IsProbe(m) /\ IsProbe(w) /\ MaxRtt \in Nat
  BY ProbeFacts, ClockAssumption
<1>2. m.up + m.down < MaxRtt => ~Late(m)  BY <1>1 DEF Late
<1>3. CASE m.up + m.down < MaxRtt  BY <1>1, <1>2, <1>3 DEF Longer, Suspect
<1>4. CASE ~(m.up + m.down < MaxRtt)  BY <1>4 DEF Longer, Suspect
<1> QED BY <1>3, <1>4

\* So it is for every probe of a queue.
Later(q, p, R, way) ==
    /\ p \in Seq(Probes \cup R) /\ DOMAIN p = DOMAIN q /\ Len(p) = Len(q)
    /\ \A i \in DOMAIN q : IsProbe(p[i]) <=> IsProbe(q[i])
    /\ \A i \in DOMAIN q : IsProbe(q[i]) => p[i] \in Probes /\ q[i] \in Probes /\ Longer(q[i], p[i], way)
    /\ \A i \in DOMAIN q : Late(q[i]) => Late(p[i])
    /\ \A i \in DOMAIN q : IsProbe(q[i]) /\ ~Late(p[i]) => ~Late(q[i]) /\ p[i].epoch = q[i].epoch
    /\ \A i \in DOMAIN q : Suspect(p[i]) => Suspect(q[i])

\* Wait().
LEMMA WaitFacts ==
  ASSUME NEW R \in SUBSET Others, NEW q \in Seq(Probes \cup R), NEW way \in {"up", "down"}
  PROVE  Later(q, Wait(q, way), R, way)
<1>1. PICK p : p = Wait(q, way)  OBVIOUS
<1>2. p = [i \in DOMAIN q |-> IF IsProbe(q[i]) THEN IF q[i].up + q[i].down < MaxRtt
                                  THEN [q[i] EXCEPT ![way] = @ + 1] ELSE Stale ELSE q[i]]
  BY <1>1 DEF Wait, Each
<1>3. \A i \in DOMAIN q : IsProbe(q[i]) => q[i] \in Probes  BY Elements
<1>4. ASSUME NEW i \in DOMAIN q, IsProbe(q[i]) PROVE p[i] \in Probes /\ Longer(q[i], p[i], way)
  <2>1. PICK m \in Probes : m = q[i]  BY <1>3, <1>4
  <2>2. PICK w : w = p[i]  OBVIOUS
  <2>3. CASE m.up + m.down < MaxRtt
    <3>1. w = [m EXCEPT ![way] = @ + 1]  BY <1>2, <1>4, <2>1, <2>2, <2>3
    <3>2. /\ w \in Probes /\ w.up = IF way = "up" THEN m.up + 1 ELSE m.up
          /\ w.down = IF way = "down" THEN m.down + 1 ELSE m.down
          /\ w.behind = m.behind /\ w.old = m.old /\ w.epoch = m.epoch
      BY <3>1, WaitProbe
    <3>3. Longer(m, w, way)  BY <2>3, <3>2 DEF Longer
    <3> QED BY <2>1, <2>2, <3>2, <3>3
  <2>4. CASE ~(m.up + m.down < MaxRtt)
    <3>1. w = Stale  BY <1>2, <1>4, <2>1, <2>2, <2>4
    <3>2. w \in Probes /\ Longer(m, w, way)  BY <2>4, <3>1, NewProbe DEF Longer
    <3> QED BY <2>1, <2>2, <3>2
  <2> QED BY <2>3, <2>4
<1>5. p = [i \in DOMAIN q |-> IF IsProbe(q[i]) THEN p[i] ELSE q[i]]  BY <1>2
<1>6. \A i \in DOMAIN q : IsProbe(q[i]) => p[i] \in Probes  BY <1>4
<1>7. /\ p \in Seq(Probes \cup R) /\ DOMAIN p = DOMAIN q /\ Len(p) = Len(q)
      /\ \A i \in DOMAIN q : IsProbe(p[i]) <=> IsProbe(q[i])
  BY <1>5, <1>6, EachType
<1>8. \A i \in DOMAIN q : Late(q[i]) => IsProbe(q[i])  BY DEF Late
<1>9. \A i \in DOMAIN q : Suspect(p[i]) => IsProbe(p[i])  BY DEF Suspect
<1>10. \A i \in DOMAIN q : Late(q[i]) => Late(p[i])  BY <1>3, <1>4, <1>8, LongerFacts
<1>11. \A i \in DOMAIN q : IsProbe(q[i]) /\ ~Late(p[i]) => ~Late(q[i]) /\ p[i].epoch = q[i].epoch
  BY <1>3, <1>4, LongerFacts
<1>12. \A i \in DOMAIN q : Suspect(p[i]) => Suspect(q[i])  BY <1>3, <1>4, <1>7, <1>9, LongerFacts
<1>13. Later(q, p, R, way)  BY <1>3, <1>4, <1>7, <1>10, <1>11, <1>12 DEF Later
<1> QED BY <1>1, <1>13

\* The rest of a queue, and a queue with one message more.
LEMMA TailFacts ==
  ASSUME NEW S, NEW q \in Seq(S), q # <<>>
  PROVE  /\ Tail(q) \in Seq(S) /\ Len(Tail(q)) = Len(q) - 1 /\ DOMAIN Tail(q) = 1..(Len(q) - 1)
         /\ 1 \in DOMAIN q /\ q[1] \in S /\ Len(q) \in Nat /\ DOMAIN q = 1..Len(q)
         /\ \A i \in DOMAIN Tail(q) : i \in Nat /\ i + 1 \in DOMAIN q /\ Tail(q)[i] = q[i + 1]
  OBVIOUS

\* A queue with one message more.
LEMMA AppendFacts ==
  ASSUME NEW S, NEW q \in Seq(S), NEW m \in S
  PROVE  /\ Append(q, m) \in Seq(S) /\ Len(q) \in Nat /\ DOMAIN q = 1..Len(q)
         /\ DOMAIN Append(q, m) = 1..(Len(q) + 1) /\ Append(q, m)[Len(q) + 1] = m
         /\ \A i \in DOMAIN q : i \in DOMAIN Append(q, m) /\ Append(q, m)[i] = q[i]
         /\ \A i \in DOMAIN Append(q, m) : i \in Nat /\ (i \in DOMAIN q \/ i = Len(q) + 1)
  OBVIOUS

\* Late ones ahead are still there.
LEMMA GuardedMore ==
  ASSUME NEW q, NEW a, NEW b, Guarded(q, a), a => b
  PROVE  Guarded(q, b)
  BY DEF Guarded

\* The head goes, and is ahead then.
LEMMA GuardedTail ==
  ASSUME NEW S, NEW q \in Seq(S), q # <<>>, NEW a, NEW b, Guarded(q, a), a => b, Late(q[1]) => b
  PROVE  /\ Guarded(Tail(q), b) /\ (Suspect(q[1]) => a)
         /\ HasLate(q) => Late(q[1]) \/ HasLate(Tail(q))
<1>1. /\ DOMAIN Tail(q) = 1..(Len(q) - 1) /\ 1 \in DOMAIN q /\ Len(q) \in Nat /\ DOMAIN q = 1..Len(q)
      /\ \A i \in DOMAIN Tail(q) : i \in Nat /\ i + 1 \in DOMAIN q /\ Tail(q)[i] = q[i + 1]
  BY TailFacts
<1>2. \A j \in DOMAIN q : j = 1 \/ (j - 1 \in DOMAIN Tail(q) /\ Tail(q)[j - 1] = q[j])
  <2> SUFFICES ASSUME NEW j \in DOMAIN q, j # 1 PROVE j - 1 \in DOMAIN Tail(q) /\ Tail(q)[j - 1] = q[j]
    OBVIOUS
  <2>1. j \in Nat /\ j - 1 \in 1..(Len(q) - 1) /\ (j - 1) + 1 = j  BY <1>1
  <2> QED BY <1>1, <2>1
<1>3. ASSUME NEW i \in DOMAIN Tail(q), Suspect(Tail(q)[i]), ~b PROVE LateBefore(Tail(q), i)
  <2>1. i \in Nat /\ i + 1 \in DOMAIN q /\ Suspect(q[i + 1])  BY <1>1, <1>3
  <2>2. PICK j \in DOMAIN q : j < i + 1 /\ Late(q[j])  BY <1>3, <2>1 DEF Guarded, LateBefore
  <2>3. j # 1  BY <1>3, <2>2
  <2>4. j - 1 \in DOMAIN Tail(q) /\ Late(Tail(q)[j - 1])  BY <1>2, <2>2, <2>3
  <2>5. j - 1 < i  BY <1>1, <2>1, <2>2
  <2> QED BY <2>4, <2>5 DEF LateBefore
<1>4. Guarded(Tail(q), b)  BY <1>3 DEF Guarded
<1>5. ASSUME Suspect(q[1]) PROVE a
  <2>1. a \/ LateBefore(q, 1)  BY <1>1, <1>5 DEF Guarded
  <2>2. ~LateBefore(q, 1)  BY <1>1 DEF LateBefore
  <2> QED BY <2>1, <2>2
<1>6. HasLate(q) => Late(q[1]) \/ HasLate(Tail(q))  BY <1>2 DEF HasLate
<1> QED BY <1>4, <1>5, <1>6

\* Nothing is lost with a head that is not late.
LEMMA TailLate ==
  ASSUME NEW S, NEW q \in Seq(S), q # <<>>
  PROVE  HasLate(Tail(q)) => HasLate(q)
<1>1. \A i \in DOMAIN Tail(q) : i + 1 \in DOMAIN q /\ Tail(q)[i] = q[i + 1]  BY TailFacts
<1> QED BY <1>1 DEF HasLate

\* A message more at the end.
LEMMA GuardedAppend ==
  ASSUME NEW S, NEW q \in Seq(S), NEW m \in S, NEW a, Guarded(q, a), Suspect(m) => a \/ HasLate(q)
  PROVE  /\ Guarded(Append(q, m), a)
         /\ HasLate(Append(q, m)) <=> HasLate(q) \/ Late(m)
<1>1. /\ Len(q) \in Nat /\ DOMAIN q = 1..Len(q)
      /\ DOMAIN Append(q, m) = 1..(Len(q) + 1) /\ Append(q, m)[Len(q) + 1] = m
      /\ \A i \in DOMAIN q : i \in DOMAIN Append(q, m) /\ Append(q, m)[i] = q[i]
      /\ \A i \in DOMAIN Append(q, m) : i \in Nat /\ (i \in DOMAIN q \/ i = Len(q) + 1)
  BY AppendFacts
<1>2. ASSUME NEW i \in DOMAIN q, Suspect(Append(q, m)[i]) PROVE a \/ LateBefore(Append(q, m), i)
  BY <1>1, <1>2 DEF Guarded, LateBefore
<1>3. ASSUME HasLate(q) PROVE LateBefore(Append(q, m), Len(q) + 1)
  <2>1. PICK j \in DOMAIN q : Late(q[j])  BY <1>3 DEF HasLate
  <2>2. j < Len(q) + 1  BY <1>1
  <2> QED BY <1>1, <2>1, <2>2 DEF LateBefore
<1>4. Guarded(Append(q, m), a)
  <2> SUFFICES ASSUME NEW i \in DOMAIN Append(q, m), Suspect(Append(q, m)[i])
               PROVE  a \/ LateBefore(Append(q, m), i)
    BY DEF Guarded
  <2>1. CASE i \in DOMAIN q  BY <1>2, <2>1
  <2>2. CASE i = Len(q) + 1  BY <1>1, <1>3, <2>2
  <2> QED BY <1>1, <2>1, <2>2
<1>5. Len(q) + 1 \in DOMAIN Append(q, m)  BY <1>1
<1>6. HasLate(Append(q, m)) => HasLate(q) \/ Late(m)
  <2> SUFFICES ASSUME NEW j \in DOMAIN Append(q, m), Late(Append(q, m)[j]) PROVE HasLate(q) \/ Late(m)
    BY DEF HasLate
  <2>1. CASE j \in DOMAIN q  BY <1>1, <2>1 DEF HasLate
  <2>2. CASE j = Len(q) + 1  BY <1>1, <2>2
  <2> QED BY <1>1, <2>1, <2>2
<1>7. HasLate(q) \/ Late(m) => HasLate(Append(q, m))  BY <1>1, <1>5 DEF HasLate
<1> QED BY <1>4, <1>6, <1>7

\* With nobody suspect nobody needs a guard.
LEMMA GuardedNone ==
  ASSUME NEW q, NEW p, DOMAIN p = DOMAIN q, \A i \in DOMAIN q : ~Suspect(p[i]), NEW a
  PROVE  Guarded(p, a)
  BY DEF Guarded

\* Who is marked beside a stuck probe of a queue has it ahead: it is the older one.
LEMMA GuardedMarked ==
  ASSUME NEW R \in SUBSET Others, NEW q \in Seq(Probes \cup R), NEW a,
         Guarded(q, a), NoDown(q), Waited(q)
  PROVE  Guarded(Marked(q), a) /\ NoDown(Marked(q)) /\ Waited(Marked(q))
<1>1. Marked(q) \in Seq(Probes \cup R) /\ Same(q, Marked(q)) /\ (~Stuck(q) => Marked(q) = q)
  BY MarkedFacts
<1>2. NoDown(Marked(q)) /\ Waited(Marked(q))  BY <1>1 DEF NoDown, Waited, Same
<1>3. CASE ~Stuck(q)  BY <1>1, <1>2, <1>3
<1>4. CASE Stuck(q)
  <2>1. PICK i \in DOMAIN q : IsProbe(q[i]) /\ q[i].up > MaxRtt  BY <1>4 DEF Stuck
  <2>2. \A k \in DOMAIN q : k \in Nat /\ (IsProbe(q[k]) => q[k].up \in Nat /\ q[k].down = 0)
    <3>1. DOMAIN q = 1..Len(q) /\ Len(q) \in Nat  OBVIOUS
    <3>2. \A k \in DOMAIN q : IsProbe(q[k]) => q[k] \in Probes  BY Elements
    <3>3. \A k \in DOMAIN q : IsProbe(q[k]) => q[k].up \in Nat  BY <3>2, ProbeFacts
    <3> QED BY <3>1, <3>3 DEF NoDown
  <2>3. Late(q[i]) /\ MaxRtt \in Nat  BY <2>1, <2>2, ClockAssumption DEF Late
  <2>4. ASSUME NEW k \in DOMAIN Marked(q), Suspect(Marked(q)[k]) PROVE LateBefore(Marked(q), k)
    <3>1. k \in DOMAIN q /\ IsProbe(q[k]) /\ ~Late(q[k])  BY <1>1, <2>4, SameLate DEF Same, Suspect
    <3>2. q[k].up <= MaxRtt  BY <2>2, <2>3, <3>1 DEF Late
    <3>3. ~(k < i) /\ k # i  BY <2>1, <2>2, <2>3, <3>1, <3>2 DEF Waited
    <3>4. i < k  BY <2>2, <3>1, <3>3
    <3>5. LateBefore(q, k)  BY <2>3, <3>4 DEF LateBefore
    <3> QED BY <1>1, <3>1, <3>5, SameLate
  <2>5. Guarded(Marked(q), a)  BY <2>4 DEF Guarded
  <2> QED BY <1>2, <2>5
<1> QED BY <1>3, <1>4

\* A tick leaves a guard in place, and who waited longer has waited longer.
LEMMA GuardedWait ==
  ASSUME NEW R \in SUBSET Others, NEW q \in Seq(Probes \cup R), NEW way \in {"up", "down"},
         NEW a, Guarded(q, a)
  PROVE  /\ Wait(q, way) \in Seq(Probes \cup R) /\ Guarded(Wait(q, way), a)
         /\ HasLate(q) => HasLate(Wait(q, way))
         /\ way = "up" /\ NoDown(q) /\ Waited(q) => NoDown(Wait(q, way)) /\ Waited(Wait(q, way))
<1>1. PICK p : p = Wait(q, way)  OBVIOUS
<1>2. /\ p \in Seq(Probes \cup R) /\ DOMAIN p = DOMAIN q /\ Len(p) = Len(q)
      /\ \A i \in DOMAIN q : IsProbe(p[i]) <=> IsProbe(q[i])
      /\ \A i \in DOMAIN q : IsProbe(q[i]) => p[i] \in Probes /\ q[i] \in Probes /\ Longer(q[i], p[i], way)
      /\ \A i \in DOMAIN q : Late(q[i]) => Late(p[i])
      /\ \A i \in DOMAIN q : Suspect(p[i]) => Suspect(q[i])
  <2>1. Later(q, p, R, way)  BY <1>1, WaitFacts
  <2> QED BY <2>1 DEF Later
<1>3. Guarded(p, a)  BY <1>2 DEF Guarded, LateBefore
<1>4. HasLate(q) => HasLate(p)  BY <1>2 DEF HasLate
<1>5. ASSUME way = "up", NoDown(q), Waited(q) PROVE NoDown(p) /\ Waited(p)
  <2>1. \A i \in DOMAIN q : IsProbe(q[i]) => q[i].up \in Nat /\ q[i].down = 0
    <3>1. \A i \in DOMAIN q : IsProbe(q[i]) => q[i] \in Probes  BY Elements
    <3>2. \A i \in DOMAIN q : IsProbe(q[i]) => q[i].up \in Nat  BY <3>1, ProbeFacts
    <3> QED BY <1>5, <3>2 DEF NoDown
  <2>2. MaxRtt \in Nat  BY ClockAssumption
  <2>3. \A i \in DOMAIN q : IsProbe(q[i]) =>
          p[i].down = 0 /\ p[i].up = IF q[i].up < MaxRtt THEN q[i].up + 1 ELSE MaxRtt + 1
    BY <1>2, <1>5, <2>1, <2>2 DEF Longer
  <2>4. NoDown(p)  BY <1>2, <2>3 DEF NoDown
  <2>5. Waited(p)
    <3> SUFFICES ASSUME NEW i \in DOMAIN p, NEW j \in DOMAIN p, i < j, IsProbe(p[i]), IsProbe(p[j])
                 PROVE  p[j].up <= p[i].up
      BY DEF Waited
    <3>1. i \in DOMAIN q /\ j \in DOMAIN q /\ IsProbe(q[i]) /\ IsProbe(q[j])  BY <1>2
    <3>2. q[j].up <= q[i].up  BY <1>5, <3>1 DEF Waited
    <3>3. q[i].up \in Nat /\ q[j].up \in Nat  BY <2>1, <3>1
    <3> QED BY <2>2, <2>3, <3>1, <3>2, <3>3
  <2> QED BY <2>4, <2>5
<1> QED BY <1>1, <1>2, <1>3, <1>4, <1>5

-----------------------------------------------------------------------------
(* The queues *)

\* What a queue holds besides probes.
LEMMA QueueKinds ==
  /\ Requests \in SUBSET Others /\ {Sidecar} \in SUBSET Others /\ {} \in SUBSET Others
  /\ Seq(Probes) = Seq(Probes \cup {})
<1>1. Probes \cup {} = Probes  OBVIOUS
<1> QED BY <1>1 DEF Others

\* Nothing is queued at the start.
LEMMA InitQueues == Init => QueueInv
<1> SUFFICES ASSUME Init PROVE QueueInv  OBVIOUS
<1>1. upq = <<>> /\ outq = <<>> /\ downq = <<>> /\ epoch = 0  BY DEF Init
<1>2. QueueTypes  BY <1>1 DEF QueueTypes
<1>3. DOMAIN upq = {} /\ DOMAIN outq = {} /\ DOMAIN downq = {}  BY <1>1
<1> QED BY <1>2, <1>3 DEF QueueInv, AgeInv, BacklogInv, NoDown, Waited, Guarded

\* A probe more in a queue that has waited.
LEMMA AgeAppend ==
  ASSUME NEW R \in SUBSET Others, NEW q \in Seq(Probes \cup R), NEW m \in Probes \cup R,
         IsProbe(m) => m.down = 0, NoDown(q)
  PROVE  /\ NoDown(Append(q, m))
         /\ Waited(q) /\ (IsProbe(m) => m.up = 0) => Waited(Append(q, m))
<1>1. /\ Len(q) \in Nat /\ DOMAIN q = 1..Len(q)
      /\ DOMAIN Append(q, m) = 1..(Len(q) + 1) /\ Append(q, m)[Len(q) + 1] = m
      /\ \A i \in DOMAIN q : i \in DOMAIN Append(q, m) /\ Append(q, m)[i] = q[i]
      /\ \A i \in DOMAIN Append(q, m) : i \in Nat /\ (i \in DOMAIN q \/ i = Len(q) + 1)
  BY AppendFacts
<1>2. NoDown(Append(q, m))  BY <1>1 DEF NoDown
<1>3. ASSUME Waited(q), IsProbe(m) => m.up = 0 PROVE Waited(Append(q, m))
  <2> SUFFICES ASSUME NEW i \in DOMAIN Append(q, m), NEW j \in DOMAIN Append(q, m), i < j,
                      IsProbe(Append(q, m)[i]), IsProbe(Append(q, m)[j])
               PROVE  Append(q, m)[j].up <= Append(q, m)[i].up
    BY DEF Waited
  <2>1. i \in DOMAIN q  BY <1>1
  <2>2. CASE j \in DOMAIN q  BY <1>1, <1>3, <2>1, <2>2 DEF Waited
  <2>3. CASE j = Len(q) + 1
    <3>1. q[i] \in Probes  BY <1>1, <2>1, Elements
    <3>2. q[i].up \in Nat  BY <3>1, ProbeFacts
    <3> QED BY <1>1, <1>3, <2>1, <2>3, <3>2
  <2> QED BY <1>1, <2>2, <2>3
<1> QED BY <1>2, <1>3

\* The head of a queue that has waited goes.
LEMMA AgeTail ==
  ASSUME NEW S, NEW q \in Seq(S), q # <<>>
  PROVE  /\ NoDown(q) => NoDown(Tail(q))
         /\ Waited(q) => Waited(Tail(q))
<1>1. \A i \in DOMAIN Tail(q) : i \in Nat /\ i + 1 \in DOMAIN q /\ Tail(q)[i] = q[i + 1]  BY TailFacts
<1>2. NoDown(q) => NoDown(Tail(q))  BY <1>1 DEF NoDown
<1>3. ASSUME Waited(q) PROVE Waited(Tail(q))
  <2> SUFFICES ASSUME NEW i \in DOMAIN Tail(q), NEW j \in DOMAIN Tail(q), i < j,
                      IsProbe(Tail(q)[i]), IsProbe(Tail(q)[j])
               PROVE  Tail(q)[j].up <= Tail(q)[i].up
    BY DEF Waited
  <2>1. i + 1 < j + 1  BY <1>1
  <2> QED BY <1>1, <1>3, <2>1 DEF Waited
<1> QED BY <1>2, <1>3

\* Only the times of the probes count.
LEMMA AgeSame ==
  ASSUME NEW q, NEW p, Same(q, p)
  PROVE  (NoDown(q) => NoDown(p)) /\ (Waited(q) => Waited(p))
  BY DEF Same, NoDown, Waited

\* A probe is sent, or finds no room.
LEMMA SendQueues ==
  ASSUME QueueInv, SendProbe
  PROVE  QueueInv'
<1>1. /\ outq' = outq /\ downq' = downq /\ epoch' = epoch
      /\ upq' = upq \/ upq' = Marked(Append(upq, Probe))
  BY DEF SendProbe, World
<1>2. CASE upq' = upq
  BY <1>1, <1>2 DEF QueueInv, QueueTypes, AgeInv, BacklogInv
<1>3. CASE upq' = Marked(Append(upq, Probe))
  <2>1. upq \in Seq(Probes \cup Requests) /\ Requests \in SUBSET Others  BY QueueKinds DEF QueueInv, QueueTypes
  <2>2. Probe \in Probes \cup Requests /\ Probe.up = 0 /\ Probe.down = 0 /\ ~Suspect(Probe)
    BY NewProbe DEF Suspect
  <2>3. PICK q : q = Append(upq, Probe)  OBVIOUS
  <2>4. q \in Seq(Probes \cup Requests)  BY <2>1, <2>2, <2>3, AppendFacts
  <2>5. NoDown(q) /\ Waited(q)  BY <2>1, <2>2, <2>3, AgeAppend DEF QueueInv, AgeInv
  <2>6. Guarded(q, HasLate(downq) \/ HasLate(outq))
    BY <2>1, <2>2, <2>3, GuardedAppend DEF QueueInv, BacklogInv
  <2>7. /\ Guarded(Marked(q), HasLate(downq) \/ HasLate(outq)) /\ NoDown(Marked(q)) /\ Waited(Marked(q))
        /\ Marked(q) \in Seq(Probes \cup Requests)
    BY <2>1, <2>4, <2>5, <2>6, GuardedMarked, MarkedFacts
  <2> QED BY <1>1, <1>3, <2>3, <2>7 DEF QueueInv, QueueTypes, AgeInv, BacklogInv
<1> QED BY <1>1, <1>2, <1>3

\* A request is sent.
LEMMA RequestQueues ==
  ASSUME QueueInv, RelayRequest
  PROVE  QueueInv'
<1>1. outq' = outq /\ downq' = downq /\ epoch' = epoch  BY DEF RelayRequest, World
<1>2. PICK t \in Tokens : upq' = Append(upq, Request(t))  BY DEF RelayRequest
<1>3. upq \in Seq(Probes \cup Requests) /\ Requests \in SUBSET Others  BY QueueKinds DEF QueueInv, QueueTypes
<1>4. Request(t) \in Requests  BY DEF Request, Requests
<1>5. ~IsProbe(Request(t))  BY <1>3, <1>4, OtherFacts
<1>6. PICK m \in Probes \cup Requests : m = Request(t)  BY <1>4
<1>7. ~Suspect(m)  BY <1>5, <1>6 DEF Suspect
<1>8. NoDown(upq') /\ Waited(upq')  BY <1>2, <1>3, <1>5, <1>6, AgeAppend DEF QueueInv, AgeInv
<1>9. Guarded(upq', HasLate(downq) \/ HasLate(outq))
  BY <1>2, <1>3, <1>6, <1>7, GuardedAppend DEF QueueInv, BacklogInv
<1>10. upq' \in Seq(Probes \cup Requests)  BY <1>2, <1>3, <1>6, AppendFacts
<1> QED BY <1>1, <1>8, <1>9, <1>10 DEF QueueInv, QueueTypes, AgeInv, BacklogInv

\* A request is read.
LEMMA ReadQueues ==
  ASSUME QueueInv, ReadRequest
  PROVE  QueueInv'
<1>1. /\ outq' = outq /\ downq' = downq /\ epoch' = epoch
      /\ upq # <<>> /\ ~IsProbe(upq[1]) /\ upq' = Tail(upq)
  BY DEF ReadRequest
<1>2. upq \in Seq(Probes \cup Requests)  BY DEF QueueInv, QueueTypes
<1>3. ~Late(upq[1])  BY <1>1 DEF Late
<1>4. upq' \in Seq(Probes \cup Requests)  BY <1>1, <1>2, TailFacts
<1>5. NoDown(upq') /\ Waited(upq')  BY <1>1, <1>2, AgeTail DEF QueueInv, AgeInv
<1>6. Guarded(upq', HasLate(downq) \/ HasLate(outq))
  BY <1>1, <1>2, <1>3, GuardedTail DEF QueueInv, BacklogInv
<1> QED BY <1>1, <1>4, <1>5, <1>6 DEF QueueInv, QueueTypes, AgeInv, BacklogInv

\* tx_outq_push(): what is pushed comes behind the rest; if a reply is lost nobody is suspect.
LEMMA PushQueues ==
  ASSUME QueueInv, NEW rest \in Seq(Probes \cup Requests), NEW m \in Probes \cup {Sidecar}, Push(rest, m),
         downq' = downq, epoch' = epoch, NoDown(rest), Waited(rest), IsProbe(m) => m.down = 0,
         Suspect(m) => HasLate(downq) \/ HasLate(outq),
         Guarded(rest, HasLate(downq) \/ HasLate(outq) \/ Late(m))
  PROVE  QueueInv'
<1>1. /\ Requests \in SUBSET Others /\ {Sidecar} \in SUBSET Others /\ outq \in Seq(Probes \cup {Sidecar})
      /\ NoDown(outq) /\ Guarded(outq, HasLate(downq)) /\ downq \in Seq(Probes) /\ epoch \in Nat
      /\ Guarded(downq, FALSE)
  BY QueueKinds DEF QueueInv, QueueTypes, AgeInv, BacklogInv
<1>2. Len(outq) = OutqDepth => outq # <<>>  BY PathAssumption
<1>3. PICK q : q = IF Len(outq) = OutqDepth THEN Tail(outq) ELSE outq  OBVIOUS
<1>4. q \in Seq(Probes \cup {Sidecar}) /\ NoDown(q)
  <2>1. CASE Len(outq) = OutqDepth  BY <1>1, <1>2, <1>3, <2>1, TailFacts, AgeTail
  <2>2. CASE Len(outq) # OutqDepth  BY <1>1, <1>3, <2>2
  <2> QED BY <2>1, <2>2
<1>5. PICK r : r = Append(q, m)  OBVIOUS
<1>6. r = Pushed(outq, m)  BY <1>3, <1>5 DEF Pushed
<1>7. r \in Seq(Probes \cup {Sidecar}) /\ NoDown(r)  BY <1>1, <1>4, <1>5, AppendFacts, AgeAppend
<1>8. CASE LosesReply(outq)
  <2>1. outq' = Excused(r) /\ upq' = Excused(rest)  BY <1>6, <1>8 DEF Push
  <2>2. /\ outq' \in Seq(Probes \cup {Sidecar}) /\ Same(r, outq')
        /\ \A i \in DOMAIN r : ~Suspect(outq'[i])
    BY <1>1, <1>7, <2>1, ExcusedFacts
  <2>3. /\ upq' \in Seq(Probes \cup Requests) /\ Same(rest, upq')
        /\ \A i \in DOMAIN rest : ~Suspect(upq'[i])
    BY <1>1, <2>1, ExcusedFacts
  <2>4. NoDown(outq') /\ NoDown(upq') /\ Waited(upq')  BY <1>7, <2>2, <2>3, AgeSame
  <2>5. Guarded(outq', HasLate(downq)) /\ Guarded(upq', HasLate(downq) \/ HasLate(outq'))
    BY <2>2, <2>3 DEF Guarded, Same
  <2> QED BY <1>1, <2>2, <2>3, <2>4, <2>5 DEF QueueInv, QueueTypes, AgeInv, BacklogInv
<1>9. CASE ~LosesReply(outq)
  <2>1. outq' = r /\ upq' = rest  BY <1>6, <1>9 DEF Push
  <2>2. Guarded(q, HasLate(downq)) /\ (HasLate(outq) => HasLate(q))
    <3>1. CASE Len(outq) = OutqDepth
      <4>1. q = Tail(outq) /\ outq # <<>> /\ ~Late(outq[1])
        BY <1>2, <1>3, <1>9, <3>1 DEF LosesReply, Late
      <4> QED BY <1>1, <4>1, GuardedTail
    <3>2. CASE Len(outq) # OutqDepth  BY <1>1, <1>3, <3>2
    <3> QED BY <3>1, <3>2
  <2>3. Suspect(m) => HasLate(downq) \/ HasLate(q)  BY <2>2
  <2>4. Guarded(r, HasLate(downq)) /\ (HasLate(r) <=> HasLate(q) \/ Late(m))
    BY <1>4, <1>5, <2>2, <2>3, GuardedAppend
  <2>5. HasLate(downq) \/ HasLate(outq) \/ Late(m) => HasLate(downq) \/ HasLate(r)  BY <2>2, <2>4
  <2>6. Guarded(rest, HasLate(downq) \/ HasLate(r))  BY <2>5, GuardedMore
  <2> QED BY <1>1, <1>7, <2>1, <2>4, <2>6 DEF QueueInv, QueueTypes, AgeInv, BacklogInv
<1> QED BY <1>8, <1>9

\* A probe is read and its reply queued.
LEMMA ProbeQueues ==
  ASSUME QueueInv, ReadProbe
  PROVE  QueueInv'
<1>1. /\ upq # <<>> /\ IsProbe(upq[1]) /\ Push(Tail(upq), upq[1]) /\ downq' = downq /\ epoch' = epoch
  BY DEF ReadProbe, World
<1>2. upq \in Seq(Probes \cup Requests) /\ Requests \in SUBSET Others  BY QueueKinds DEF QueueInv, QueueTypes
<1>3. 1 \in DOMAIN upq /\ Tail(upq) \in Seq(Probes \cup Requests)  BY <1>1, <1>2, TailFacts
<1>4. upq[1] \in Probes  BY <1>1, <1>2, <1>3, Elements
<1>5. upq[1].down = 0  BY <1>1, <1>3 DEF QueueInv, AgeInv, NoDown
<1>6. NoDown(Tail(upq)) /\ Waited(Tail(upq))  BY <1>1, <1>2, AgeTail DEF QueueInv, AgeInv
<1>7. PICK a : a = (HasLate(downq) \/ HasLate(outq))  OBVIOUS
<1>8. PICK b : b = (HasLate(downq) \/ HasLate(outq) \/ Late(upq[1]))  OBVIOUS
<1>9. Guarded(upq, a) /\ (a => b) /\ (Late(upq[1]) => b)  BY <1>7, <1>8 DEF QueueInv, BacklogInv
<1>10. Guarded(Tail(upq), b) /\ (Suspect(upq[1]) => a)  BY <1>1, <1>2, <1>9, GuardedTail
<1> QED BY <1>1, <1>3, <1>4, <1>5, <1>6, <1>7, <1>8, <1>10, PushQueues

\* A datagram of the sidecar is queued.
LEMMA SidecarQueues ==
  ASSUME QueueInv, SidecarFrame
  PROVE  QueueInv'
<1>1. Push(upq, Sidecar) /\ downq' = downq /\ epoch' = epoch  BY DEF SidecarFrame, World
<1>2. upq \in Seq(Probes \cup Requests)  BY DEF QueueInv, QueueTypes
<1>3. ~IsProbe(Sidecar)  BY OtherFacts DEF Others
<1>4. NoDown(upq) /\ Waited(upq)  BY DEF QueueInv, AgeInv
<1>5. ~Suspect(Sidecar)  BY <1>3 DEF Suspect
<1>6. Guarded(upq, HasLate(downq) \/ HasLate(outq) \/ Late(Sidecar))  BY DEF QueueInv, BacklogInv, Guarded
<1> QED BY <1>1, <1>2, <1>3, <1>4, <1>5, <1>6, PushQueues

\* Everything gets older.
LEMMA TickQueues ==
  ASSUME QueueInv, Tick
  PROVE  QueueInv'
<1>1. upq' = Marked(Wait(upq, "up")) /\ downq' = Wait(downq, "down") /\ outq' = outq /\ epoch' = epoch
  BY DEF Tick, World
<1>2. /\ Requests \in SUBSET Others /\ {} \in SUBSET Others /\ upq \in Seq(Probes \cup Requests)
      /\ downq \in Seq(Probes \cup {}) /\ Seq(Probes) = Seq(Probes \cup {})
      /\ outq \in Seq(Probes \cup {Sidecar}) /\ epoch \in Nat
  BY QueueKinds DEF QueueInv, QueueTypes
<1>3. /\ Guarded(downq, FALSE) /\ Guarded(outq, HasLate(downq)) /\ Guarded(upq, HasLate(downq) \/ HasLate(outq))
      /\ NoDown(upq) /\ Waited(upq) /\ NoDown(outq)
  BY DEF QueueInv, BacklogInv, AgeInv
<1>4. downq' \in Seq(Probes) /\ Guarded(downq', FALSE) /\ (HasLate(downq) => HasLate(downq'))
  BY <1>1, <1>2, <1>3, GuardedWait
<1>5. PICK q : q = Wait(upq, "up")  OBVIOUS
<1>6. /\ q \in Seq(Probes \cup Requests) /\ Guarded(q, HasLate(downq) \/ HasLate(outq))
      /\ NoDown(q) /\ Waited(q)
  BY <1>2, <1>3, <1>5, GuardedWait
<1>7. Guarded(q, HasLate(downq') \/ HasLate(outq))  BY <1>4, <1>6, GuardedMore
<1>8. Guarded(upq', HasLate(downq') \/ HasLate(outq)) /\ NoDown(upq') /\ Waited(upq')
  BY <1>1, <1>2, <1>5, <1>6, <1>7, GuardedMarked
<1>9. upq' \in Seq(Probes \cup Requests)  BY <1>1, <1>2, <1>5, <1>6, MarkedFacts
<1>10. Guarded(outq, HasLate(downq'))  BY <1>3, <1>4, GuardedMore
<1> QED BY <1>1, <1>2, <1>3, <1>4, <1>8, <1>9, <1>10 DEF QueueInv, QueueTypes, AgeInv, BacklogInv

\* A reboot of the air unit empties its queue.
LEMMA RebootQueues ==
  ASSUME QueueInv, Reboot
  PROVE  QueueInv'
<1>1. outq' = <<>> /\ upq' = Excused(upq) /\ downq' = downq /\ epoch' = epoch + 1  BY DEF Reboot
<1>2. /\ Requests \in SUBSET Others /\ upq \in Seq(Probes \cup Requests) /\ downq \in Seq(Probes)
      /\ epoch \in Nat /\ NoDown(upq) /\ Waited(upq) /\ Guarded(downq, FALSE)
  BY QueueKinds DEF QueueInv, QueueTypes, AgeInv, BacklogInv
<1>3. /\ upq' \in Seq(Probes \cup Requests) /\ Same(upq, upq') /\ \A i \in DOMAIN upq : ~Suspect(upq'[i])
  BY <1>1, <1>2, ExcusedFacts
<1>4. NoDown(upq') /\ Waited(upq')  BY <1>2, <1>3, AgeSame
<1>5. Guarded(upq', HasLate(downq) \/ HasLate(outq'))  BY <1>3 DEF Guarded, Same
<1>6. outq' \in Seq(Probes \cup {Sidecar}) /\ DOMAIN outq' = {}  BY <1>1
<1>7. NoDown(outq') /\ Guarded(outq', HasLate(downq))  BY <1>6 DEF NoDown, Guarded
<1>8. epoch' \in Nat  BY <1>1, <1>2
<1> QED BY <1>1, <1>2, <1>3, <1>4, <1>5, <1>6, <1>7, <1>8 DEF QueueInv, QueueTypes, AgeInv, BacklogInv

\* A reply comes in; a stale one makes everything under way old.
LEMMA ReplyQueues ==
  ASSUME QueueInv, OnReply
  PROVE  QueueInv' /\ Tail(downq) \in Seq(Probes) /\ downq # <<>>
<1>1. downq # <<>> /\ epoch' = epoch  BY DEF OnReply, World
<1>2. /\ Requests \in SUBSET Others /\ {Sidecar} \in SUBSET Others /\ {} \in SUBSET Others
      /\ Seq(Probes) = Seq(Probes \cup {})
      /\ upq \in Seq(Probes \cup Requests) /\ outq \in Seq(Probes \cup {Sidecar}) /\ downq \in Seq(Probes)
      /\ epoch \in Nat
  BY QueueKinds DEF QueueInv, QueueTypes
<1>3. /\ Guarded(downq, FALSE) /\ Guarded(outq, HasLate(downq)) /\ Guarded(upq, HasLate(downq) \/ HasLate(outq))
      /\ NoDown(upq) /\ Waited(upq) /\ NoDown(outq)
  BY DEF QueueInv, BacklogInv, AgeInv
<1>4. /\ Tail(downq) \in Seq(Probes) /\ downq[1] \in Probes /\ 1 \in DOMAIN downq  BY <1>1, <1>2, TailFacts
<1>5. Late(downq[1]) <=> downq[1].up + downq[1].down > MaxRtt  BY <1>4, ProbeFacts DEF Late
<1>6. CASE Late(downq[1])
  <2>1. upq' = Aged(upq) /\ outq' = Aged(outq) /\ downq' = Aged(Tail(downq))  BY <1>5, <1>6 DEF OnReply
  <2>2. /\ upq' \in Seq(Probes \cup Requests) /\ Same(upq, upq') /\ \A i \in DOMAIN upq : ~Suspect(upq'[i])
    BY <1>2, <2>1, AgedFacts
  <2>3. /\ outq' \in Seq(Probes \cup {Sidecar}) /\ Same(outq, outq') /\ \A i \in DOMAIN outq : ~Suspect(outq'[i])
    BY <1>2, <2>1, AgedFacts
  <2>4. PICK q : q = Tail(downq)  OBVIOUS
  <2>5. q \in Seq(Probes \cup {})  BY <1>2, <1>4, <2>4
  <2>6. /\ downq' \in Seq(Probes \cup {}) /\ Same(q, downq') /\ \A i \in DOMAIN q : ~Suspect(downq'[i])
    BY <1>2, <2>1, <2>4, <2>5, AgedFacts
  <2>7. NoDown(upq') /\ Waited(upq') /\ NoDown(outq')  BY <1>3, <2>2, <2>3, AgeSame
  <2>8. Guarded(upq', HasLate(downq') \/ HasLate(outq')) /\ Guarded(outq', HasLate(downq')) /\ Guarded(downq', FALSE)
    BY <2>2, <2>3, <2>6 DEF Guarded, Same
  <2> QED BY <1>1, <1>2, <1>4, <2>2, <2>3, <2>6, <2>7, <2>8 DEF QueueInv, QueueTypes, AgeInv, BacklogInv
<1>7. CASE ~Late(downq[1])
  <2>1. upq' = upq /\ outq' = outq /\ downq' = Tail(downq)  BY <1>5, <1>7 DEF OnReply
  <2>2. Guarded(downq', FALSE) /\ (HasLate(downq) => HasLate(downq'))
    <3>1. PICK a : a = FALSE  OBVIOUS
    <3>2. Guarded(downq, a) /\ (a => a) /\ (Late(downq[1]) => a)  BY <1>3, <1>7, <3>1
    <3>3. Guarded(Tail(downq), a) /\ (HasLate(downq) => Late(downq[1]) \/ HasLate(Tail(downq)))
      BY <1>1, <1>2, <3>2, GuardedTail
    <3> QED BY <1>7, <2>1, <3>1, <3>3
  <2>3. Guarded(outq, HasLate(downq')) /\ Guarded(upq, HasLate(downq') \/ HasLate(outq))
    <3>1. HasLate(downq) \/ HasLate(outq) => HasLate(downq') \/ HasLate(outq)  BY <2>2
    <3>2. Guarded(upq, HasLate(downq') \/ HasLate(outq))  BY <1>3, <3>1, GuardedMore
    <3>3. Guarded(outq, HasLate(downq'))  BY <1>3, <2>2, GuardedMore
    <3> QED BY <3>2, <3>3
  <2> QED BY <1>1, <1>2, <1>3, <1>4, <2>1, <2>2, <2>3 DEF QueueInv, QueueTypes, AgeInv, BacklogInv
<1> QED BY <1>6, <1>7, <1>1, <1>4

\* The replies among what is flushed: in their order, each with the clock of this boot.
LEMMA FlushReplies ==
  ASSUME QueueInv, NEW at \in Ascending({i \in DOMAIN outq : IsProbe(outq[i])}, Len(outq)),
         NEW rs, rs = [k \in DOMAIN at |-> [outq[at[k]] EXCEPT !.epoch = epoch]]
  PROVE  /\ rs \in Seq(Probes) /\ \A k \in DOMAIN rs : rs[k].epoch = epoch
         /\ Guarded(rs, HasLate(downq)) /\ (HasLate(outq) => HasLate(rs))
<1>1. PICK P : P = {i \in DOMAIN outq : IsProbe(outq[i])}  OBVIOUS
<1>2. /\ {Sidecar} \in SUBSET Others /\ outq \in Seq(Probes \cup {Sidecar}) /\ epoch \in Nat
      /\ Guarded(outq, HasLate(downq))
  BY QueueKinds DEF QueueInv, QueueTypes, BacklogInv
<1>3. PICK n \in 0..Len(outq) : at \in [1..n -> P]  BY <1>1 DEF Ascending
<1>4. /\ \A i \in P : \E k \in DOMAIN at : at[k] = i
      /\ \A k, l \in DOMAIN at : k < l => at[k] < at[l]
  BY <1>1 DEF Ascending
<1>5. n \in Nat /\ DOMAIN at = 1..n /\ \A k \in 1..n : at[k] \in P  BY <1>2, <1>3
<1>6. \A i \in P : i \in DOMAIN outq /\ i \in Nat /\ outq[i] \in Probes
  <2>1. \A i \in P : i \in DOMAIN outq /\ IsProbe(outq[i])  BY <1>1
  <2>2. \A i \in DOMAIN outq : i \in Nat  BY <1>2
  <2> QED BY <1>2, <2>1, <2>2, Elements
<1>7. ASSUME NEW k \in 1..n
      PROVE  /\ rs[k] \in Probes /\ rs[k].epoch = epoch
             /\ (Late(rs[k]) <=> Late(outq[at[k]])) /\ (Suspect(rs[k]) => Suspect(outq[at[k]]))
  <2>1. PICK m \in Probes : m = outq[at[k]]  BY <1>5, <1>6
  <2>2. PICK w : w = rs[k]  OBVIOUS
  <2>3. w = [m EXCEPT !.epoch = epoch]  BY <1>5, <2>1, <2>2
  <2>4. /\ w \in Probes /\ w.epoch = epoch /\ w.up = m.up /\ w.down = m.down
        /\ w.old = m.old /\ w.behind = m.behind
    BY <1>2, <2>3, WithEpoch
  <2>5. IsProbe(m) /\ IsProbe(w)  BY <2>4, ProbeFacts
  <2>6. Late(w) <=> Late(m)  BY <2>4, <2>5 DEF Late
  <2>7. Suspect(w) => Suspect(m)  BY <2>4, <2>5, <2>6 DEF Suspect
  <2> QED BY <2>1, <2>2, <2>4, <2>6, <2>7
<1>8. rs \in Seq(Probes) /\ DOMAIN rs = 1..n
  <2>1. DOMAIN rs = 1..n  BY <1>5
  <2>2. rs \in [1..n -> Probes]  BY <1>5, <1>7, <2>1
  <2> QED BY <1>5, <2>1, <2>2
<1>9. ASSUME NEW k \in 1..n, Suspect(rs[k]), ~HasLate(downq) PROVE LateBefore(rs, k)
  <2>1. at[k] \in DOMAIN outq /\ Suspect(outq[at[k]])  BY <1>5, <1>6, <1>7, <1>9
  <2>2. PICK j \in DOMAIN outq : j < at[k] /\ Late(outq[j])  BY <1>2, <1>9, <2>1 DEF Guarded, LateBefore
  <2>3. j \in P  BY <1>1, <2>2 DEF Late
  <2>4. PICK l \in 1..n : at[l] = j  BY <1>4, <1>5, <2>3
  <2>5. ~(k < l) /\ k # l  BY <1>4, <1>5, <1>6, <2>2, <2>4
  <2>6. l < k  BY <1>5, <2>5
  <2>7. Late(rs[l])  BY <1>7, <2>2, <2>4
  <2> QED BY <1>8, <2>6, <2>7 DEF LateBefore
<1>10. ASSUME HasLate(outq) PROVE HasLate(rs)
  <2>1. PICK j \in DOMAIN outq : Late(outq[j])  BY <1>10 DEF HasLate
  <2>2. j \in P  BY <1>1, <2>1 DEF Late
  <2>3. PICK l \in 1..n : at[l] = j  BY <1>4, <1>5, <2>2
  <2>4. Late(rs[l])  BY <1>7, <2>1, <2>3
  <2> QED BY <1>8, <2>4 DEF HasLate
<1> QED BY <1>7, <1>8, <1>9, <1>10 DEF Guarded

\* One queue behind another.
Behind(q, p, r) ==
    /\ Len(q) \in Nat /\ DOMAIN q = 1..Len(q) /\ Len(p) \in Nat /\ DOMAIN p = 1..Len(p)
    /\ \A i \in DOMAIN q : i \in DOMAIN r /\ r[i] = q[i]
    /\ \A k \in DOMAIN p : Len(q) + k \in DOMAIN r /\ r[Len(q) + k] = p[k]
    /\ \A i \in DOMAIN r : i \in DOMAIN q \/ \E k \in DOMAIN p : i = Len(q) + k

\* Joining puts them so.
LEMMA JoinFacts ==
  ASSUME NEW S, NEW q \in Seq(S), NEW p \in Seq(S)
  PROVE  q \o p \in Seq(S) /\ Behind(q, p, q \o p)
<1>0. PICK r : r = q \o p  OBVIOUS
<1>1. /\ r \in Seq(S) /\ Len(q) \in Nat /\ DOMAIN q = 1..Len(q) /\ Len(p) \in Nat /\ DOMAIN p = 1..Len(p)
      /\ DOMAIN r = 1..(Len(q) + Len(p))
  BY <1>0
<1>2. \A i \in DOMAIN q : i \in DOMAIN r /\ r[i] = q[i]  BY <1>0, <1>1
<1>3. \A k \in DOMAIN p : Len(q) + k \in DOMAIN r /\ r[Len(q) + k] = p[k]
  <2> SUFFICES ASSUME NEW k \in DOMAIN p PROVE Len(q) + k \in DOMAIN r /\ r[Len(q) + k] = p[k]
    OBVIOUS
  <2>1. Len(q) + k \in DOMAIN r /\ ~(Len(q) + k <= Len(q)) /\ (Len(q) + k) - Len(q) = k  BY <1>1
  <2> QED BY <1>0, <1>1, <2>1
<1>4. ASSUME NEW i \in DOMAIN r, i \notin DOMAIN q PROVE \E k \in DOMAIN p : i = Len(q) + k
  <2>1. i - Len(q) \in DOMAIN p /\ i = Len(q) + (i - Len(q))  BY <1>1, <1>4
  <2> QED BY <2>1
<1>5. Behind(q, p, r)  BY <1>1, <1>2, <1>3, <1>4 DEF Behind
<1> QED BY <1>0, <1>1, <1>5

\* The replies are written or lost.
LEMMA FlushFacts ==
  ASSUME QueueInv, Flush
  PROVE  /\ outq' = <<>> /\ epoch' = epoch
         /\ \/ upq' = Excused(upq) /\ downq' = downq
            \/ \E rs \in Seq(Probes) :
                 /\ downq' = downq \o rs /\ upq' = upq /\ \A k \in DOMAIN rs : rs[k].epoch = epoch
                 /\ Guarded(rs, HasLate(downq)) /\ (HasLate(outq) => HasLate(rs))
<1>1. outq' = <<>> /\ epoch' = epoch  BY DEF Flush, World
<1>2. PICK at \in Ascending({i \in DOMAIN outq : IsProbe(outq[i])}, Len(outq)) :
        LET rs == [k \in DOMAIN at |-> [outq[at[k]] EXCEPT !.epoch = epoch]]
        IN  \/ downq' = downq \o rs /\ UNCHANGED upq
            \/ upq' = Excused(upq) /\ UNCHANGED downq
  BY DEF Flush
<1>3. PICK rs : rs = [k \in DOMAIN at |-> [outq[at[k]] EXCEPT !.epoch = epoch]]  OBVIOUS
<1>4. \/ downq' = downq \o rs /\ upq' = upq
      \/ upq' = Excused(upq) /\ downq' = downq
  BY <1>2, <1>3
<1>5. /\ rs \in Seq(Probes) /\ \A k \in DOMAIN rs : rs[k].epoch = epoch
      /\ Guarded(rs, HasLate(downq)) /\ (HasLate(outq) => HasLate(rs))
  BY <1>3, FlushReplies
<1> QED BY <1>1, <1>4, <1>5

\* Flush keeps the order of the queues.
LEMMA FlushQueues ==
  ASSUME QueueInv, Flush
  PROVE  QueueInv'
<1>1. outq' = <<>> /\ epoch' = epoch  BY FlushFacts
<1>2. /\ Requests \in SUBSET Others /\ upq \in Seq(Probes \cup Requests) /\ downq \in Seq(Probes)
      /\ epoch \in Nat /\ NoDown(upq) /\ Waited(upq) /\ Guarded(downq, FALSE)
      /\ Guarded(upq, HasLate(downq) \/ HasLate(outq))
  BY QueueKinds DEF QueueInv, QueueTypes, AgeInv, BacklogInv
<1>3. outq' \in Seq(Probes \cup {Sidecar}) /\ DOMAIN outq' = {}  BY <1>1
<1>4. NoDown(outq') /\ Guarded(outq', HasLate(downq'))  BY <1>3 DEF NoDown, Guarded
<1>5. CASE upq' = Excused(upq) /\ downq' = downq
  <2>1. /\ upq' \in Seq(Probes \cup Requests) /\ Same(upq, upq') /\ \A i \in DOMAIN upq : ~Suspect(upq'[i])
    BY <1>2, <1>5, ExcusedFacts
  <2>2. NoDown(upq') /\ Waited(upq')  BY <1>2, <2>1, AgeSame
  <2>3. Guarded(upq', HasLate(downq') \/ HasLate(outq'))  BY <2>1 DEF Guarded, Same
  <2> QED BY <1>1, <1>2, <1>3, <1>4, <1>5, <2>1, <2>2, <2>3 DEF QueueInv, QueueTypes, AgeInv, BacklogInv
<1>6. ASSUME NEW rs \in Seq(Probes), downq' = downq \o rs, upq' = upq,
             Guarded(rs, HasLate(downq)), HasLate(outq) => HasLate(rs)
      PROVE  QueueInv'
  <2>0. PICK r : r = downq'  OBVIOUS
  <2>1. /\ r \in Seq(Probes) /\ Len(downq) \in Nat /\ DOMAIN downq = 1..Len(downq)
        /\ Len(rs) \in Nat /\ DOMAIN rs = 1..Len(rs)
        /\ \A i \in DOMAIN downq : i \in DOMAIN r /\ r[i] = downq[i]
        /\ \A k \in DOMAIN rs : Len(downq) + k \in DOMAIN r /\ r[Len(downq) + k] = rs[k]
        /\ \A i \in DOMAIN r : i \in DOMAIN downq \/ \E k \in DOMAIN rs : i = Len(downq) + k
    <3>1. r \in Seq(Probes) /\ Behind(downq, rs, r)  BY <1>2, <1>6, <2>0, JoinFacts
    <3> QED BY <3>1 DEF Behind
  <2>2. HasLate(downq) \/ HasLate(outq) => HasLate(r)  BY <1>6, <2>1 DEF HasLate
  <2>3. ASSUME NEW i \in DOMAIN r, Suspect(r[i]) PROVE LateBefore(r, i)
    <3>1. CASE i \in DOMAIN downq
      <4>1. PICK j \in DOMAIN downq : j < i /\ Late(downq[j])
        BY <1>2, <2>1, <2>3, <3>1 DEF Guarded, LateBefore
      <4> QED BY <2>1, <4>1 DEF LateBefore
    <3>2. ASSUME NEW k \in DOMAIN rs, i = Len(downq) + k PROVE LateBefore(r, i)
      <4>1. Suspect(rs[k])  BY <2>1, <2>3, <3>2
      <4>2. CASE HasLate(downq)
        <5>1. PICK j \in DOMAIN downq : Late(downq[j])  BY <4>2 DEF HasLate
        <5>2. j < i  BY <2>1, <3>2
        <5> QED BY <2>1, <5>1, <5>2 DEF LateBefore
      <4>3. CASE LateBefore(rs, k)
        <5>1. PICK j \in DOMAIN rs : j < k /\ Late(rs[j])  BY <4>3 DEF LateBefore
        <5>2. Len(downq) + j < i  BY <2>1, <3>2, <5>1
        <5> QED BY <2>1, <5>1, <5>2 DEF LateBefore
      <4> QED BY <1>6, <4>1, <4>2, <4>3 DEF Guarded
    <3> QED BY <2>1, <3>1, <3>2
  <2>4. Guarded(r, FALSE)  BY <2>3 DEF Guarded
  <2>5. HasLate(downq) \/ HasLate(outq) => HasLate(downq') \/ HasLate(outq')  BY <2>0, <2>2
  <2>6. Guarded(upq, HasLate(downq') \/ HasLate(outq'))  BY <1>2, <2>5, GuardedMore
  <2> QED BY <1>1, <1>2, <1>3, <1>4, <1>6, <2>0, <2>1, <2>4, <2>6 DEF QueueInv, QueueTypes, AgeInv, BacklogInv
<1> QED BY <1>5, <1>6, FlushFacts

\* QueueInv is inductive.
LEMMA NextQueues == QueueInv /\ [Next]_vars => QueueInv'
<1> SUFFICES ASSUME QueueInv, [Next]_vars PROVE QueueInv'  OBVIOUS
<1>1. CASE UNCHANGED <<upq, outq, downq, epoch>>
  BY <1>1 DEF QueueInv, QueueTypes, AgeInv, BacklogInv
<1>2. CASE Want \/ UNCHANGED vars  BY <1>1, <1>2 DEF Want, vars
<1> QED BY <1>2, SendQueues, RequestQueues, ReadQueues, ProbeQueues, SidecarQueues, FlushQueues,
           ReplyQueues, TickQueues, RebootQueues DEF Next

-----------------------------------------------------------------------------
(* The window *)

\* A set of natural numbers has a least element.
LEMMA Least ==
  ASSUME NEW T, T \subseteq Nat, T # {}
  PROVE  \E x \in T : \A y \in T : x <= y
<1>1. PICK R : R = {ss \in Nat \X Nat : ss[1] < ss[2]}  OBVIOUS
<1>2. IsWellFoundedOn(R, Nat)  BY <1>1, NatLessThanWellFounded DEF OpToRel
<1>3. PICK x \in T : \A y \in T : ~(<<y, x>> \in R)  BY <1>2, WFMin
<1>4. \A y \in T : y < x => <<y, x>> \in R  BY <1>1
<1>5. \A y \in T : ~(y < x)  BY <1>3, <1>4
<1>6. \A y \in T : x \in Nat /\ y \in Nat  OBVIOUS
<1>7. \A y \in T : x <= y  BY <1>5, <1>6
<1> QED BY <1>3, <1>7

\* clock_sync_get() answers with a sample of the window.
LEMMA BestFacts ==
  ASSUME NEW w \in Seq(Samples), w # <<>>
  PROVE  \E i \in DOMAIN w : Best(w) = w[i]
<1>1. DOMAIN w = 1..Len(w) /\ Len(w) \in Nat /\ 1 \in DOMAIN w  OBVIOUS
<1>2. \A i \in DOMAIN w : w[i] \in Samples  OBVIOUS
<1>3. \A i \in DOMAIN w : w[i].rtt \in Nat  BY <1>2 DEF Samples
<1>4. PICK T : T = {w[i].rtt : i \in DOMAIN w}  OBVIOUS
<1>5. T \subseteq Nat /\ T # {}  BY <1>1, <1>3, <1>4
<1>6. PICK x \in T : \A y \in T : x <= y  BY <1>5, Least
<1>7. PICK k \in DOMAIN w : w[k].rtt = x  BY <1>4, <1>6
<1>8. w[k] \in {w[i] : i \in DOMAIN w} /\ \A i \in DOMAIN w : w[k].rtt <= w[i].rtt  BY <1>4, <1>6, <1>7
<1>9. Best(w) \in {w[i] : i \in DOMAIN w}  BY <1>8 DEF Best
<1> QED BY <1>9

\* A product is no less than its factor.
LEMMA Times == \A j, d \in Nat : d >= 1 => j * d >= j
  OBVIOUS

\* The threshold tells a reboot from any delays.
LEMMA JumpFacts ==
  ASSUME NEW s, NEW t, Honest(s), Honest(t), t.epoch <= s.epoch
  PROVE  Jumped(s, t) <=> s.epoch # t.epoch
<1>1. /\ s.err \in Int /\ t.err \in Int /\ s.rtt \in Nat /\ t.rtt \in Nat /\ s.epoch \in Nat /\ t.epoch \in Nat
      /\ s.rtt <= MaxRtt /\ s.err <= s.rtt /\ -s.rtt <= s.err
      /\ t.rtt <= MaxRtt /\ t.err <= t.rtt /\ -t.rtt <= t.err
  BY DEF Honest, Samples
<1>2. MaxRtt \in Nat /\ Slack \in Nat /\ Jump \in Nat /\ Jump > 3 * MaxRtt + Slack  BY ClockAssumption
<1>3. PICK d \in Nat : d = s.epoch - t.epoch  BY <1>1
<1>4. PICK jd \in Nat : jd = Jump * d  BY <1>2, <1>3
<1>5. 2 * Jump * (s.epoch - t.epoch) = 2 * jd  BY <1>2, <1>3, <1>4
<1>6. Apart(s, t) = Abs(s.err - t.err + 2 * jd)  BY <1>5 DEF Apart
<1>7. CASE d = 0
  <2>1. jd = 0 /\ s.epoch = t.epoch  BY <1>1, <1>2, <1>3, <1>4, <1>7
  <2>2. Apart(s, t) <= s.rtt + t.rtt  BY <1>1, <1>6, <2>1 DEF Abs
  <2>3. Apart(s, t) \in Int  BY <1>1, <1>4, <1>6 DEF Abs
  <2>4. ~(Apart(s, t) > 2 * (s.rtt + t.rtt + Slack))  BY <1>1, <1>2, <2>2, <2>3
  <2> QED BY <2>1, <2>4 DEF Jumped
<1>8. CASE d # 0
  <2>1. jd >= Jump /\ s.epoch # t.epoch  BY <1>1, <1>2, <1>3, <1>4, <1>8, Times
  <2>2. s.err - t.err + 2 * jd > 2 * (s.rtt + t.rtt + Slack)  BY <1>1, <1>2, <1>4, <2>1
  <2>3. s.err - t.err + 2 * jd > 0  BY <1>1, <1>2, <1>4, <2>1
  <2>4. Apart(s, t) = s.err - t.err + 2 * jd  BY <1>1, <1>4, <1>6, <2>3 DEF Abs
  <2> QED BY <2>1, <2>2, <2>4 DEF Jumped
<1> QED BY <1>7, <1>8

\* A window of one boot, and a sample of that boot or of a later one.
LEMMA AddFacts ==
  ASSUME NEW w \in Seq(Samples), NEW s, Honest(s), Len(w) <= Window,
         \A i \in DOMAIN w : Honest(w[i]) /\ w[i].epoch <= s.epoch,
         \A i, j \in DOMAIN w : w[i].epoch = w[j].epoch
  PROVE  /\ Add(w, s) \in Seq(Samples) /\ Add(w, s) # <<>> /\ Len(Add(w, s)) <= Window
         /\ \A i \in DOMAIN Add(w, s) : Honest(Add(w, s)[i]) /\ Add(w, s)[i].epoch = s.epoch
         /\ Add(w, s)[Len(Add(w, s))] = s
         /\ (\A i \in DOMAIN w : w[i].epoch = s.epoch) =>
              Len(Add(w, s)) = IF Len(w) < Window THEN Len(w) + 1 ELSE Window
<1>1. \A i \in DOMAIN w : Jumped(s, w[i]) <=> s.epoch # w[i].epoch  BY JumpFacts
<1>2. PICK k : k = Kept(w, s)  OBVIOUS
<1>3. (k = w /\ \A i \in DOMAIN w : w[i].epoch = s.epoch) \/ (k = <<>> /\ ~\A i \in DOMAIN w : w[i].epoch = s.epoch)
  <2>1. CASE \E i \in DOMAIN w : Jumped(s, w[i])  BY <1>1, <1>2, <2>1 DEF Kept
  <2>2. CASE ~\E i \in DOMAIN w : Jumped(s, w[i])  BY <1>1, <1>2, <2>2 DEF Kept
  <2> QED BY <2>1, <2>2
<1>4. s \in Samples /\ Window \in Nat /\ Window >= 1  BY ClockAssumption DEF Honest
<1>5. k \in Seq(Samples) /\ Len(k) <= Window /\ \A i \in DOMAIN k : Honest(k[i]) /\ k[i].epoch = s.epoch
  <2>1. CASE k = w /\ \A i \in DOMAIN w : w[i].epoch = s.epoch  BY <2>1
  <2>2. CASE k = <<>>
    <3>1. DOMAIN k = {} /\ k \in Seq(Samples) /\ Len(k) = 0  BY <2>2
    <3> QED BY <1>4, <3>1
  <2> QED BY <1>3, <2>1, <2>2
<1>6. PICK v : v = Append(k, s)  OBVIOUS
<1>7. /\ v \in Seq(Samples) /\ Len(k) \in Nat /\ DOMAIN k = 1..Len(k)
      /\ DOMAIN v = 1..(Len(k) + 1) /\ v[Len(k) + 1] = s /\ \A i \in DOMAIN k : v[i] = k[i]
      /\ \A i \in DOMAIN v : i \in DOMAIN k \/ i = Len(k) + 1
  BY <1>4, <1>5, <1>6, AppendFacts
<1>8. Len(v) = Len(k) + 1 /\ v # <<>>
  <2>1. Len(k) + 1 \in Nat /\ v \in [1..(Len(k) + 1) -> Samples]  BY <1>7
  <2>2. Len(v) = Len(k) + 1  BY <1>7, <2>1
  <2>3. Len(v) # 0  BY <1>7, <2>2
  <2> QED BY <2>2, <2>3
<1>9. \A i \in DOMAIN v : Honest(v[i]) /\ v[i].epoch = s.epoch
  <2> SUFFICES ASSUME NEW i \in DOMAIN v PROVE Honest(v[i]) /\ v[i].epoch = s.epoch  OBVIOUS
  <2>1. CASE i \in DOMAIN k  BY <1>5, <1>7, <2>1
  <2>2. CASE i = Len(k) + 1  BY <1>7, <2>2
  <2> QED BY <1>7, <2>1, <2>2
<1>10. PICK a : a = Add(w, s)  OBVIOUS
<1>11. a = IF Len(v) > Window THEN Tail(v) ELSE v  BY <1>2, <1>6, <1>10 DEF Add
<1>12. CASE Len(v) > Window
  <2>1. a = Tail(v) /\ Len(v) = Window + 1  BY <1>4, <1>5, <1>7, <1>8, <1>11, <1>12
  <2>2. /\ a \in Seq(Samples) /\ Len(a) = Len(v) - 1 /\ DOMAIN a = 1..(Len(v) - 1)
        /\ \A i \in DOMAIN a : i + 1 \in DOMAIN v /\ a[i] = v[i + 1]
    BY <1>7, <1>8, <2>1, TailFacts
  <2>3. Len(a) = Window /\ Window \in DOMAIN a /\ a # <<>>
    <3>1. Len(a) = Window /\ Window \in DOMAIN a  BY <1>4, <2>1, <2>2
    <3>2. Len(a) # 0  BY <1>4, <3>1
    <3> QED BY <3>1, <3>2
  <2>4. a[Len(a)] = s  BY <1>7, <1>8, <2>1, <2>2, <2>3
  <2>5. \A i \in DOMAIN a : Honest(a[i]) /\ a[i].epoch = s.epoch  BY <1>9, <2>2
  <2>6. (\A i \in DOMAIN w : w[i].epoch = s.epoch) => Len(a) = IF Len(w) < Window THEN Len(w) + 1 ELSE Window
    BY <1>3, <1>4, <1>7, <1>8, <2>1, <2>3
  <2> QED BY <1>4, <1>10, <2>2, <2>3, <2>4, <2>5, <2>6
<1>13. CASE ~(Len(v) > Window)
  <2>1. a = v /\ Len(v) <= Window  BY <1>4, <1>7, <1>8, <1>11, <1>13
  <2>2. (\A i \in DOMAIN w : w[i].epoch = s.epoch) => Len(a) = IF Len(w) < Window THEN Len(w) + 1 ELSE Window
    BY <1>3, <1>4, <1>7, <1>8, <2>1
  <2> QED BY <1>7, <1>8, <1>9, <1>10, <2>1, <2>2
<1> QED BY <1>12, <1>13

-----------------------------------------------------------------------------
(* The order of the boots *)

\* What is in p and not late was in q, d places further back, with the same clock.
From(p, q, d) ==
    \A i \in DOMAIN p : ~Late(p[i]) => i + d \in DOMAIN q /\ ~Late(q[i + d]) /\ p[i].epoch = q[i + d].epoch

\* So the order is kept.
LEMMA FromBoots ==
  ASSUME NEW p \in Seq(Probes), NEW q \in Seq(Probes), NEW d \in {0, 1}, NEW e, NEW w,
         From(p, q, d), Boots(q, e), Ahead(w, q)
  PROVE  Boots(p, e) /\ Ahead(w, p)
<1>1. \A i \in DOMAIN p : i \in Nat  OBVIOUS
<1>2. \A i \in DOMAIN p : ~Late(p[i]) => p[i].epoch <= e  BY DEF From, Boots
<1>3. ASSUME NEW i \in DOMAIN p, NEW j \in DOMAIN p, i < j, ~Late(p[i]), ~Late(p[j])
      PROVE  p[i].epoch <= p[j].epoch
  <2>1. /\ i + d \in DOMAIN q /\ ~Late(q[i + d]) /\ p[i].epoch = q[i + d].epoch
        /\ j + d \in DOMAIN q /\ ~Late(q[j + d]) /\ p[j].epoch = q[j + d].epoch
    BY <1>3 DEF From
  <2>2. i + d < j + d  BY <1>1, <1>3
  <2>3. q[i + d].epoch <= q[j + d].epoch  BY <2>1, <2>2 DEF Boots
  <2> QED BY <2>1, <2>3
<1>4. Ahead(w, p)  BY DEF From, Ahead
<1> QED BY <1>2, <1>3, <1>4 DEF Boots

\* The first reply goes, and the others may get old.
LEMMA ReplyFrom ==
  ASSUME QueueInv, OnReply
  PROVE  From(downq', downq, 1) /\ epoch' = epoch
<1>1. downq # <<>> /\ epoch' = epoch /\ (downq' = Tail(downq) \/ downq' = Aged(Tail(downq)))
  BY DEF OnReply, World
<1>2. {} \in SUBSET Others /\ downq \in Seq(Probes) /\ Tail(downq) \in Seq(Probes \cup {})
  <2>1. downq \in Seq(Probes)  BY DEF QueueInv, QueueTypes
  <2>2. Tail(downq) \in Seq(Probes) /\ Probes \cup {} = Probes  BY <1>1, <2>1, TailFacts
  <2> QED BY <2>1, <2>2
<1>3. \A i \in DOMAIN Tail(downq) : i + 1 \in DOMAIN downq /\ Tail(downq)[i] = downq[i + 1]
  BY <1>1, <1>2, TailFacts
<1>4. CASE downq' = Tail(downq)  BY <1>1, <1>3, <1>4 DEF From
<1>5. CASE downq' = Aged(Tail(downq))
  <2>1. PICK q : q = Tail(downq)  OBVIOUS
  <2>2. PICK p : p = Aged(q)  OBVIOUS
  <2>3. Same(q, p) /\ \A i \in DOMAIN q : IsProbe(q[i]) => p[i].epoch = q[i].epoch
    BY <1>2, <2>1, <2>2, AgedFacts
  <2>4. \A i \in DOMAIN q : IsProbe(q[i])
    <3>1. \A i \in DOMAIN q : q[i] \in Probes  BY <1>2, <2>1
    <3> QED BY <3>1, ProbeFacts
  <2>5. \A i \in DOMAIN p : i \in DOMAIN q /\ (Late(p[i]) <=> Late(q[i])) /\ p[i].epoch = q[i].epoch
    BY <2>3, <2>4, SameLate DEF Same
  <2>6. From(p, downq, 1)  BY <1>3, <2>1, <2>5 DEF From
  <2> QED BY <1>1, <1>5, <2>1, <2>2, <2>6
<1> QED BY <1>1, <1>4, <1>5

\* Who waits keeps the place and the clock.
LEMMA TickFrom ==
  ASSUME QueueInv, Tick
  PROVE  From(downq', downq, 0) /\ epoch' = epoch
<1>1. downq' = Wait(downq, "down") /\ epoch' = epoch  BY DEF Tick, World
<1>2. {} \in SUBSET Others /\ downq \in Seq(Probes \cup {}) /\ downq \in Seq(Probes)
  <2>1. downq \in Seq(Probes) /\ Probes \cup {} = Probes  BY DEF QueueInv, QueueTypes
  <2> QED BY <2>1
<1>3. PICK p : p = downq'  OBVIOUS
<1>4. Later(downq, p, {}, "down")  BY <1>1, <1>2, <1>3, WaitFacts
<1>5. \A i \in DOMAIN downq : IsProbe(downq[i]) /\ i + 0 = i
  <2>1. \A i \in DOMAIN downq : downq[i] \in Probes /\ i \in Nat  BY <1>2
  <2>2. \A i \in DOMAIN downq : i + 0 = i  BY <2>1
  <2> QED BY <2>1, <2>2, ProbeFacts
<1>6. \A i \in DOMAIN p : i \in DOMAIN downq /\ (~Late(p[i]) => ~Late(downq[i]) /\ p[i].epoch = downq[i].epoch)
  BY <1>4, <1>5 DEF Later
<1>7. From(p, downq, 0)  BY <1>5, <1>6 DEF From
<1> QED BY <1>1, <1>3, <1>7

\* The replies of this boot come behind those of the boots before.
LEMMA FlushBoots ==
  ASSUME QueueInv, Flush, BootInv, NEW w, Ahead(w, downq), UpTo(w, epoch)
  PROVE  BootInv' /\ Ahead(w, downq') /\ epoch' = epoch
<1>0. epoch' = epoch  BY FlushFacts
<1>1. CASE downq' = downq  BY <1>0, <1>1 DEF BootInv
<1>2. ASSUME NEW rs \in Seq(Probes), downq' = downq \o rs, \A k \in DOMAIN rs : rs[k].epoch = epoch
      PROVE  BootInv' /\ Ahead(w, downq')
  <2>1. PICK r : r = downq'  OBVIOUS
  <2>2. downq \in Seq(Probes) /\ epoch \in Nat  BY DEF QueueInv, QueueTypes
  <2>3. Behind(downq, rs, r)  BY <1>2, <2>1, <2>2, JoinFacts
  <2>4. /\ Len(downq) \in Nat /\ DOMAIN downq = 1..Len(downq) /\ Len(rs) \in Nat /\ DOMAIN rs = 1..Len(rs)
        /\ \A i \in DOMAIN downq : r[i] = downq[i]
        /\ \A i \in DOMAIN r : i \in DOMAIN downq \/ \E k \in DOMAIN rs : i = Len(downq) + k
        /\ \A k \in DOMAIN rs : r[Len(downq) + k] = rs[k]
    BY <2>3 DEF Behind
  <2>5. \A i \in DOMAIN r : i \in DOMAIN downq \/ (i > Len(downq) /\ r[i].epoch = epoch)  BY <1>2, <2>4
  <2>6. \A i \in DOMAIN r : ~Late(r[i]) => r[i].epoch <= epoch
    <3> SUFFICES ASSUME NEW i \in DOMAIN r, ~Late(r[i]) PROVE r[i].epoch <= epoch  OBVIOUS
    <3>1. CASE i \in DOMAIN downq  BY <2>4, <3>1 DEF BootInv, Boots
    <3>2. CASE r[i].epoch = epoch  BY <2>2, <3>2
    <3> QED BY <2>5, <3>1, <3>2
  <2>7. ASSUME NEW i \in DOMAIN r, NEW j \in DOMAIN r, i < j, ~Late(r[i]), ~Late(r[j])
        PROVE  r[i].epoch <= r[j].epoch
    <3>1. CASE j \in DOMAIN downq
      <4>1. i \in DOMAIN downq  BY <2>4, <2>5, <2>7, <3>1
      <4> QED BY <2>4, <2>7, <3>1, <4>1 DEF BootInv, Boots
    <3>2. CASE r[j].epoch = epoch  BY <2>6, <2>7, <3>2
    <3> QED BY <2>5, <3>1, <3>2
  <2>8. Ahead(w, r)
    <3> SUFFICES ASSUME NEW i \in DOMAIN w, NEW j \in DOMAIN r, ~Late(r[j]) PROVE w[i].epoch <= r[j].epoch
      BY DEF Ahead
    <3>1. CASE j \in DOMAIN downq  BY <2>4, <3>1 DEF Ahead
    <3>2. CASE r[j].epoch = epoch  BY <3>2 DEF UpTo
    <3> QED BY <2>5, <3>1, <3>2
  <2>9. Boots(r, epoch)  BY <2>6, <2>7 DEF Boots
  <2> QED BY <1>0, <2>1, <2>8, <2>9 DEF BootInv
<1> QED BY <1>0, <1>1, <1>2, FlushFacts

\* BootInv is inductive beside QueueInv, and the window stays ahead of what comes.
LEMMA NextBoots ==
  ASSUME QueueInv, BootInv, [Next]_vars, NEW w, Ahead(w, downq), UpTo(w, epoch), UpTo(w, epoch) => UpTo(w, epoch + 1)
  PROVE  BootInv' /\ Ahead(w, downq') /\ UpTo(w, epoch')
<1>1. QueueInv'  BY NextQueues
<1>2. downq \in Seq(Probes) /\ downq' \in Seq(Probes) /\ epoch \in Nat
  BY <1>1 DEF QueueInv, QueueTypes
<1>3. CASE UNCHANGED <<downq, epoch>>  BY <1>3 DEF BootInv
<1>4. CASE SendProbe \/ RelayRequest \/ ReadProbe \/ ReadRequest \/ SidecarFrame \/ Want \/ UNCHANGED vars
  <2>1. UNCHANGED <<downq, epoch>>
    BY <1>4 DEF SendProbe, RelayRequest, ReadProbe, ReadRequest, SidecarFrame, Want, World, vars
  <2> QED BY <1>3, <2>1
<1>5. CASE Flush  BY <1>5, FlushBoots
<1>6. CASE OnReply
  <2>1. PICK p : p = downq'  OBVIOUS
  <2>2. From(p, downq, 1) /\ epoch' = epoch  BY <1>6, <2>1, ReplyFrom
  <2>3. Boots(p, epoch) /\ Ahead(w, p)  BY <1>2, <2>1, <2>2, FromBoots DEF BootInv
  <2> QED BY <2>1, <2>2, <2>3 DEF BootInv
<1>7. CASE Tick
  <2>1. PICK p : p = downq'  OBVIOUS
  <2>2. From(p, downq, 0) /\ epoch' = epoch  BY <1>7, <2>1, TickFrom
  <2>3. Boots(p, epoch) /\ Ahead(w, p)  BY <1>2, <2>1, <2>2, FromBoots DEF BootInv
  <2> QED BY <2>1, <2>2, <2>3 DEF BootInv
<1>8. CASE Reboot
  <2>1. downq' = downq /\ epoch' = epoch + 1  BY <1>8 DEF Reboot
  <2>2. \A i \in DOMAIN downq : downq[i].epoch \in Nat
    <3>1. \A i \in DOMAIN downq : downq[i] \in Probes  BY <1>2
    <3> QED BY <3>1, ProbeFacts
  <2>3. Boots(downq, epoch + 1)  BY <1>2, <2>2 DEF BootInv, Boots
  <2> QED BY <2>1, <2>3 DEF BootInv
<1> QED BY <1>4, <1>5, <1>6, <1>7, <1>8 DEF Next

-----------------------------------------------------------------------------
(* The window takes what it may trust *)

\* The sample of a reply that is neither stale nor from before a stale one.
LEMMA SampleFacts ==
  ASSUME QueueInv, BootInv, WinInv, downq # <<>>, ~downq[1].old,
         ~(downq[1].up + downq[1].down > MaxRtt), NEW s, s = Sample(downq[1])
  PROVE  /\ Honest(s) /\ s.epoch = downq[1].epoch /\ ~Late(downq[1]) /\ 1 \in DOMAIN downq
         /\ s.epoch <= epoch /\ UpTo(win, s.epoch)
<1>1. downq \in Seq(Probes)  BY DEF QueueInv, QueueTypes
<1>2. 1 \in DOMAIN downq /\ downq[1] \in Probes  BY <1>1, TailFacts
<1>3. PICK r \in Probes : r = downq[1]  BY <1>2
<1>4. ~Late(r)  BY <1>3 DEF Late
<1>5. ~Suspect(r)
  <2>1. PICK a \in BOOLEAN : a = FALSE  OBVIOUS
  <2>2. Guarded(downq, a)  BY <2>1 DEF QueueInv, BacklogInv
  <2>3. Suspect(downq[1]) => a \/ LateBefore(downq, 1)  BY <1>2, <2>2 DEF Guarded
  <2>4. ~LateBefore(downq, 1)  BY <1>1 DEF LateBefore
  <2> QED BY <1>3, <2>1, <2>3, <2>4
<1>6. IsProbe(r) /\ r.up \in Nat /\ r.down \in Nat /\ r.epoch \in Nat /\ r.behind \in BOOLEAN  BY ProbeFacts
<1>7. ~r.behind  BY <1>3, <1>4, <1>5, <1>6 DEF Suspect
<1>8. /\ s \in Samples /\ s.rtt = r.up + r.down /\ s.err = r.up - r.down /\ s.epoch = r.epoch
      /\ s.behind = r.behind
  BY <1>3, <1>6 DEF Sample, Samples
<1>9. s.rtt <= MaxRtt /\ s.err <= s.rtt /\ -s.rtt <= s.err  BY <1>3, <1>6, <1>8, ClockAssumption
<1>10. Honest(s)  BY <1>7, <1>8, <1>9 DEF Honest
<1>11. r.epoch <= epoch  BY <1>2, <1>3, <1>4 DEF BootInv, Boots
<1>12. UpTo(win, r.epoch)  BY <1>2, <1>3, <1>4 DEF WinInv, Ahead, UpTo
<1> QED BY <1>2, <1>3, <1>4, <1>8, <1>10, <1>11, <1>12

\* What a new sample makes of the window.
Grown(w, v, s) ==
    /\ v \in Seq(Samples) /\ v # <<>> /\ Len(v) <= Window
    /\ \A i \in DOMAIN v : Honest(v[i]) /\ v[i].epoch = s.epoch
    /\ v[Len(v)] = s
    /\ (\A i \in DOMAIN w : w[i].epoch = s.epoch) =>
         Len(v) = IF Len(w) < Window THEN Len(w) + 1 ELSE Window

\* A reply leaves the window as it is, or is the sample of a boot no earlier.
LEMMA ReplyWindow ==
  ASSUME QueueInv, BootInv, WinInv, OnReply
  PROVE  \/ win' = win /\ (fresh' <=> fresh)
         \/ \E s : /\ Grown(win, win', s) /\ s.epoch = downq[1].epoch /\ s.epoch <= epoch
                   /\ 1 \in DOMAIN downq /\ ~Late(downq[1]) /\ downq' = Tail(downq)
                   /\ (fresh' <=> fresh \/ s.epoch = epoch)
<1>1. downq # <<>>  BY DEF OnReply
<1>2. CASE downq[1].up + downq[1].down > MaxRtt  BY <1>2 DEF OnReply
<1>3. CASE ~(downq[1].up + downq[1].down > MaxRtt) /\ downq[1].old  BY <1>3 DEF OnReply
<1>4. CASE ~(downq[1].up + downq[1].down > MaxRtt) /\ ~downq[1].old
  <2>1. PICK s : s = Sample(downq[1])  OBVIOUS
  <2>2. /\ Honest(s) /\ s.epoch = downq[1].epoch /\ ~Late(downq[1]) /\ 1 \in DOMAIN downq
        /\ s.epoch <= epoch /\ UpTo(win, s.epoch)
    BY <1>1, <1>4, <2>1, SampleFacts
  <2>3. PICK w : w = win  OBVIOUS
  <2>4. /\ w \in Seq(Samples) /\ Len(w) <= Window /\ \A i \in DOMAIN w : Honest(w[i]) /\ w[i].epoch <= s.epoch
        /\ \A i, j \in DOMAIN w : w[i].epoch = w[j].epoch
    BY <2>2, <2>3 DEF WinInv, OneBoot, UpTo
  <2>5. PICK v : v = Add(w, s)  OBVIOUS
  <2>6. Grown(w, v, s)  BY <2>2, <2>4, <2>5, AddFacts DEF Grown
  <2>7. /\ win' = Add(win, Sample(downq[1])) /\ downq' = Tail(downq)
        /\ fresh' <=> fresh \/ downq[1].epoch = epoch
    BY <1>4 DEF OnReply
  <2>8. win' = v  BY <2>1, <2>3, <2>5, <2>7
  <2>9. Grown(win, win', s)  BY <2>3, <2>6, <2>8
  <2> QED BY <2>2, <2>7, <2>9
<1> QED BY <1>2, <1>3, <1>4

\* WinInv is inductive beside the other two.
LEMMA NextWindow ==
  ASSUME QueueInv, BootInv, WinInv, [Next]_vars
  PROVE  WinInv'
<1>1. /\ win \in Seq(Samples) /\ Len(win) <= Window /\ \A i \in DOMAIN win : Honest(win[i])
      /\ OneBoot(win) /\ UpTo(win, epoch) /\ Ahead(win, downq)
      /\ (fresh => win # <<>> /\ \A i \in DOMAIN win : win[i].epoch = epoch)
  BY DEF WinInv
<1>2. UpTo(win, epoch + 1)
  <2>1. \A i \in DOMAIN win : win[i].epoch \in Nat  BY <1>1 DEF Honest, Samples
  <2>2. epoch \in Nat  BY DEF QueueInv, QueueTypes
  <2> QED BY <1>1, <2>1, <2>2 DEF UpTo
<1>3. PICK w : w = win  OBVIOUS
<1>4. BootInv' /\ Ahead(w, downq') /\ UpTo(w, epoch')  BY <1>1, <1>2, <1>3, NextBoots
<1>5. ASSUME win' = win, fresh' => fresh /\ epoch' = epoch PROVE WinInv'
  <2>1. win' = w  BY <1>3, <1>5
  <2>2. Ahead(win', downq') /\ UpTo(win', epoch')  BY <1>4, <2>1
  <2>3. OneBoot(win')  BY <1>1, <1>5
  <2>4. win' \in Seq(Samples) /\ Len(win') <= Window /\ \A i \in DOMAIN win' : Honest(win'[i])
    BY <1>1, <1>5
  <2>5. fresh' => win' # <<>> /\ \A i \in DOMAIN win' : win'[i].epoch = epoch'  BY <1>1, <1>5
  <2> QED BY <2>2, <2>3, <2>4, <2>5 DEF WinInv
<1>6. CASE UNCHANGED <<win, fresh, epoch>>  BY <1>5, <1>6
<1>7. CASE SendProbe \/ RelayRequest \/ ReadProbe \/ ReadRequest \/ SidecarFrame \/ Flush \/ Tick \/ Want
           \/ UNCHANGED vars
  <2>1. UNCHANGED <<win, fresh, epoch>>
    BY <1>7 DEF SendProbe, RelayRequest, ReadProbe, ReadRequest, SidecarFrame, Flush, Tick, Want,
                Ground, World, vars
  <2> QED BY <1>6, <2>1
<1>8. CASE Reboot
  <2>1. win' = win /\ fresh' = FALSE  BY <1>8 DEF Reboot
  <2> QED BY <1>5, <2>1
<1>9. CASE OnReply
  <2>1. epoch' = epoch  BY <1>9 DEF OnReply, World
  <2>2. CASE win' = win /\ (fresh' <=> fresh)  BY <1>5, <2>1, <2>2
  <2>3. ASSUME NEW s, Grown(win, win', s), s.epoch = downq[1].epoch, s.epoch <= epoch, 1 \in DOMAIN downq,
               ~Late(downq[1]), downq' = Tail(downq), fresh' <=> fresh \/ s.epoch = epoch
        PROVE  WinInv'
    <3>1. PICK v : v = win'  OBVIOUS
    <3>2. /\ v \in Seq(Samples) /\ v # <<>> /\ Len(v) <= Window
          /\ \A i \in DOMAIN v : Honest(v[i]) /\ v[i].epoch = s.epoch
      BY <2>3, <3>1 DEF Grown
    <3>3. OneBoot(v) /\ UpTo(v, epoch)  BY <2>3, <3>2 DEF OneBoot, UpTo
    <3>4. PICK p : p = downq'  OBVIOUS
    <3>5. From(p, downq, 1)  BY <1>9, <3>4, ReplyFrom
    <3>6. \A j \in DOMAIN p : j \in Nat /\ j >= 1
      <4>1. QueueInv'  BY NextQueues
      <4>2. p \in Seq(Probes)  BY <3>4, <4>1 DEF QueueInv, QueueTypes
      <4> QED BY <4>2
    <3>7. \A j \in DOMAIN p : ~Late(p[j]) => downq[1].epoch <= p[j].epoch
      <4> SUFFICES ASSUME NEW j \in DOMAIN p, ~Late(p[j]) PROVE downq[1].epoch <= p[j].epoch  OBVIOUS
      <4>1. j + 1 \in DOMAIN downq /\ ~Late(downq[j + 1]) /\ p[j].epoch = downq[j + 1].epoch
        BY <3>5 DEF From
      <4>2. 1 < j + 1  BY <3>6
      <4>3. downq[1].epoch <= downq[j + 1].epoch  BY <2>3, <4>1, <4>2 DEF BootInv, Boots
      <4> QED BY <4>1, <4>3
    <3>8. Ahead(v, p)  BY <2>3, <3>2, <3>7 DEF Ahead
    <3>9. fresh' => \A i \in DOMAIN v : v[i].epoch = epoch
      <4>1. CASE s.epoch = epoch  BY <3>2, <4>1
      <4>2. CASE fresh
        <5>1. win # <<>> /\ \A i \in DOMAIN win : win[i].epoch = epoch  BY <1>1, <4>2
        <5>2. 1 \in DOMAIN win  BY <1>1, <5>1
        <5>3. epoch <= downq[1].epoch  BY <1>1, <2>3, <5>1, <5>2 DEF Ahead
        <5>4. s.epoch \in Nat /\ epoch \in Nat
          <6>1. downq \in Seq(Probes) /\ epoch \in Nat  BY DEF QueueInv, QueueTypes
          <6>2. downq[1] \in Probes  BY <2>3, <6>1
          <6> QED BY <2>3, <6>1, <6>2, ProbeFacts
        <5>5. s.epoch = epoch  BY <2>3, <5>3, <5>4
        <5> QED BY <4>1, <5>5
      <4> QED BY <2>3, <4>1, <4>2
    <3> QED BY <2>1, <3>1, <3>2, <3>3, <3>4, <3>8, <3>9 DEF WinInv
  <2> QED BY <1>9, <2>2, <2>3, ReplyWindow
<1> QED BY <1>7, <1>8, <1>9 DEF Next

-----------------------------------------------------------------------------
(* What is promised of the clock *)

\* At first nothing waits and nothing is known.
LEMMA InitPath == Init => PathInv
<1> SUFFICES ASSUME Init PROVE PathInv  OBVIOUS
<1>1. QueueInv  BY InitQueues
<1>2. downq = <<>> /\ win = <<>> /\ fresh = FALSE  BY DEF Init
<1>3. DOMAIN downq = {} /\ DOMAIN win = {} /\ win \in Seq(Samples) /\ Len(win) = 0  BY <1>2
<1>4. BootInv  BY <1>3 DEF BootInv, Boots
<1>5. 0 <= Window  BY ClockAssumption
<1>6. WinInv  BY <1>2, <1>3, <1>5 DEF WinInv, OneBoot, UpTo, Ahead
<1> QED BY <1>1, <1>4, <1>6 DEF PathInv

\* PathInv is inductive.
LEMMA NextPath == PathInv /\ [Next]_vars => PathInv'
<1> SUFFICES ASSUME PathInv, [Next]_vars PROVE PathInv'  OBVIOUS
<1>1. QueueInv /\ BootInv /\ WinInv  BY DEF PathInv
<1>2. QueueInv'  BY <1>1, NextQueues
<1>3. WinInv'  BY <1>1, NextWindow
<1>4. BootInv'
  <2>1. PICK w : w = <<>>  OBVIOUS
  <2>2. DOMAIN w = {}  BY <2>1
  <2>3. Ahead(w, downq) /\ UpTo(w, epoch) /\ UpTo(w, epoch + 1)  BY <2>2 DEF Ahead, UpTo
  <2> QED BY <1>1, <2>3, NextBoots
<1> QED BY <1>2, <1>3, <1>4 DEF PathInv

\* So it holds throughout.
LEMMA PathInvariant == Spec => []PathInv
  BY InitPath, NextPath, PTL DEF Spec

\* The window is what the clock may be told from.
LEMMA PathTrusted == PathInv => ClockTrusted
<1> SUFFICES ASSUME PathInv PROVE EstimateSound /\ BacklogUnused  BY DEF ClockTrusted
<1>1. /\ win \in Seq(Samples) /\ \A i \in DOMAIN win : Honest(win[i])
      /\ (fresh => win # <<>> /\ \A i \in DOMAIN win : win[i].epoch = epoch)
  BY DEF PathInv, WinInv
<1>2. EstimateSound
  <2> SUFFICES ASSUME fresh PROVE Best(win).epoch = epoch  BY DEF EstimateSound
  <2>1. PICK i \in DOMAIN win : Best(win) = win[i]  BY <1>1, BestFacts
  <2> QED BY <1>1, <2>1
<1>3. BacklogUnused  BY <1>1 DEF BacklogUnused, Range, Honest
<1> QED BY <1>2, <1>3

\* Whatever the delays, losses and reboots, and for every window, period and queue:
\* clock_sync_get() tells the clock of the air unit's present boot from the first sample of it
\* on, and clock_sync_on_reply() takes no probe of a backlog for a sample.
THEOREM ClockTrustedHolds == Spec => []ClockTrusted
  BY PathInvariant, PathTrusted, PTL

\* A step keeps to NoFalseReset.
LEMMA StepGrows ==
  ASSUME PathInv, [Next]_vars, win' # win, \A o \in Range(win) : o.epoch = win'[Len(win')].epoch
  PROVE  Len(win') = IF Len(win) < Window THEN Len(win) + 1 ELSE Window
<1>1. QueueInv /\ BootInv /\ WinInv  BY DEF PathInv
<1>2. OnReply
  BY DEF Next, SendProbe, RelayRequest, ReadProbe, ReadRequest, SidecarFrame, Flush, Tick, Want, Reboot,
         Ground, World, vars
<1>3. PICK s : Grown(win, win', s)  BY <1>1, <1>2, ReplyWindow
<1>4. \A i \in DOMAIN win : win[i].epoch = s.epoch  BY <1>3 DEF Grown, Range
<1> QED BY <1>3, <1>4 DEF Grown

\* However unlike each other the delays are, clock_sync_on_reply() starts its window over only
\* for a sample of another boot: Jump > 3 * MaxRtt + Slack is all that is asked of a reboot.
THEOREM NoFalseResetHolds == Spec => NoFalseReset
<1>1. PathInv /\ [Next]_vars =>
        [LET s == win'[Len(win')]
         IN  win' # win /\ (\A o \in Range(win) : o.epoch = s.epoch)
               => Len(win') = IF Len(win) < Window THEN Len(win) + 1 ELSE Window]_vars
  BY StepGrows
<1> QED BY <1>1, PathInvariant, PTL DEF Spec, NoFalseReset

=============================================================================
