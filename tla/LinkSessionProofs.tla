------------------------- MODULE LinkSessionProofs -------------------------
(***************************************************************************)
(* Safety of LinkSession for every value of its constants: FreshSlot, and  *)
(* OthersSpared, along an inductive invariant that says who holds a port   *)
(* of the chip as long as nothing has crashed.                             *)
(***************************************************************************)
EXTENDS LinkSession, TLAPS

-----------------------------------------------------------------------------
(* The inductive invariant *)

ProgStates ==
    [pc : {"connect", "resolve", "open", "run", "leaving", "exited"}, sock : {"none", "live", "dead"},
     slot : SUBSET Slots, tries : Nat, round : {0, 1}, dead : Nat, stop : BOOLEAN, threads : BOOLEAN,
     seen : SUBSET Slots]

Types ==
    /\ unit \in {"air", "ground"} /\ daemon \in BOOLEAN /\ peer \in SUBSET Slots
    /\ prog \in [Programs -> ProgStates]
    /\ faults \in [outages : Nat, crashes : Nat, refusals : Nat, stops : Nat]

\* What a program has seen since it connected covers the peer there is and the slot it chose.
SlotOf(r) ==
    /\ r.pc \in {"resolve", "open", "run"} => peer \subseteq r.seen
    /\ AutoSlot /\ r.pc \in {"open", "run"} => r.slot \subseteq r.seen
SlotInv == \A p \in Programs : SlotOf(prog[p])

\* As long as the daemon has not gone and no program has crashed, the ports taken are those of
\* the live sockets, and an attempt to open one fails only when the chip refuses.
Quiet == faults.outages = 0 /\ faults.crashes = 0
PortOf(p, r) ==
    /\ r.sock # "none" => r.pc \in {"run", "leaving"}
    /\ Quiet => /\ r.pc \in {"resolve", "open", "run"} \/ r.sock # "none" => daemon
                /\ p \in taken <=> r.sock = "live"
                /\ r.tries <= faults.refusals
PortInv == \A p \in Programs : PortOf(p, prog[p])

SessionInv == Types /\ SlotInv /\ PortInv

-----------------------------------------------------------------------------
(* Its proof *)

Faults == [outages : Nat, crashes : Nat, refusals : Nat, stops : Nat]

\* Both programs are starting.
LEMMA InitSession == Init => SessionInv
<1> SUFFICES ASSUME Init PROVE SessionInv  OBVIOUS
<1>1. prog = [p \in Programs |-> Starting] /\ taken = {}  BY DEF Init
<1>2. Starting \in ProgStates  BY DEF Starting, ProgStates
<1>3. Types
  <2>1. peer \in SUBSET Slots  BY DEF Init
  <2> QED BY <1>1, <1>2, <2>1 DEF Init, Types
<1>4. SlotInv  BY <1>1 DEF SlotInv, SlotOf, Starting
<1>5. faults.refusals = 0  BY DEF Init
<1>6. PortInv  BY <1>1, <1>5 DEF PortInv, PortOf, Starting
<1> QED BY <1>3, <1>4, <1>6 DEF SessionInv

\* One program moves to a state r; the ports of the others stay as they are.
LEMMA OneMoves ==
  ASSUME SessionInv, NEW p \in Programs, NEW r \in ProgStates, Set(p, r),
         UNCHANGED <<unit, daemon, peer>>, faults' \in Faults, Quiet' => Quiet,
         faults'.refusals >= faults.refusals,
         Quiet => \A q \in Programs \ {p} : q \in taken' <=> q \in taken,
         SlotOf(r)', PortOf(p, r)'
  PROVE  SessionInv'
<1>1. Types /\ SlotInv /\ PortInv  BY DEF SessionInv
<1>2. /\ prog' \in [Programs -> ProgStates] /\ prog'[p] = r
      /\ \A q \in Programs \ {p} : prog'[q] = prog[q]
  BY <1>1 DEF Set, Types
<1>3. Types'  BY <1>1, <1>2 DEF Types, Faults
<1>4. SlotInv'
  <2>1. ASSUME NEW q \in Programs \ {p} PROVE SlotOf(prog[q])'
    <3>1. SlotOf(prog[q])  BY <1>1 DEF SlotInv
    <3> QED BY <1>2, <3>1 DEF SlotOf, AutoSlot
  <2> QED BY <1>2, <2>1 DEF SlotInv, SlotOf, AutoSlot
<1>5. PortInv'
  <2>1. ASSUME NEW q \in Programs \ {p} PROVE PortOf(q, prog[q])'
    <3>1. PortOf(q, prog[q])  BY <1>1 DEF PortInv
    <3>2. prog[q].tries \in Nat /\ faults.refusals \in Nat /\ faults'.refusals \in Nat
      BY <1>1 DEF Types, ProgStates, Faults
    <3> QED BY <1>2, <3>1, <3>2 DEF PortOf
  <2>2. PortOf(p, prog[p])'  BY <1>2 DEF PortOf, Quiet
  <2> QED BY <2>1, <2>2 DEF PortInv
<1> QED BY <1>3, <1>4, <1>5 DEF SessionInv

\* The same for a step that leaves the faults alone.
LEMMA OneMovesCalmly ==
  ASSUME SessionInv, NEW p \in Programs, NEW r \in ProgStates, Set(p, r),
         UNCHANGED env, \A q \in Programs \ {p} : q \in taken' <=> q \in taken,
         SlotOf(r), PortOf(p, r)'
  PROVE  SessionInv'
<1>1. UNCHANGED <<unit, daemon, peer, faults>>  BY DEF env
<1>2. faults \in Faults  BY DEF SessionInv, Types, Faults
<1>3. faults'.refusals >= faults.refusals  BY <1>1, <1>2 DEF Faults
<1>4. SlotOf(r)' /\ (Quiet' => Quiet)  BY <1>1 DEF SlotOf, AutoSlot, Quiet
<1> QED BY <1>1, <1>2, <1>3, <1>4, OneMoves

\* What the close of a link does to the ports.
LEMMA CloseSpares ==
  ASSUME SessionInv, NEW p \in Programs, taken' = TakenAfterClose(p)
  PROVE  /\ \A q \in Programs \ {p} : q \in taken' <=> q \in taken
         /\ Quiet => p \notin taken'
<1>1. \A q \in Programs \ {p} : q \in taken' <=> q \in taken  BY DEF TakenAfterClose
<1>2. PortOf(p, prog[p])  BY DEF SessionInv, PortInv
<1>3. Quiet => p \notin taken'  BY <1>2 DEF PortOf, TakenAfterClose
<1> QED BY <1>1, <1>3

\* A step of one program.
LEMMA StepSession ==
  ASSUME SessionInv, NEW p \in Programs, Step(p)
  PROVE  SessionInv'
<1>1. prog[p] \in ProgStates /\ peer \in SUBSET Slots /\ faults \in Faults
  BY DEF SessionInv, Types, Faults
<1>2. SlotOf(prog[p]) /\ PortOf(p, prog[p])  BY DEF SessionInv, SlotInv, PortInv
<1>3. CASE Connect(p)
  <2>0. PICK r : r = [prog[p] EXCEPT !.pc = IF AutoSlot THEN "resolve" ELSE "open", !.seen = peer]  OBVIOUS
  <2>1. prog[p].pc = "connect" /\ daemon /\ Set(p, r) /\ UNCHANGED <<env, taken>>  BY <2>0, <1>3 DEF Connect
  <2>2. /\ r \in ProgStates /\ r.sock = prog[p].sock /\ r.tries = prog[p].tries /\ r.seen = peer
        /\ r.pc = IF AutoSlot THEN "resolve" ELSE "open"
    BY <2>0, <1>1 DEF ProgStates
  <2>3. SlotOf(r) /\ PortOf(p, r)'  BY <1>2, <2>1, <2>2 DEF SlotOf, PortOf, Quiet, env
  <2> QED BY <2>1, <2>2, <2>3, OneMovesCalmly
<1>4. CASE Resolve(p)
  <2>0. PICK r : r = [prog[p] EXCEPT !.pc = "open", !.slot = peer]  OBVIOUS
  <2>1. prog[p].pc = "resolve" /\ daemon /\ Set(p, r) /\ UNCHANGED <<env, taken>>  BY <2>0, <1>4 DEF Resolve
  <2>2. /\ r \in ProgStates /\ r.sock = prog[p].sock /\ r.tries = prog[p].tries
        /\ r.seen = prog[p].seen /\ r.slot = peer /\ r.pc = "open"
    BY <2>0, <1>1 DEF ProgStates
  <2>3. SlotOf(r) /\ PortOf(p, r)'  BY <1>2, <2>1, <2>2 DEF SlotOf, PortOf, Quiet, env
  <2> QED BY <2>1, <2>2, <2>3, OneMovesCalmly
<1>5. CASE OpenOk(p)
  <2>0. PICK r : r = [prog[p] EXCEPT !.pc = "run", !.sock = "live", !.tries = 0, !.round = 0,
                                  !.threads = prog[p].threads \/ p = "video"]  OBVIOUS
  <2>1. /\ prog[p].pc = "open" /\ daemon /\ Set(p, r) /\ UNCHANGED env /\ taken' = taken \cup {p}
    BY <2>0, <1>5 DEF OpenOk
  <2>2. (prog[p].threads \/ p = "video") \in BOOLEAN  OBVIOUS
  <2>3. /\ r \in ProgStates /\ r.sock = "live" /\ r.tries = 0 /\ r.seen = prog[p].seen
        /\ r.slot = prog[p].slot /\ r.pc = "run"
    BY <2>0, <1>1, <2>2 DEF ProgStates
  <2>4. 0 <= faults.refusals  BY <1>1 DEF Faults
  <2>5. SlotOf(r) /\ PortOf(p, r)'  BY <1>2, <2>1, <2>3, <2>4 DEF SlotOf, PortOf, Quiet, env
  <2> QED BY <2>1, <2>3, <2>5, OneMovesCalmly
<1>6. CASE OpenFails(p)
  <2>0. PICK r : r = [prog[p] EXCEPT !.tries = prog[p].tries + 1]  OBVIOUS
  <2>1. prog[p].pc = "open" /\ Set(p, r) /\ UNCHANGED <<unit, daemon, peer, taken>>
    BY <2>0, <1>6 DEF OpenFails
  <2>2. /\ r \in ProgStates /\ r.tries = prog[p].tries + 1 /\ r.sock = prog[p].sock
        /\ r.seen = prog[p].seen /\ r.slot = prog[p].slot /\ r.pc = "open"
    BY <2>0, <1>1, <2>1 DEF ProgStates
  <2>3. SlotOf(r)'  BY <1>2, <2>1, <2>2 DEF SlotOf, AutoSlot
  <2>4. prog[p].tries \in Nat /\ faults.refusals \in Nat  BY <1>1 DEF ProgStates, Faults
  <2>5. prog[p].sock = "none" /\ (Quiet => daemon /\ p \notin taken /\ prog[p].tries <= faults.refusals)
    BY <1>1, <1>2, <2>1 DEF PortOf, ProgStates
  <2>6. CASE UNCHANGED faults /\ (~daemon \/ p \in taken)
    <3>1. ~Quiet /\ ~Quiet'  BY <2>5, <2>6 DEF Quiet
    <3>2. PortOf(p, r)'  BY <2>2, <2>5, <3>1 DEF PortOf
    <3>3. faults'.refusals >= faults.refusals /\ faults' \in Faults  BY <1>1, <2>4, <2>6
    <3> QED BY <2>1, <2>2, <2>3, <3>1, <3>2, <3>3, OneMoves
  <2>7. CASE faults' = [faults EXCEPT !.refusals = faults.refusals + 1]
    <3>1. /\ faults' \in Faults /\ faults'.refusals = faults.refusals + 1
          /\ faults'.outages = faults.outages /\ faults'.crashes = faults.crashes
      BY <1>1, <2>7 DEF Faults
    <3>2. Quiet' <=> Quiet  BY <3>1 DEF Quiet
    <3>3. Quiet => r.tries <= faults'.refusals  BY <2>2, <2>4, <2>5, <3>1
    <3>4. PortOf(p, r)'  BY <2>1, <2>2, <2>5, <3>2, <3>3 DEF PortOf
    <3>5. faults'.refusals >= faults.refusals  BY <2>4, <3>1
    <3> QED BY <2>1, <2>2, <2>3, <3>1, <3>2, <3>4, <3>5, OneMoves
  <2> QED BY <1>6, <2>6, <2>7 DEF OpenFails
<1>0. CASE Leave(p)
  <2>0. PICK r : r = [prog[p] EXCEPT !.pc = "leaving"]  OBVIOUS
  <2>1. prog[p].pc \in {"connect", "resolve", "run"} /\ Set(p, r) /\ UNCHANGED <<env, taken>>
    BY <2>0, <1>0 DEF Leave
  <2>2. r \in ProgStates /\ r.sock = prog[p].sock /\ r.tries = prog[p].tries /\ r.pc = "leaving"
    BY <2>0, <1>1 DEF ProgStates
  <2>3. SlotOf(r) /\ PortOf(p, r)'  BY <1>2, <2>1, <2>2 DEF SlotOf, PortOf, Quiet, env
  <2> QED BY <2>1, <2>2, <2>3, OneMovesCalmly
<1>7. CASE GiveUp(p)
  <2>0. PICK r : r = [prog[p] EXCEPT !.pc = "leaving", !.stop = TRUE]  OBVIOUS
  <2>1. prog[p].pc = "open" /\ Set(p, r) /\ UNCHANGED <<env, taken>>  BY <2>0, <1>7 DEF GiveUp, AttemptsOver
  <2>2. r \in ProgStates /\ r.sock = prog[p].sock /\ r.tries = prog[p].tries /\ r.pc = "leaving"
    BY <2>0, <1>1 DEF ProgStates
  <2>3. SlotOf(r) /\ PortOf(p, r)'  BY <1>2, <2>1, <2>2 DEF SlotOf, PortOf, Quiet, env
  <2> QED BY <2>1, <2>2, <2>3, OneMovesCalmly
<1>8. CASE Send(p)
  <2>1. PICK d \in Nat : Set(p, [prog[p] EXCEPT !.dead = d])
    <3>1. prog[p].dead \in Nat  BY <1>1 DEF ProgStates
    <3> DEFINE d == IF prog[p].sock = "live" THEN 0
                    ELSE IF prog[p].dead < DeadAfter THEN prog[p].dead + 1 ELSE prog[p].dead
    <3>2. d \in Nat /\ Set(p, [prog[p] EXCEPT !.dead = d])  BY <1>8, <3>1 DEF Send
    <3> HIDE DEF d
    <3> QED BY <3>2
  <2>0. PICK r : r = [prog[p] EXCEPT !.dead = d]  OBVIOUS
  <2>2. /\ r \in ProgStates /\ r.sock = prog[p].sock /\ r.tries = prog[p].tries /\ r.pc = prog[p].pc
        /\ r.seen = prog[p].seen /\ r.slot = prog[p].slot
    BY <2>0, <1>1 DEF ProgStates
  <2>3. UNCHANGED <<env, taken>>  BY <1>8 DEF Send
  <2>4. SlotOf(r) /\ PortOf(p, r)'  BY <1>2, <2>2, <2>3 DEF SlotOf, PortOf, Quiet, env
  <2> QED BY <2>1, <2>2, <2>3, <2>4, <2>0, OneMovesCalmly
<1>9. CASE HealthCheck(p)
  <2>0. PICK r : r = [prog[p] EXCEPT !.pc = "connect", !.sock = "none", !.dead = 0, !.seen = {}]  OBVIOUS
  <2>1. Set(p, r) /\ UNCHANGED env /\ taken' = TakenAfterClose(p)  BY <2>0, <1>9 DEF HealthCheck
  <2>2. r \in ProgStates /\ r.sock = "none" /\ r.tries = prog[p].tries /\ r.pc = "connect"
    BY <2>0, <1>1 DEF ProgStates
  <2>3. Quiet' <=> Quiet  BY <2>1 DEF Quiet, env
  <2>4. SlotOf(r) /\ PortOf(p, r)'  BY <1>2, <2>1, <2>2, <2>3, CloseSpares DEF SlotOf, PortOf, env
  <2> QED BY <2>1, <2>2, <2>4, CloseSpares, OneMovesCalmly
<1>10. CASE Exit(p)
  <2>1. Set(p, Exited) /\ UNCHANGED env /\ taken' = TakenAfterClose(p)  BY <1>10 DEF Exit
  <2>2. Exited \in ProgStates /\ Exited.sock = "none" /\ Exited.tries = 0 /\ Exited.pc = "exited"
    BY DEF ProgStates, Exited, Starting
  <2>3. (Quiet' <=> Quiet) /\ 0 <= faults'.refusals  BY <1>1, <2>1 DEF Quiet, env, Faults
  <2>4. SlotOf(Exited) /\ PortOf(p, Exited)'  BY <2>1, <2>2, <2>3, CloseSpares DEF SlotOf, PortOf, env
  <2> QED BY <2>1, <2>2, <2>4, CloseSpares, OneMovesCalmly
<1>11. CASE CloseAll(p)
  <2> DEFINE Other(q) == IF daemon THEN Cut(prog[q]) ELSE prog[q]
             New(q) == IF q = p THEN [prog[p] EXCEPT !.round = 1, !.tries = 0] ELSE Other(q)
  <2>1. /\ prog[p].pc = "open" /\ UNCHANGED env /\ taken' = IF daemon THEN {} ELSE taken
        /\ prog' = [q \in Programs |-> New(q)]
    BY <1>11 DEF CloseAll, AttemptsOver
  <2>2. ASSUME NEW q \in Programs
        PROVE  /\ New(q) \in ProgStates /\ New(q).pc = prog[q].pc /\ New(q).seen = prog[q].seen
               /\ New(q).slot = prog[q].slot /\ New(q).tries \in {0, prog[q].tries}
               /\ New(q).sock = IF q = p \/ ~daemon \/ prog[q].sock # "live" THEN prog[q].sock ELSE "dead"
    <3>1. prog[q] \in ProgStates  BY DEF SessionInv, Types
    <3>2. CASE q = p  BY <3>1, <3>2 DEF ProgStates
    <3>3. CASE q # p /\ daemon  BY <3>1, <3>3 DEF ProgStates, Cut
    <3>4. CASE q # p /\ ~daemon  BY <3>1, <3>4
    <3> QED BY <3>2, <3>3, <3>4
  <2> HIDE DEF New
  <2>3. \A q \in Programs : prog'[q] = New(q)  BY <2>1
  <2>4. Types'  BY <2>1, <2>2 DEF SessionInv, Types, env
  <2>5. SlotInv'
    <3>1. ASSUME NEW q \in Programs PROVE SlotOf(prog[q])'
      <4>1. SlotOf(prog[q])  BY DEF SessionInv, SlotInv
      <4> QED BY <2>1, <2>2, <2>3, <4>1 DEF SlotOf, AutoSlot, env
    <3> QED BY <3>1 DEF SlotInv
  <2>6. PortInv'
    <3>1. ASSUME NEW q \in Programs PROVE PortOf(q, prog[q])'
      <4>1. PortOf(q, prog[q])  BY DEF SessionInv, PortInv
      <4>2. prog[q].tries \in Nat /\ faults.refusals \in Nat /\ prog[q].sock \in {"none", "live", "dead"}
        BY <1>1 DEF SessionInv, Types, ProgStates, Faults
      <4>3. New(q).sock # "none" => prog[q].sock # "none"  BY <2>2
      <4>4. UNCHANGED <<daemon, faults>> /\ (Quiet' <=> Quiet)  BY <2>1 DEF env, Quiet
      <4>5. New(q).sock # "none" => New(q).pc \in {"run", "leaving"}  BY <2>2, <4>1, <4>3 DEF PortOf
      <4>6. CASE ~Quiet  BY <2>3, <4>4, <4>5, <4>6 DEF PortOf
      <4>7. CASE Quiet
        <5>1. prog[p].sock # "live" /\ daemon  BY <1>2, <2>1, <4>7 DEF PortOf
        <5>2. New(q).sock # "live" /\ q \notin taken'  BY <2>1, <2>2, <5>1
        <5>3. New(q).tries <= faults'.refusals  BY <2>2, <4>1, <4>2, <4>4, <4>7 DEF PortOf
        <5> QED BY <2>3, <4>4, <4>5, <5>1, <5>2, <5>3 DEF PortOf
      <4> QED BY <4>6, <4>7
    <3> QED BY <3>1 DEF PortInv
  <2> QED BY <2>4, <2>5, <2>6 DEF SessionInv
<1> QED BY <1>0, <1>3, <1>4, <1>5, <1>6, <1>7, <1>8, <1>9, <1>10, <1>11 DEF Step

\* Stops, crashes and starts of a program.
LEMMA EndsSession ==
  ASSUME SessionInv, NEW p \in Programs, Stop(p) \/ Crash(p) \/ Start(p)
  PROVE  SessionInv'
<1>1. prog[p] \in ProgStates /\ faults \in Faults  BY DEF SessionInv, Types, Faults
<1>2. SlotOf(prog[p]) /\ PortOf(p, prog[p])  BY DEF SessionInv, SlotInv, PortInv
<1>3. CASE Stop(p)
  <2>0. PICK r : r = [prog[p] EXCEPT !.stop = TRUE]  OBVIOUS
  <2>1. /\ prog[p].pc \notin {"leaving", "exited"} /\ Set(p, r) /\ UNCHANGED <<unit, daemon, peer, taken>>
        /\ faults' = [faults EXCEPT !.stops = faults.stops + 1]
    BY <2>0, <1>3 DEF Stop
  <2>2. /\ r \in ProgStates /\ r.sock = prog[p].sock /\ r.tries = prog[p].tries /\ r.pc = prog[p].pc
        /\ r.seen = prog[p].seen /\ r.slot = prog[p].slot
    BY <2>0, <1>1 DEF ProgStates
  <2>3. /\ faults' \in Faults /\ faults'.refusals = faults.refusals
        /\ faults'.outages = faults.outages /\ faults'.crashes = faults.crashes
    BY <1>1, <2>1 DEF Faults
  <2>4. Quiet' <=> Quiet  BY <2>3 DEF Quiet
  <2>5. SlotOf(r)' /\ PortOf(p, r)'  BY <1>2, <2>1, <2>2, <2>3, <2>4 DEF SlotOf, PortOf, AutoSlot
  <2>6. faults'.refusals >= faults.refusals  BY <1>1, <2>3 DEF Faults
  <2> QED BY <2>1, <2>2, <2>3, <2>4, <2>5, <2>6, OneMoves
<1>4. CASE Crash(p)
  <2>1. /\ Set(p, Exited) /\ UNCHANGED <<unit, daemon, peer, taken>>
        /\ faults' = [faults EXCEPT !.crashes = faults.crashes + 1]
    BY <1>4 DEF Crash
  <2>2. Exited \in ProgStates /\ Exited.sock = "none" /\ Exited.pc = "exited"
    BY DEF ProgStates, Exited, Starting
  <2>3. faults' \in Faults /\ faults'.refusals = faults.refusals /\ faults'.crashes # 0
    BY <1>1, <2>1 DEF Faults
  <2>4. ~Quiet'  BY <2>3 DEF Quiet
  <2>5. SlotOf(Exited)' /\ PortOf(p, Exited)'  BY <2>2, <2>4 DEF SlotOf, PortOf
  <2>6. faults'.refusals >= faults.refusals  BY <1>1, <2>3 DEF Faults
  <2> QED BY <2>1, <2>2, <2>3, <2>4, <2>5, <2>6, OneMoves
<1>5. CASE Start(p)
  <2>1. prog[p].pc = "exited" /\ Set(p, Starting) /\ UNCHANGED <<env, taken>>  BY <1>5 DEF Start
  <2>2. Starting \in ProgStates /\ Starting.sock = "none" /\ Starting.pc = "connect" /\ Starting.tries = 0
    BY DEF ProgStates, Starting
  <2>3. prog[p].sock # "live" /\ (Quiet => p \notin taken)  BY <1>2, <2>1 DEF PortOf
  <2>4. (Quiet' <=> Quiet) /\ 0 <= faults'.refusals  BY <1>1, <2>1 DEF Quiet, env, Faults
  <2>5. SlotOf(Starting) /\ PortOf(p, Starting)'  BY <2>1, <2>2, <2>3, <2>4 DEF SlotOf, PortOf
  <2> QED BY <2>1, <2>2, <2>5, OneMovesCalmly
<1> QED BY <1>3, <1>4, <1>5

\* The daemon and the peer come and go.
LEMMA OutsideSession ==
  ASSUME SessionInv, DaemonGoes \/ DaemonComes \/ PeerConnects
  PROVE  SessionInv'
<1>1. Types /\ SlotInv /\ PortInv  BY DEF SessionInv
<1>2. faults \in Faults /\ prog \in [Programs -> ProgStates]  BY <1>1 DEF Types, Faults
<1>3. CASE DaemonGoes
  <2>1. /\ UNCHANGED <<unit, peer>> /\ daemon' = FALSE /\ prog' = [p \in Programs |-> Cut(prog[p])]
        /\ faults' = [faults EXCEPT !.outages = faults.outages + 1]
    BY <1>3 DEF DaemonGoes
  <2>2. ASSUME NEW p \in Programs
        PROVE  /\ Cut(prog[p]) \in ProgStates /\ Cut(prog[p]).pc = prog[p].pc
               /\ Cut(prog[p]).seen = prog[p].seen /\ Cut(prog[p]).slot = prog[p].slot
               /\ Cut(prog[p]).sock # "none" => prog[p].sock # "none"
    <3>1. prog[p] \in ProgStates  BY <1>2
    <3> QED BY <3>1 DEF ProgStates, Cut
  <2>3. \A p \in Programs : prog'[p] = Cut(prog[p])  BY <2>1
  <2>4. faults' \in Faults /\ faults'.outages # 0  BY <1>2, <2>1 DEF Faults
  <2>5. ~Quiet'  BY <2>4 DEF Quiet
  <2>6. Types'  BY <1>1, <2>1, <2>2, <2>4 DEF Types, Faults
  <2>7. SlotInv'  BY <1>1, <2>1, <2>2, <2>3 DEF SlotInv, SlotOf, AutoSlot
  <2>8. PortInv'  BY <1>1, <2>2, <2>3, <2>5 DEF PortInv, PortOf
  <2> QED BY <2>6, <2>7, <2>8 DEF SessionInv
<1>4. CASE DaemonComes \/ PeerConnects
  <2>1. /\ prog' = Seeing /\ UNCHANGED <<unit, taken, faults>> /\ peer' \in SUBSET Slots
        /\ daemon' \in BOOLEAN /\ (daemon => daemon')
    BY <1>1, <1>4 DEF DaemonComes, PeerConnects, Types
  <2>2. ASSUME NEW p \in Programs
        PROVE  /\ prog'[p] \in ProgStates /\ prog'[p].pc = prog[p].pc
               /\ prog[p].pc \in {"resolve", "open", "run"} => prog'[p].seen = prog[p].seen \cup peer'
               /\ prog'[p].slot = prog[p].slot
               /\ prog'[p].sock = prog[p].sock /\ prog'[p].tries = prog[p].tries
    <3>1. prog[p] \in ProgStates  BY <1>2
    <3>2. CASE prog[p].pc \in {"resolve", "open", "run"}
      <4>1. prog'[p] = [prog[p] EXCEPT !.seen = prog[p].seen \cup peer']  BY <2>1, <3>2 DEF Seeing
      <4> QED BY <2>1, <3>1, <4>1 DEF ProgStates
    <3>3. CASE prog[p].pc \notin {"resolve", "open", "run"}
      <4>1. prog'[p] = prog[p]  BY <2>1, <3>3 DEF Seeing
      <4> QED BY <3>1, <3>3, <4>1
    <3> QED BY <3>2, <3>3
  <2>3. prog' \in [Programs -> ProgStates]
    <3>1. prog' = [p \in Programs |-> prog'[p]]  BY <2>1 DEF Seeing
    <3> QED BY <2>2, <3>1
  <2>4. Types'  BY <1>1, <2>1, <2>3 DEF Types
  <2>5. SlotInv'  BY <1>1, <2>1, <2>2 DEF SlotInv, SlotOf, AutoSlot
  <2>6. PortInv'  BY <1>1, <2>1, <2>2 DEF PortInv, PortOf, Quiet
  <2> QED BY <2>4, <2>5, <2>6 DEF SessionInv
<1> QED BY <1>3, <1>4

\* Every step keeps the invariant.
LEMMA NextSession ==
  ASSUME SessionInv, [Next]_vars
  PROVE  SessionInv'
<1>1. CASE UNCHANGED vars
  <2>1. UNCHANGED <<unit, daemon, peer, taken, prog, faults>>  BY <1>1 DEF vars, env
  <2> QED BY <2>1 DEF SessionInv, Types, SlotInv, SlotOf, PortInv, PortOf, AutoSlot, Quiet
<1> QED BY <1>1, StepSession, EndsSession, OutsideSession DEF Next

\* ar8030_link_connect_retry() and resolve_connected_slot(): with any number of slots, attempts,
\* crashes and outages, a program of the air unit never runs on a slot found before its connect.
THEOREM FreshSlotHolds == Spec => []FreshSlot
<1>1. SessionInv => FreshSlot  BY DEF SessionInv, SlotInv, SlotOf, FreshSlot
<1> QED BY <1>1, InitSession, NextSession, PTL DEF Spec

\* No step takes away the port of another program, in the cases OthersSpared names.
LEMMA Spared ==
  ASSUME SessionInv, Next, NEW p \in Programs, unit = "ground" \/ Calm, Working(p), daemon',
         prog'[p].pc = "run"
  PROVE  Working(p)'
<1>1. prog \in [Programs -> ProgStates] /\ daemon /\ prog[p].pc = "run" /\ prog[p].sock = "live"
  BY DEF SessionInv, Types, Working
<1>2. ASSUME NEW q \in Programs, Step(q) \/ Stop(q) \/ Crash(q) \/ Start(q)
      PROVE  prog'[p].sock = "live"
  <2>1. ~CloseAll(q)
    <3>1. SUFFICES ASSUME CloseAll(q) PROVE FALSE  OBVIOUS
    <3>2. /\ unit = "air" /\ q = "video" /\ prog[q].pc = "open"
          /\ prog[q].tries = MaxAttempts \/ prog[q].stop
      BY <3>1 DEF CloseAll, AttemptsOver, IsTx
    <3>3. Calm /\ Quiet /\ prog[q].tries = MaxAttempts  BY <3>2 DEF Calm, Quiet
    <3>4. prog[q].tries <= faults.refusals /\ faults.refusals < MaxAttempts
      BY <3>3 DEF SessionInv, PortInv, PortOf, Calm
    <3>5. faults.refusals \in Nat /\ MaxAttempts \in Nat  BY SessionAssumption DEF SessionInv, Types
    <3> QED BY <3>3, <3>4, <3>5
  <2>2. CASE q # p
    <3>1. \E r : Set(q, r)
      BY <1>2, <2>1 DEF Step, Connect, Resolve, OpenOk, OpenFails, GiveUp, Send, HealthCheck, Leave,
                        Exit, Stop, Crash, Start
    <3>2. prog'[p] = prog[p]  BY <1>1, <2>2, <3>1 DEF Set
    <3> QED BY <1>1, <3>2
  <2>3. CASE q = p
    <3>1. CASE Send(p)
      <4>1. PICK d : Set(p, [prog[p] EXCEPT !.dead = d])  BY <3>1 DEF Send
      <4>2. prog'[p] = [prog[p] EXCEPT !.dead = d]  BY <1>1, <4>1 DEF Set
      <4>3. prog[p] \in ProgStates  BY <1>1
      <4>4. prog'[p].sock = prog[p].sock  BY <4>2, <4>3 DEF ProgStates
      <4> QED BY <1>1, <4>4
    <3>2. CASE HealthCheck(p)
      <4>1. prog'[p] = [prog[p] EXCEPT !.pc = "connect", !.sock = "none", !.dead = 0, !.seen = {}]
        BY <1>1, <3>2 DEF HealthCheck, Set
      <4>2. prog'[p].pc = "connect"  BY <1>1, <4>1 DEF ProgStates
      <4> QED BY <4>2
    <3>3. CASE Stop(p)
      <4>1. prog'[p] = [prog[p] EXCEPT !.stop = TRUE]  BY <1>1, <3>3 DEF Stop, Set
      <4>2. prog'[p].sock = prog[p].sock  BY <1>1, <4>1 DEF ProgStates
      <4> QED BY <1>1, <4>2
    <3>6. CASE Leave(p)
      <4>1. prog'[p] = [prog[p] EXCEPT !.pc = "leaving"]  BY <1>1, <3>6 DEF Leave, Set
      <4>2. prog'[p].pc = "leaving"  BY <1>1, <4>1 DEF ProgStates
      <4> QED BY <4>2
    <3>4. CASE Crash(p)
      <4>1. prog'[p] = Exited  BY <1>1, <3>4 DEF Crash, Set
      <4> QED BY <4>1 DEF Exited, Starting
    <3>5. ~(Connect(p) \/ Resolve(p) \/ OpenOk(p) \/ OpenFails(p) \/ GiveUp(p) \/ Exit(p) \/ Start(p))
      BY <1>1 DEF Connect, Resolve, OpenOk, OpenFails, GiveUp, AttemptsOver, Exit, Start
    <3> QED BY <1>2, <2>1, <2>3, <3>1, <3>2, <3>3, <3>4, <3>5, <3>6 DEF Step
  <2> QED BY <2>2, <2>3
<1>3. CASE DaemonGoes  BY <1>3 DEF DaemonGoes
<1>4. CASE DaemonComes  BY <1>1, <1>4 DEF DaemonComes
<1>5. CASE PeerConnects
  <2>1. prog'[p] = [prog[p] EXCEPT !.seen = prog[p].seen \cup peer']  BY <1>1, <1>5 DEF PeerConnects, Seeing
  <2>2. prog'[p].sock = prog[p].sock  BY <1>1, <2>1 DEF ProgStates
  <2> QED BY <1>1, <2>2 DEF Working
<1> QED BY <1>2, <1>3, <1>4, <1>5 DEF Next, Working

\* open_data_socket(): its last resort, the close of all sockets, never takes a working port from
\* the other program on the ground, and on the air unit not before a crash, an outage, as many
\* refusals as it makes attempts or a stop of tx in the middle of its attempts: for every number
\* of attempts.
THEOREM OthersSparedHolds == Spec => OthersSpared
<1>1. SessionInv /\ [Next]_vars
        => [\A p \in Programs : (unit = "ground" \/ Calm) /\ Working(p) /\ daemon' /\ prog'[p].pc = "run"
              => Working(p)']_vars
  BY Spared
<1> QED BY <1>1, InitSession, NextSession, PTL DEF Spec, OthersSpared

=============================================================================
