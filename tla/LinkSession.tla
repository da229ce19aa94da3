---------------------------- MODULE LinkSession ----------------------------
(***************************************************************************)
(* common/ar8030_link.c and its users: the two programs of a unit, video    *)
(* (tx or rx) and audio (audio_tx or audio_rx), each with its own           *)
(* connection to ar8030d and its own port of the one chip.  The daemon may  *)
(* crash, which leaves the ports taken, or stop in good order; programs may *)
(* crash, be stopped and be started again.                                 *)
(***************************************************************************)
EXTENDS Naturals, FiniteSets

CONSTANTS
    Slots,         \* the slots of the chip a peer may be connected on
    MaxAttempts,   \* SOCKET_REOPEN_MAX_ATTEMPTS
    DeadAfter,     \* SOCKET_DEAD_AFTER_FRAMES
    MaxOutages, MaxCrashes, MaxRefusals, MaxStops,   \* bounds on what goes wrong
    MaxFaults      \* and on all of it together

ASSUME SessionAssumption ==
    /\ Slots # {} /\ MaxAttempts \in Nat \ {0} /\ DeadAfter \in Nat \ {0}
    /\ {MaxOutages, MaxCrashes, MaxRefusals, MaxStops, MaxFaults} \subseteq Nat

VARIABLES
    unit,     \* which unit this is: the air unit or the ground
    daemon,   \* ar8030d is running
    peer,     \* the slots with a connected peer, at most one
    taken,    \* the programs whose port is open on the chip
    prog,     \* the state of each program
    faults    \* what went wrong so far

env == <<unit, daemon, peer, faults>>
vars == <<env, taken, prog>>

Programs == {"video", "audio"}

\* Only the air unit looks for its peer's slot; the ground always addresses BB_SLOT_AP.
AutoSlot == unit = "air"
\* Only tx closes all sockets when its port stays taken and counts writes that fail with an error.
IsTx(p) == unit = "air" /\ p = "video"

(* One program: where it is, its socket (link->sockfd), the slot it uses    *)
(* (args.slot), the attempts and the round of open_data_socket(),           *)
(* consecutive_dead_writes, g_stop, whether its other threads run, and the  *)
(* slots that had a peer since it connected (history).                     *)
Starting == [pc |-> "connect", sock |-> "none", slot |-> {}, tries |-> 0, round |-> 0,
             dead |-> 0, stop |-> FALSE, threads |-> FALSE, seen |-> {}]

Init ==
    /\ unit \in {"air", "ground"} /\ daemon \in BOOLEAN
    /\ peer \in {{}} \cup {{s} : s \in Slots}
    /\ taken = {} /\ prog = [p \in Programs |-> Starting]
    /\ faults = [outages |-> 0, crashes |-> 0, refusals |-> 0, stops |-> 0]

Exited == [Starting EXCEPT !.pc = "exited"]

Set(p, r) == prog' = [prog EXCEPT ![p] = r]

\* There may be one more fault.
FaultLeft == faults.outages + faults.crashes + faults.refusals + faults.stops < MaxFaults

\* The program has not been told to stop, as far as its loops have looked.
GoesOn(p) == ~prog[p].stop

-----------------------------------------------------------------------------
(* Connecting.                                                             *)

ConnectKeepsSlot(p) ==
    /\ prog[p].pc = "connect" /\ daemon
    /\ Set(p, [prog[p] EXCEPT !.pc = IF AutoSlot /\ prog[p].slot = {} THEN "resolve" ELSE "open",
                              !.seen = peer])
    /\ UNCHANGED <<env, taken>>

\* ar8030_link_connect_retry() gets through: a daemon that knows its device.  It looks at g_stop
\* only after an attempt that failed.
Connect(p) ==
    /\ prog[p].pc = "connect" /\ daemon
    /\ Set(p, [prog[p] EXCEPT !.pc = IF AutoSlot THEN "resolve" ELSE "open",
                              !.seen = peer])
    /\ UNCHANGED <<env, taken>>

\* resolve_connected_slot().
Resolve(p) ==
    /\ prog[p].pc = "resolve" /\ GoesOn(p) /\ daemon /\ peer # {}
    /\ Set(p, [prog[p] EXCEPT !.pc = "open", !.slot = peer])
    /\ UNCHANGED <<env, taken>>

\* bb_socket_open() succeeds: the chip has the port free.
OpenOk(p) ==
    /\ prog[p].pc = "open" /\ GoesOn(p) /\ prog[p].tries < MaxAttempts
    /\ daemon /\ p \notin taken
    /\ Set(p, [prog[p] EXCEPT !.pc = "run", !.sock = "live", !.tries = 0, !.round = 0,
                              !.threads = @ \/ p = "video"])
    /\ taken' = taken \cup {p}
    /\ UNCHANGED env

\* bb_socket_open() fails: no daemon, "already opened", or one of those that fail for a while
\* after a close.
OpenFails(p) ==
    /\ prog[p].pc = "open" /\ GoesOn(p) /\ prog[p].tries < MaxAttempts
    /\ \/ /\ ~daemon \/ p \in taken
          /\ UNCHANGED faults
       \/ /\ daemon /\ p \notin taken /\ faults.refusals < MaxRefusals /\ FaultLeft
          /\ faults' = [faults EXCEPT !.refusals = @ + 1]
    /\ Set(p, [prog[p] EXCEPT !.tries = @ + 1])
    /\ UNCHANGED <<unit, daemon, peer, taken>>

\* A socket that was open before is not any more; its owner does not hear of it.
Cut(r) == [r EXCEPT !.sock = IF @ = "live" THEN "dead" ELSE @]

CloseAllAtOnce(p) ==
    /\ prog[p].pc = "open" /\ prog[p].round = 0 /\ IsTx(p) /\ daemon
    /\ taken' = {}
    /\ prog' = [q \in Programs |->
                  IF q = p THEN [prog[q] EXCEPT !.round = 1, !.tries = 0] ELSE Cut(prog[q])]
    /\ UNCHANGED env

\* The loop over the attempts is over without a socket: they are used up, or g_stop is set.
AttemptsOver(p) == prog[p].pc = "open" /\ (prog[p].tries = MaxAttempts \/ prog[p].stop)

\* The second round of open_data_socket(), after ar8030_link_force_close_all_sockets(): the chip
\* has no scoped close, so this closes the other program's port too.  A stop does not keep tx from
\* it, only from the attempts that would follow.
CloseAll(p) ==
    /\ AttemptsOver(p) /\ prog[p].round = 0 /\ IsTx(p)
    /\ taken' = IF daemon THEN {} ELSE taken
    /\ prog' = [q \in Programs |->
                  IF q = p THEN [prog[q] EXCEPT !.round = 1, !.tries = 0]
                  ELSE IF daemon THEN Cut(prog[q]) ELSE prog[q]]
    /\ UNCHANGED env

GiveUpUnstopped(p) ==
    /\ AttemptsOver(p) /\ (IsTx(p) => prog[p].round = 1)
    /\ Set(p, [prog[p] EXCEPT !.pc = "leaving"])
    /\ UNCHANGED <<env, taken>>

\* No attempt succeeded.  Out of the loop of main(), with g_stop set.
GiveUp(p) ==
    /\ AttemptsOver(p) /\ (IsTx(p) => prog[p].round = 1)
    /\ Set(p, [prog[p] EXCEPT !.pc = "leaving", !.stop = TRUE])
    /\ UNCHANGED <<env, taken>>

-----------------------------------------------------------------------------
(* Running.                                                                *)

SendUncounted(p) ==
    /\ prog[p].pc = "run" /\ GoesOn(p) /\ IsTx(p)
    /\ Set(p, [prog[p] EXCEPT !.dead = 0])
    /\ UNCHANGED <<env, taken>>

\* One frame of tx: whether its first write went through.  The other programs go on with their
\* loop whatever a read or a write returns.
Send(p) ==
    /\ prog[p].pc = "run" /\ GoesOn(p) /\ IsTx(p)
    /\ Set(p, [prog[p] EXCEPT !.dead = IF prog[p].sock = "live" THEN 0
                                       ELSE IF @ < DeadAfter THEN @ + 1 ELSE @])
    /\ UNCHANGED <<env, taken>>

\* The probe of the health check: the SDK client connects again by itself, so it fails only
\* while the daemon is away.
IsAlive == daemon

SocketDead(p) == IsTx(p) /\ prog[p].dead >= DeadAfter

\* ar8030_link_close() for a program: its port is given back if the daemon still knows the socket.
TakenAfterClose(p) == IF prog[p].sock = "live" /\ daemon THEN taken \ {p} ELSE taken

\* The health check finds the connection lost, and ar8030_link_reconnect_retry() begins.
HealthCheck(p) ==
    /\ prog[p].pc = "run" /\ GoesOn(p) /\ (SocketDead(p) \/ ~IsAlive)
    /\ taken' = TakenAfterClose(p)
    /\ Set(p, [prog[p] EXCEPT !.pc = "connect", !.sock = "none", !.dead = 0, !.seen = {}])
    /\ UNCHANGED env

-----------------------------------------------------------------------------
(* Ending.                                                                 *)

\* SIGTERM: on_signal() sets g_stop.
Stop(p) ==
    /\ prog[p].pc \notin {"leaving", "exited"} /\ GoesOn(p) /\ faults.stops < MaxStops /\ FaultLeft
    /\ faults' = [faults EXCEPT !.stops = @ + 1]
    /\ Set(p, [prog[p] EXCEPT !.stop = TRUE])
    /\ UNCHANGED <<unit, daemon, peer, taken>>

\* The loop the program is in looks at it: the main loop and resolve_connected_slot() before each
\* turn, ar8030_link_connect_retry() after a failed attempt.
Leave(p) ==
    /\ prog[p].stop
    /\ prog[p].pc \in {"resolve", "run"} \/ (prog[p].pc = "connect" /\ ~daemon)
    /\ Set(p, [prog[p] EXCEPT !.pc = "leaving"])
    /\ UNCHANGED <<env, taken>>

\* The end of main(): the threads are joined, which needs g_stop, and the link is closed.
Exit(p) ==
    /\ prog[p].pc = "leaving" /\ (prog[p].threads => prog[p].stop)
    /\ taken' = TakenAfterClose(p)
    /\ Set(p, Exited)
    /\ UNCHANGED env

Crash(p) ==
    /\ prog[p].pc # "exited" /\ faults.crashes < MaxCrashes /\ FaultLeft
    /\ faults' = [faults EXCEPT !.crashes = @ + 1]
    /\ Set(p, Exited)
    /\ UNCHANGED <<unit, daemon, peer, taken>>

\* Its init script or the supervisor's hook starts it again.
Start(p) == prog[p].pc = "exited" /\ Set(p, Starting) /\ UNCHANGED <<env, taken>>

-----------------------------------------------------------------------------
(* ar8030d, the chip and the peer.                                         *)

\* A daemon that crashes closes nothing on the chip; one that stops closes everything.
DaemonGoes ==
    /\ daemon /\ faults.outages < MaxOutages /\ FaultLeft
    /\ daemon' = FALSE
    /\ taken' \in {{}, taken}
    /\ faults' = [faults EXCEPT !.outages = @ + 1]
    /\ prog' = [p \in Programs |-> Cut(prog[p])]
    /\ UNCHANGED <<unit, peer>>

Seeing ==
    [p \in Programs |-> IF prog[p].pc \in {"resolve", "open", "run"} THEN [prog[p] EXCEPT !.seen = @ \cup peer']
                       ELSE prog[p]]

\* Across an outage the peer may come back on another slot.
DaemonComes ==
    /\ ~daemon /\ daemon' = TRUE
    /\ peer' \in {{}} \cup {{s} : s \in Slots}
    /\ prog' = Seeing
    /\ UNCHANGED <<unit, taken, faults>>

PeerConnects ==
    /\ peer = {} /\ peer' \in {{s} : s \in Slots}
    /\ prog' = Seeing
    /\ UNCHANGED <<unit, daemon, taken, faults>>

Step(p) ==
    Connect(p) \/ Resolve(p) \/ OpenOk(p) \/ OpenFails(p) \/ CloseAll(p) \/ GiveUp(p)
        \/ Send(p) \/ HealthCheck(p) \/ Leave(p) \/ Exit(p)

Next ==
    \/ \E p \in Programs : Step(p) \/ Stop(p) \/ Crash(p) \/ Start(p)
    \/ DaemonGoes \/ DaemonComes \/ PeerConnects

Spec == Init /\ [][Next]_vars

\* Each program runs, with frames to send and its health check in turn; something starts the
\* daemon again and the units find each other.
FairSpec ==
    /\ Spec
    /\ \A p \in Programs :
          /\ WF_vars(Connect(p) \/ Resolve(p) \/ OpenOk(p) \/ OpenFails(p) \/ CloseAll(p)
                        \/ GiveUp(p) \/ Leave(p) \/ Exit(p))
          /\ WF_vars(Send(p)) /\ WF_vars(HealthCheck(p))
    /\ WF_vars(DaemonComes) /\ WF_vars(PeerConnects)

-----------------------------------------------------------------------------
(* Properties.                                                             *)

Working(p) == daemon /\ prog[p].pc = "run" /\ prog[p].sock = "live"

\* A program has a socket exactly while it runs or leaves, and a live one is its own port on the chip.
TypeOK ==
    /\ taken \subseteq Programs /\ peer \subseteq Slots /\ Cardinality(peer) <= 1
    /\ \A p \in Programs :
          /\ prog[p].sock = "none" => prog[p].pc # "run"
          /\ prog[p].sock # "none" => prog[p].pc \in {"run", "leaving"}
          /\ prog[p].sock = "live" => daemon /\ p \in taken
          /\ prog[p].tries \in 0 .. MaxAttempts /\ prog[p].dead \in 0 .. DeadAfter

\* A slot found before a daemon restart is not used after the reconnect: whatever slot a
\* program of the air unit opened its socket on had a peer since that connect.
FreshSlot == \A p \in Programs : AutoSlot /\ prog[p].pc = "run" => prog[p].slot \subseteq prog[p].seen

\* On the ground no program ever closes the port under the other, and on the air unit none does
\* as long as the daemon stays, no program crashes and tx is not stopped while it opens its socket:
\* starting one leaves the other alone, and so does stopping one that has its socket (why
\* open_data_socket() closes all sockets only when its attempts are used up).
Calm ==
    /\ faults.outages = 0 /\ faults.crashes = 0 /\ faults.refusals < MaxAttempts
    /\ ~(prog["video"].pc = "open" /\ prog["video"].stop)
OthersSpared ==
    [][\A p \in Programs : (unit = "ground" \/ Calm) /\ Working(p) /\ daemon' /\ prog'[p].pc = "run"
          => Working(p)']_vars

\* tx gets its video out again after any crash of the daemon, even one its probe never notices,
\* however the port was left, as long as it does not have to give up.
VideoReturns ==
    unit = "air" /\ <>[](prog["video"].pc \notin {"leaving", "exited"}) => <>[]Working("video")

\* Every program that connects has its socket in the end or is gone: its connecting does not wait for
\* ever for the daemon, a peer or a port, nor its leaving for its own threads.  A program other
\* than tx that runs on a dead socket is not connecting: it stays there when the daemon was
\* away only between two probes.
ConnectsOrExits ==
    \A p \in Programs : prog[p].pc \in {"connect", "leaving"} ~> Working(p) \/ prog[p].pc = "exited"

\* tx has its video back after any outage, and whoever connects or leaves gets there.
SessionsReturn == VideoReturns /\ ConnectsOrExits
=============================================================================
