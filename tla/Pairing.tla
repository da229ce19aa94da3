---- MODULE Pairing ----
(***************************************************************************)
(* Pairing, from the button or the HTTP request to the chip's candidates:   *)
(* lc_pair_run() and the pairing tool it forks (lifecycle_pair.c), what the *)
(* supervisor reads from the files and pushes to the chip when it starts,   *)
(* connects or is asked to forget a unit (lifecycle.c), the chip's reset    *)
(* (lifecycle_gpio.c) and the hooks that drive the LED.  Power cuts and      *)
(* restarts of the process come between any two steps.                     *)
(*                                                                         *)
(* Of two tools that run at once only one gets a peer from the handshake    *)
(* until it has exited.                                                    *)
(***************************************************************************)
EXTENDS PeerStore, BindButton

CONSTANTS
    Units,            \* the [role, method] of lc_config_t the runs cover (role, reset_method)
    Stored,           \* [cfg, marker, peers] a unit may have kept
    InRange,          \* the units that can be paired with
    MaxPairs, MaxForgets,   \* presses of the button and pairings over HTTP, forget requests
    MaxFaults         \* power cuts, restarts, lost links and failing calls, together

ASSUME PairingAssumption ==
    /\ {None, Empty, "all"} \cap Macs = {} /\ InRange \subseteq Macs
    /\ Units \subseteq [role : {"ap", "dev"}, method : {"none", "devmem", "sysfs"}]
    /\ Stored \subseteq [cfg : Macs \cup {None}, marker : BOOLEAN, peers : Lists]
    /\ \A s \in Stored : s.cfg = None => s.peers = <<>>
    /\ MaxPairs \in Nat /\ MaxForgets \in Nat /\ MaxFaults \in Nat

VARIABLES
    unit,    \* role and reset method
    files, kept,   \* the files as seen, and as of the last sync()
    tool,    \* [caller -> [at, mac]]: the pairing tools; "orphan" outlived its process
    chip,    \* ap_mac, candidates, whether it is linked (up), and in reset (held)
    sup,     \* the supervisor thread: at, back (where it returns to), list (the peers it is about
             \* to save), drops (those it is about to forget), pulse, idled (idle_hook_fired)
    mail,    \* pending_forget: a MAC, "all" or none
    led,     \* the hook that ran last
    told,    \* the peer of the last pairing that ended well
    gone,    \* the units forgotten and not paired since
    torn,    \* a configuration that was not written as a whole has been put in place
    stale,   \* a write of the file or to the chip failed since the process started
    left     \* what remains of the bounds

vars == <<button, stop, unit, files, kept, tool, chip, sup, mail, led, told, gone, torn, stale, left>>

Callers == {"button", "http", "orphan"}
Off == [at |-> "off", mac |-> None]
Process == <<button, stop>>
Disk == <<files, kept>>
Ghosts == <<told, gone, torn>>

\* Volatile in the chip: gone after a reset.
BlankChip(held) == [ap |-> None, cands |-> {}, up |-> FALSE, held |-> held]

NewSup == [at |-> "reset", back |-> "idle", list |-> <<>>, drops |-> {}, pulse |-> 0, idled |-> FALSE]
SupAt(at) == [sup EXCEPT !.at = at]
SupBack == [sup EXCEPT !.at = sup.back, !.back = "idle", !.list = <<>>, !.drops = {}]

Init ==
    /\ ButtonInit /\ stop = FALSE
    /\ unit \in Units
    /\ \E s \in Stored :
          /\ unit.role = "ap" => s.peers = <<>>
          /\ files = [cfg |-> s.cfg, hard |-> TRUE, marker |-> s.marker, peers |-> s.peers]
    /\ kept = files
    /\ tool = [c \in Callers |-> Off]
    /\ chip = BlankChip(FALSE) /\ sup = NewSup
    /\ mail = None /\ led = "off" /\ told = None /\ gone = {} /\ torn = FALSE /\ stale = FALSE
    /\ left = [pairs |-> MaxPairs, forgets |-> MaxForgets, faults |-> MaxFaults]

\* One more of a bounded kind of event.
Spend(what) == left[what] > 0 /\ left' = [left EXCEPT ![what] = @ - 1]

\* lifecycle_init() has returned and the threads run.
Serving == sup.at \notin {"reset", "gone"}

-----------------------------------------------------------------------------
(* The pairing tool: a process forked by lc_pair_run().                    *)

Persisting(c) == tool[c].at \in {"peer", "tmp", "short", "renamed", "marked", "live", "unsaved"}

ToolAt(c, at) == tool' = [tool EXCEPT ![c].at = at]

\* lc_hooks_dispatch(): the scripts of an event are started, in the order of their calls.
Hook(event) == led' = event

\* POST /api/v1/pair: lc_pair_run() runs the pairing hook and forks the tool.
HttpPair ==
    /\ Serving /\ tool["http"].at = "off" /\ Spend("pairs")
    /\ Hook("pairing") /\ ToolAt("http", "hand")
    /\ UNCHANGED <<Process, unit, Disk, chip, sup, mail, Ghosts, stale>>

\* The same from the button's thread; where the fork fails, so does the pairing.
ButtonPair ==
    /\ button.at = "pair"
    /\ \/ Hook("pairing") /\ ToolAt("button", "hand") /\ button' = PressOver("pairing") /\ UNCHANGED left
       \/ Hook("idle") /\ Spend("faults") /\ button' = PressOver("lock") /\ UNCHANGED tool
    /\ UNCHANGED <<stop, unit, Disk, chip, sup, mail, Ghosts, stale>>

\* The handshake, over the air: a peer is found and linked to, or the tool gives up.
Handshake(c) ==
    /\ tool[c].at = "hand"
    /\ \/ \E m \in InRange :
             /\ ~chip.held /\ \A o \in Callers : ~Persisting(o)
             /\ tool' = [tool EXCEPT ![c] = [at |-> "peer", mac |-> m]]
             /\ chip' = [chip EXCEPT !.up = TRUE]
       \/ ToolAt(c, "failed") /\ UNCHANGED chip
    /\ UNCHANGED <<Process, unit, Disk, sup, mail, led, Ghosts, stale, left>>

\* lc_pair_persist(): the configuration is read and parsed, and its new content goes to the
\* temporary file and to the flash.  A file that cannot be read, parsed or opened ends it at once;
\* what fwrite(), fflush() and fsync() return is not looked at.
WriteTmp(c) ==
    /\ tool[c].at = "peer"
    /\ \/ files.cfg # Empty /\ ToolAt(c, "tmp") /\ UNCHANGED left
       \/ files.cfg # Empty /\ ToolAt(c, "short") /\ Spend("faults")
       \/ files.cfg # Empty /\ ToolAt(c, "failed") /\ Spend("faults")
       \/ files.cfg = Empty /\ ToolAt(c, "failed") /\ UNCHANGED left
    /\ UNCHANGED <<Process, unit, Disk, chip, sup, mail, led, Ghosts, stale>>

\* What the temporary file holds: all of it and on the flash; after a write that failed, not all
\* of it, or all of it and not on the flash.
Written(c) ==
    IF tool[c].at = "tmp" THEN {[cfg |-> tool[c].mac, hard |-> TRUE]}
    ELSE {[cfg |-> Empty, hard |-> TRUE], [cfg |-> tool[c].mac, hard |-> FALSE]}

RenameUnsynced(c) ==
    /\ tool[c].at = "tmp"
    /\ ToolAt(c, "renamed")
    /\ files' = [files EXCEPT !.cfg = tool[c].mac, !.hard = FALSE]
    /\ told' = None /\ gone' = gone \ {tool[c].mac} /\ torn' = torn
    /\ UNCHANGED <<Process, unit, kept, chip, sup, mail, led, stale, left>>

\* It takes the configuration's name, whatever it holds, or the rename fails.
Rename(c) ==
    /\ tool[c].at \in {"tmp", "short"}
    /\ \/ /\ ToolAt(c, "renamed") /\ UNCHANGED left
          /\ \E w \in Written(c) : files' = [files EXCEPT !.cfg = w.cfg, !.hard = w.hard]
          /\ told' = None /\ gone' = gone \ {tool[c].mac} /\ torn' = (torn \/ tool[c].at = "short")
       \/ ToolAt(c, "unsaved") /\ Spend("faults") /\ UNCHANGED <<files, Ghosts>>
    /\ UNCHANGED <<Process, unit, kept, chip, sup, mail, led, stale>>

Mark(c) ==
    /\ tool[c].at = "renamed"
    /\ ToolAt(c, "marked")
    /\ files' = [files EXCEPT !.marker = TRUE]
    /\ UNCHANGED <<Process, unit, kept, chip, sup, mail, led, Ghosts, stale, left>>

SyncForgotten(c) ==
    /\ tool[c].at = "marked"
    /\ ToolAt(c, "live")
    /\ UNCHANGED <<Process, unit, Disk, chip, sup, mail, led, Ghosts, stale, left>>

Sync(c) ==
    /\ tool[c].at = "marked"
    /\ ToolAt(c, "live")
    /\ files' = Synced(files) /\ kept' = Synced(files)
    /\ UNCHANGED <<Process, unit, chip, sup, mail, led, Ghosts, stale, left>>

\* A write to the chip: it takes, unless the chip is in reset, or it fails and the chip keeps what
\* it had.
Write(new) ==
    \/ chip' = (IF chip.held THEN chip ELSE new) /\ UNCHANGED <<stale, left>>
    \/ Spend("faults") /\ stale' = TRUE /\ UNCHANGED chip

\* The chip with its ap_mac or its candidates set to one peer.
KnowsPeer(m) == IF unit.role = "ap" THEN [chip EXCEPT !.cands = {m}] ELSE [chip EXCEPT !.ap = m]

LiveLater(c) ==
    /\ tool[c].at = "live"
    /\ ToolAt(c, "ok") /\ told' = tool[c].mac
    /\ UNCHANGED <<Process, unit, Disk, sup, mail, led, gone, torn, chip, stale, left>>

\* Best effort: the chip is told of the peer at once, even when the file could not be renamed.
Live(c) ==
    /\ tool[c].at = "live"
    /\ ToolAt(c, "ok") /\ told' = tool[c].mac
    /\ Write(KnowsPeer(tool[c].mac))
    /\ UNCHANGED <<Process, unit, Disk, sup, mail, led, gone, torn>>

LiveUnsaved(c) ==
    /\ tool[c].at = "unsaved"
    /\ ToolAt(c, "failed") /\ stale' = TRUE
    /\ chip' = (IF chip.held THEN chip ELSE KnowsPeer(tool[c].mac))
    /\ UNCHANGED <<Process, unit, Disk, sup, mail, led, Ghosts, left>>

ReportUnshown(c) ==
    /\ tool[c].at \in {"ok", "failed"}
    /\ tool' = [tool EXCEPT ![c] = Off]
    /\ button' = IF c = "button" THEN ButtonAt("lock") ELSE button
    /\ UNCHANGED <<stop, unit, Disk, chip, sup, mail, led, Ghosts, stale, left>>

\* run_pair_tool()'s result for a tool that was forked: SIGCHLD is ignored, so waitpid() finds no
\* child and leaves the status at 0, whatever the tool's exit code was.
ExitSeen(at) == 0

\* lc_pair_run() goes on to the hook of the result, unless its process is gone.
Report(c) ==
    /\ tool[c].at \in {"ok", "failed"}
    /\ tool' = [tool EXCEPT ![c] = Off]
    /\ Hook(IF c = "orphan" THEN led ELSE IF ExitSeen(tool[c].at) = 0 THEN "connected" ELSE "idle")
    /\ button' = IF c = "button" THEN ButtonAt("lock") ELSE button
    /\ UNCHANGED <<stop, unit, Disk, chip, sup, mail, Ghosts, stale, left>>

ToolStep(c) ==
    Handshake(c) \/ WriteTmp(c) \/ Rename(c) \/ Mark(c) \/ Sync(c) \/ Live(c) \/ LiveUnsaved(c) \/ Report(c)

-----------------------------------------------------------------------------
(* The supervisor thread.                                                  *)

\* lc_gpio_reset_devmem() and lc_gpio_reset_sysfs() set the lines in this many steps.
PulseSteps == [none |-> 0, devmem |-> 2, sysfs |-> 5]

ResetAbandoned ==
    /\ sup.at = "reset" /\ sup.pulse < PulseSteps[unit.method]
    /\ sup' = IF stop /\ sup.pulse > 0 THEN SupAt("gone") ELSE [sup EXCEPT !.pulse = @ + 1]
    /\ chip' = BlankChip(sup.pulse + 1 < PulseSteps[unit.method])
    /\ UNCHANGED <<Process, unit, Disk, tool, mail, led, Ghosts, stale, left>>

\* A request to stop does not cut the pulse short.
ResetPulse ==
    /\ sup.at = "reset" /\ sup.pulse < PulseSteps[unit.method]
    /\ sup' = [sup EXCEPT !.pulse = @ + 1]
    /\ chip' = BlankChip(sup.pulse + 1 < PulseSteps[unit.method])
    /\ UNCHANGED <<Process, unit, Disk, tool, mail, led, Ghosts, stale, left>>

\* The lines are set, could not be opened, or this board has none.
ResetDone ==
    /\ sup.at = "reset"
    /\ \/ sup.pulse = PulseSteps[unit.method] /\ UNCHANGED left
       \/ sup.pulse = 0 /\ Spend("faults")
    /\ sup' = [sup EXCEPT !.at = "start", !.pulse = 0]
    /\ UNCHANGED <<Process, unit, Disk, tool, chip, mail, led, Ghosts, stale>>

\* lifecycle_thread_main() starts: lc_pair_apply_known_candidate(), which does nothing without
\* a peer in the configuration.
StartUnapplied ==
    /\ sup.at = "start" /\ ~stop
    /\ sup' = SupAt("idle")
    /\ UNCHANGED <<Process, unit, Disk, tool, chip, mail, led, Ghosts, stale, left>>

Start ==
    /\ sup.at = "start" /\ ~stop
    /\ IF Readable(files.cfg)
       THEN /\ Write(KnowsPeer(files.cfg))
            /\ sup' = IF unit.role = "ap" THEN SupAt("idle") ELSE [sup EXCEPT !.at = "push", !.back = "idle"]
       ELSE sup' = SupAt("idle") /\ UNCHANGED <<chip, stale, left>>
    /\ UNCHANGED <<Process, unit, Disk, tool, mail, led, Ghosts>>

\* lc_peers_push(): an empty list is not pushed.
Push ==
    /\ sup.at = "push"
    /\ LET e == Listed(Effective(files.cfg, files.peers))
       IN  IF e = {} THEN UNCHANGED <<chip, stale, left>> ELSE Write([chip EXCEPT !.cands = e])
    /\ sup' = SupBack
    /\ UNCHANGED <<Process, unit, Disk, tool, mail, led, Ghosts>>

\* lc_drain_forget_request(): lc_peers_forget() reads both files.
DrainForget ==
    /\ sup.at \in {"idle", "conn"} /\ mail # None
    /\ mail' = None
    /\ LET drops == Forgotten(files.cfg, files.peers, mail)
       IN  sup' = IF drops = {} THEN sup
                  ELSE [sup EXCEPT !.at = "save", !.back = sup.at, !.drops = drops, !.list = Without(files.peers, drops)]
    /\ UNCHANGED <<Process, unit, Disk, tool, chip, led, Ghosts, stale, left>>

\* IDLE -> CONNECTED: the hook, and on the ground lc_peers_note_ap_mac() reads both files.
Connect ==
    /\ sup.at = "idle" /\ chip.up
    /\ Hook("connected")
    /\ sup' = IF unit.role = "ap" \/ ~Readable(files.cfg) \/ files.cfg \in Listed(files.peers) THEN SupAt("conn")
              ELSE [sup EXCEPT !.at = "save", !.back = "conn", !.drops = {}, !.list = Remember(files.peers, files.cfg)]
    /\ UNCHANGED <<Process, unit, Disk, tool, chip, mail, Ghosts, stale, left>>

\* peers_save(): the list is renamed into place, as much of it as was written; or the temporary
\* file or the rename fails and nothing is pushed.
Save ==
    /\ sup.at = "save"
    /\ \/ files' = [files EXCEPT !.peers = sup.list] /\ sup' = SupAt("sync") /\ UNCHANGED left
       \/ /\ Spend("faults") /\ sup' = SupAt("sync")
          /\ \E n \in 0..(Len(sup.list) - 1) : files' = [files EXCEPT !.peers = Upto(sup.list, n)]
       \/ Spend("faults") /\ sup' = SupBack /\ UNCHANGED files
    /\ UNCHANGED <<Process, unit, kept, tool, chip, mail, led, Ghosts, stale>>

SaveUnpushed ==
    /\ sup.at = "sync"
    /\ files' = Synced(files) /\ kept' = Synced(files)
    /\ gone' = gone \cup (sup.drops \ {files.cfg})
    /\ sup' = SupBack
    /\ UNCHANGED <<Process, unit, tool, chip, mail, led, told, torn, stale, left>>

SaveSync ==
    /\ sup.at = "sync"
    /\ files' = Synced(files) /\ kept' = Synced(files)
    /\ gone' = gone \cup (sup.drops \ {files.cfg})
    /\ sup' = [sup EXCEPT !.at = "push", !.list = <<>>, !.drops = {}]
    /\ UNCHANGED <<Process, unit, tool, chip, mail, led, told, torn, stale, left>>

\* The first idle tick of a process runs the idle hook, later ones do not.
FirstIdle ==
    /\ sup.at = "idle" /\ ~chip.up /\ ~sup.idled
    /\ sup' = [sup EXCEPT !.idled = TRUE] /\ Hook("idle")
    /\ UNCHANGED <<Process, unit, Disk, tool, chip, mail, Ghosts, stale, left>>

Drop ==
    /\ sup.at = "conn" /\ ~chip.up
    /\ sup' = SupAt("idle") /\ Hook("dropped")
    /\ UNCHANGED <<Process, unit, Disk, tool, chip, mail, Ghosts, stale, left>>

Leave ==
    /\ sup.at \in {"start", "idle", "conn"} /\ stop
    /\ sup' = SupAt("gone")
    /\ UNCHANGED <<Process, unit, Disk, tool, chip, mail, led, Ghosts, stale, left>>

SupStep ==
    ResetPulse \/ ResetDone \/ Start \/ Push \/ DrainForget \/ Connect \/ Save \/ SaveSync \/ FirstIdle \/ Drop \/ Leave

-----------------------------------------------------------------------------
(* Requests, restarts, the radio and the power.                            *)

\* lifecycle_request_forget_peer(): a unit the list has and that is not the current one.
ForgetValid(m) == m # files.cfg /\ m \in Listed(files.peers)

\* POST /api/v1/peers/forget: the HTTP thread, which is not pairing just now, leaves the request in
\* the mailbox, over one not drained yet.
RequestForget(which) ==
    /\ Serving /\ unit.role = "dev" /\ tool["http"].at = "off"
    /\ which = "all" \/ ForgetValid(which)
    /\ mail' = which /\ Spend("forgets")
    /\ UNCHANGED <<Process, unit, Disk, tool, chip, sup, led, Ghosts, stale>>

\* SIGTERM, or lifecycle_request_restart() after a lost session.
RequestStop ==
    /\ ~stop /\ stop' = TRUE /\ Spend("faults")
    /\ UNCHANGED <<button, unit, Disk, tool, chip, sup, mail, led, Ghosts, stale>>

\* main() has joined both threads and starts the program afresh; the HTTP thread's tool goes on.
Reexec ==
    /\ sup.at = "gone" /\ button.at = "gone"
    /\ tool["orphan"].at = "off" \/ tool["http"].at = "off"
    /\ tool' = IF tool["http"].at = "off" THEN tool ELSE [tool EXCEPT !["orphan"] = tool["http"], !["http"] = Off]
    /\ sup' = NewSup /\ button' = ButtonAt("poll") /\ stop' = FALSE /\ mail' = None /\ stale' = FALSE
    /\ UNCHANGED <<unit, Disk, chip, led, Ghosts, left>>

\* Units the chip links to: on the air unit an empty list of candidates is everyone.
Accepted ==
    IF unit.role = "ap" THEN IF chip.cands = {} THEN Macs ELSE chip.cands
    ELSE (chip.cands \cup {chip.ap}) \cap Macs

LinkUp ==
    /\ ~chip.up /\ ~chip.held
    /\ Accepted # {} /\ chip' = [chip EXCEPT !.up = TRUE]
    /\ UNCHANGED <<Process, unit, Disk, tool, sup, mail, led, Ghosts, stale, left>>

LinkDown ==
    /\ chip.up /\ Spend("faults")
    /\ chip' = [chip EXCEPT !.up = FALSE]
    /\ UNCHANGED <<Process, unit, Disk, tool, sup, mail, led, Ghosts, stale>>

PowerCut ==
    /\ Spend("faults")
    /\ \E after \in AfterCut(files, kept) : files' = after /\ kept' = after
    /\ tool' = [c \in Callers |-> Off]
    /\ chip' = BlankChip(FALSE) /\ sup' = NewSup /\ mail' = None /\ led' = "off" /\ stale' = FALSE
    /\ stop' = FALSE /\ button' = PressOver("poll")
    /\ UNCHANGED <<unit, Ghosts>>

\* A press counts against the bound where the thread takes it for one.
ButtonTurn ==
    /\ sup.at # "reset" \/ button.at # "poll"
    /\ ButtonStep
    /\ Hook(IF LongPressFires THEN "longpress" ELSE led)
    /\ IF button.at = "poll" /\ button'.at = "held" THEN Spend("pairs") ELSE UNCHANGED left
    /\ UNCHANGED <<stop, unit, Disk, tool, chip, sup, mail, Ghosts, stale>>

Next ==
    \/ HttpPair \/ ButtonPair \/ \E c \in Callers : ToolStep(c)
    \/ SupStep \/ Reexec \/ ButtonTurn \/ RequestStop \/ LinkUp \/ LinkDown \/ PowerCut
    \/ \E which \in Macs \cup {"all"} : RequestForget(which)

Spec == Init /\ [][Next]_vars

\* The threads and the tools run, the handshake ends, and a unit the chip accepts is in range.
FairSpec ==
    /\ Spec
    /\ WF_vars(SupStep) /\ WF_vars(Reexec) /\ WF_vars(LinkUp)
    /\ WF_vars(ButtonTurn /\ (stop \/ button.at = "lock")) /\ WF_vars(ButtonPair)
    /\ \A c \in Callers : WF_vars(ToolStep(c))

-----------------------------------------------------------------------------
\* Files, tools, chip and supervisor; no peer list longer than MaxPeers or with a MAC twice.
TypeOK ==
    /\ stop \in BOOLEAN /\ stale \in BOOLEAN
    /\ files.cfg \in Macs \cup {None, Empty} /\ files.peers \in Lists /\ kept.peers \in Lists
    /\ tool \in [Callers -> [at : {"off", "hand", "peer", "tmp", "short", "renamed", "marked", "live", "unsaved", "ok", "failed"},
                             mac : Macs \cup {None}]]
    /\ chip.ap \in Macs \cup {None} /\ chip.cands \subseteq Macs /\ chip.up \in BOOLEAN
    /\ sup.at \in {"reset", "start", "push", "save", "sync", "idle", "conn", "gone"} /\ sup.list \in Lists
    /\ mail \in Macs \cup {"all", None}
    /\ led \in {"off", "idle", "pairing", "connected", "dropped", "longpress"}

\* The supervisor is in its loop, every write has taken and no tool is halfway.
AtRest == sup.at \in {"idle", "conn"} /\ ~stale /\ ~torn /\ \A c \in Callers : ~Persisting(c)

\* lifecycle_pair.c: "powering off the air unit immediately after a successful bind left
\* ar8030.json empty on the next boot": as long as every configuration put in place was written as
\* a whole, it has its content whatever a power cut comes between, and once a tool has ended well
\* its peer is in it for good.
PairingSurvives ==
    \/ torn
    \/ files.cfg # Empty /\ (told # None => files.cfg = told /\ kept.cfg = told)

\* "every subsequent boot needs it re-pushed too, or an already-paired unit's chip ... has nothing
\* to autonomously reconnect to": at rest the chip links to the units the files name, but for the
\* oldest of a full list.  A paired air unit accepts its one peer only, never everyone.
ChipKnowsPeers ==
    AtRest /\ files.cfg \in Macs =>
        IF unit.role = "ap" THEN chip.cands = {files.cfg}
        ELSE Listed(Upto(Effective(files.cfg, files.peers), MaxPeers - 1)) \subseteq Accepted

\* README: "stop accepting one remembered air unit": a unit forgotten is refused by the chip until
\* it is paired again, across restarts and power cuts, and whatever is paired meanwhile.
ForgottenRefused == AtRest => gone \cap Accepted = {}

\* "Finish the pulse we already started rather than leaving the reset line asserted": whenever the
\* reset line is asserted the supervisor is still to release it.
ResetCompleted == chip.held => sup.at = "reset"

\* lifecycle_pair.c: without its last hook an attempt "would leave a board's own hooks.d LED state
\* stuck on whatever pairing already set": the pairing hook never has the last word, not even when
\* the process restarts under a tool.
PairingLedEnds == led = "pairing" ~> led # "pairing"

\* A paired unit comes back by itself: in the end, after any restart, power cut and loss of the
\* link, it is linked to a unit its files name and the supervisor knows it.
Reconnects ==
    <>[](files.cfg \in Macs /\ ~stale =>
            sup.at = "conn" /\ chip.up)

\* The chip's candidates, the list the supervisor pushes and the files agree: who is
\* remembered is accepted and who was forgotten is not.
PeersInStep == ChipKnowsPeers /\ ForgottenRefused

\* The two things a hand on the board can leave half done: a press and the reset pulse.
BoardSound == OnePressOneAction /\ ResetCompleted

\* An attempt to pair ends, its light with it, and a paired unit comes back.
PairingSettles == PairingLedEnds /\ Reconnects
====
