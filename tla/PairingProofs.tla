--------------------------- MODULE PairingProofs ---------------------------
(***************************************************************************)
(* Safety of Pairing for every value of its constants: PairingSurvives,    *)
(* along the mutual exclusion of the tools that persist a peer and what    *)
(* each of them has on the disk; BoardSound, the bind button and the reset *)
(* pulse; and PeersInStep, along the files, the list the supervisor works  *)
(* with, what it told and pushed to the chip and what it still has to.     *)
(***************************************************************************)
EXTENDS Pairing, FiniteSetTheorems, TLAPS

-----------------------------------------------------------------------------
(* The inductive invariants *)

\* The configuration names a peer or nobody, and its content is on the flash.
HardFiles(f) == DOMAIN f = {"cfg", "hard", "marker", "peers"} /\ f.hard = TRUE
FilesInv ==
    /\ HardFiles(files)
    /\ kept.cfg \in Macs \cup {None} /\ files.cfg \in Macs \cup {None}

\* One tool at a time is between the handshake and its exit.  From the rename on the
\* configuration names its peer; from the sync on it does so for good.
ToolInv ==
    /\ tool \in [Callers -> [at : {"off", "hand", "peer", "tmp", "short", "renamed", "marked", "live",
                                   "unsaved", "ok", "failed"},
                             mac : Macs \cup {None}]]
    /\ \A c \in Callers :
        /\ Persisting(c) => tool[c].mac \in Macs
        /\ tool[c].at \in {"renamed", "marked", "live"} => files.cfg = tool[c].mac
        /\ tool[c].at = "live" => kept.cfg = tool[c].mac
        /\ \A o \in Callers : Persisting(c) /\ Persisting(o) => c = o

\* All of it until a configuration that was not written as a whole is put in place.
PairInv == FilesInv /\ ToolInv /\ (told # None => files.cfg = told /\ kept.cfg = told)

\* A press that is over leaves nothing behind, and the thread waits for its own tool.
ButtonStates == {"poll", "held", "pair", "pairing", "lock", "gone"}
ButtonFields(b) ==
    /\ b \in [at : ButtonStates, t0 : 0..(TicksPerSec - 1), held : Nat, long : BOOLEAN, acts : Nat]
    /\ b.at \notin {"held", "pair"} => ~b.long /\ b.acts = 0
    /\ b.at = "held" => b.acts = IF b.long THEN 1 ELSE 0
    /\ b.at = "pair" => b.acts = 1 /\ ~b.long
    /\ b.at \in {"held", "pair"} /\ ~b.long => b.held < LongPress * TicksPerSec
    /\ b.long => b.held > (LongPress - 1) * TicksPerSec
ButtonInv ==
    /\ ButtonFields(button)
    /\ tool["button"].at # "off" => button.at = "pairing"

\* The line is asserted only in the middle of the pulse.
PulseInv ==
    /\ {"held", "up", "cands", "ap"} \subseteq DOMAIN chip
    /\ {"at", "back", "list", "drops", "pulse", "idled"} \subseteq DOMAIN sup
    /\ sup.pulse \in Nat
    /\ sup.at # "reset" => sup.pulse = 0
    /\ sup.back \in {"idle", "conn"}
    /\ chip.held => sup.at = "reset" /\ 0 < sup.pulse /\ sup.pulse < PulseSteps[unit.method]

BoardInv == ButtonInv /\ PulseInv

-----------------------------------------------------------------------------
(* PairingSurvives *)

PersistStates == {"peer", "tmp", "short", "renamed", "marked", "live", "unsaved"}
ToolStates == {"off", "hand", "peer", "tmp", "short", "renamed", "marked", "live", "unsaved", "ok", "failed"}
Tools == [Callers -> [at : ToolStates, mac : Macs \cup {None}]]

\* One of the files is replaced.
LEMMA FilesWith ==
  ASSUME NEW f, NEW x, HardFiles(f)
  PROVE  /\ HardFiles(Synced(f)) /\ Synced(f).cfg = f.cfg
         /\ HardFiles([f EXCEPT !.marker = x]) /\ [f EXCEPT !.marker = x].cfg = f.cfg
         /\ HardFiles([f EXCEPT !.peers = x]) /\ [f EXCEPT !.peers = x].cfg = f.cfg
         /\ HardFiles([f EXCEPT !.cfg = x, !.hard = TRUE]) /\ [f EXCEPT !.cfg = x, !.hard = TRUE].cfg = x
<1>1. HardFiles(Synced(f)) /\ Synced(f).cfg = f.cfg  BY DEF HardFiles, Synced
<1>2. HardFiles([f EXCEPT !.marker = x]) /\ [f EXCEPT !.marker = x].cfg = f.cfg  BY DEF HardFiles
<1>3. HardFiles([f EXCEPT !.peers = x]) /\ [f EXCEPT !.peers = x].cfg = f.cfg  BY DEF HardFiles
<1>4. HardFiles([f EXCEPT !.cfg = x, !.hard = TRUE]) /\ [f EXCEPT !.cfg = x, !.hard = TRUE].cfg = x
  BY DEF HardFiles
<1> QED BY <1>1, <1>2, <1>3, <1>4

\* A stored unit before any tool runs.
LEMMA InitPair == Init => PairInv
<1> SUFFICES ASSUME Init PROVE PairInv  OBVIOUS
<1>1. PICK s \in Stored :
        files = [cfg |-> s.cfg, hard |-> TRUE, marker |-> s.marker, peers |-> s.peers]
  BY DEF Init
<1>2. s.cfg \in Macs \cup {None}  BY PairingAssumption
<1>3. FilesInv  BY <1>1, <1>2 DEF FilesInv, HardFiles, Init
<1>4. tool = [c \in Callers |-> [at |-> "off", mac |-> None]] /\ told = None  BY DEF Init, Off
<1>5. ToolInv  BY <1>4 DEF ToolInv, Persisting
<1> QED BY <1>3, <1>4, <1>5 DEF PairInv

\* A tool starts, gives up, ends or is cleared away: the disk and the others are untouched.
LEMMA ToolQuiet ==
  ASSUME PairInv, UNCHANGED <<files, kept, told>>, tool' \in Tools,
         \A c \in Callers : tool'[c] = tool[c] \/ tool'[c].at \notin PersistStates
  PROVE  PairInv'
<1>1. \A c \in Callers : Persisting(c)' => tool'[c] = tool[c] /\ Persisting(c)
  BY DEF Persisting, PersistStates
<1>2. FilesInv /\ ToolInv  BY DEF PairInv
<1>3. FilesInv'  BY <1>2 DEF FilesInv
<1>4. ASSUME NEW c \in Callers
      PROVE  /\ Persisting(c)' => tool'[c].mac \in Macs
             /\ tool'[c].at \in {"renamed", "marked", "live"} => files'.cfg = tool'[c].mac
             /\ tool'[c].at = "live" => kept'.cfg = tool'[c].mac
             /\ \A o \in Callers : Persisting(c)' /\ Persisting(o)' => c = o
  <2>1. tool'[c].at \in {"renamed", "marked", "live"} => Persisting(c)'  BY DEF Persisting
  <2> QED BY <1>1, <1>2, <2>1 DEF ToolInv
<1>5. ToolInv'  BY <1>4 DEF ToolInv, Tools, ToolStates, Persisting
<1> QED BY <1>3, <1>5 DEF PairInv

\* What setting one tool's state does to the function.
LEMMA ToolSet ==
  ASSUME tool \in Tools, NEW c \in Callers, NEW at \in ToolStates, ToolAt(c, at)
  PROVE  /\ tool' \in Tools /\ tool'[c] = [at |-> at, mac |-> tool[c].mac]
         /\ \A o \in Callers \ {c} : tool'[o] = tool[o]
  BY DEF ToolAt, Tools

\* The tool that persists its peer goes on; files and kept are as its new state says.
LEMMA ToolGoesOn ==
  ASSUME PairInv, NEW c \in Callers, tool' \in Tools, FilesInv',
         \A o \in Callers \ {c} : tool'[o] = tool[o] /\ ~Persisting(o),
         tool'[c].mac \in Macs,
         tool'[c].at \in {"renamed", "marked", "live"} => files'.cfg = tool'[c].mac,
         tool'[c].at = "live" => kept'.cfg = tool'[c].mac,
         told' # None => files'.cfg = told' /\ kept'.cfg = told'
  PROVE  PairInv'
<1>1. \A o \in Callers \ {c} : ~Persisting(o)'  BY DEF Persisting
<1>2. ASSUME NEW o \in Callers
      PROVE  /\ Persisting(o)' => tool'[o].mac \in Macs
             /\ tool'[o].at \in {"renamed", "marked", "live"} => files'.cfg = tool'[o].mac
             /\ tool'[o].at = "live" => kept'.cfg = tool'[o].mac
             /\ \A x \in Callers : Persisting(o)' /\ Persisting(x)' => o = x
  <2>1. CASE o = c  BY <1>1, <2>1
  <2>2. CASE o # c
    <3>1. ~Persisting(o)'  BY <1>1, <2>2
    <3>2. tool'[o].at \notin {"renamed", "marked", "live"}  BY <3>1 DEF Persisting
    <3> QED BY <3>1, <3>2
  <2> QED BY <2>1, <2>2
<1>3. ToolInv'  BY <1>2 DEF ToolInv, Tools, ToolStates, Persisting
<1> QED BY <1>3 DEF PairInv

\* A tool in the middle of persisting is alone in that.
LEMMA Alone ==
  ASSUME PairInv, NEW c \in Callers, Persisting(c)
  PROVE  \A o \in Callers \ {c} : ~Persisting(o)
  BY DEF PairInv, ToolInv

\* Every step of a tool keeps the invariant, up to its report, but for a write that fell short.
LEMMA ToolStepPair ==
  ASSUME PairInv, NEW c \in Callers, ToolStep(c), ~torn'
  PROVE  PairInv'
<1>1. FilesInv /\ ToolInv /\ tool \in Tools  BY DEF PairInv, ToolInv, Tools, ToolStates
<1>2. tool[c].mac \in Macs \cup {None} /\ tool[c].at \in ToolStates  BY <1>1 DEF Tools
<1>3. ASSUME NEW at \in ToolStates \ PersistStates, ToolAt(c, at), UNCHANGED <<files, kept, told>>
      PROVE  PairInv'
  <2>1. /\ tool' \in Tools /\ tool'[c] = [at |-> at, mac |-> tool[c].mac]
        /\ \A o \in Callers \ {c} : tool'[o] = tool[o]
    BY <1>1, <1>3, ToolSet
  <2>2. tool'[c].at = at  BY <2>1
  <2>3. \A o \in Callers : tool'[o] = tool[o] \/ tool'[o].at \notin PersistStates  BY <1>3, <2>1, <2>2
  <2> QED BY <1>3, <2>1, <2>3, ToolQuiet
<1>4. CASE Handshake(c)
  <2>1. UNCHANGED <<files, kept, told>>  BY <1>4 DEF Handshake, Disk, Ghosts
  <2>2. CASE ToolAt(c, "failed")
    <3>1. "failed" \in ToolStates \ PersistStates  BY DEF ToolStates, PersistStates
    <3> QED BY <1>3, <2>1, <2>2, <3>1
  <2>3. CASE \E m \in InRange : /\ \A o \in Callers : ~Persisting(o)
                                /\ tool' = [tool EXCEPT ![c] = [at |-> "peer", mac |-> m]]
    <3>1. PICK m \in InRange : /\ \A o \in Callers : ~Persisting(o)
                               /\ tool' = [tool EXCEPT ![c] = [at |-> "peer", mac |-> m]]
      BY <2>3
    <3>2. m \in Macs  BY PairingAssumption
    <3>3. /\ tool' \in Tools /\ tool'[c] = [at |-> "peer", mac |-> m]
          /\ \A o \in Callers \ {c} : tool'[o] = tool[o] /\ ~Persisting(o)
      BY <1>1, <3>1, <3>2 DEF Tools, ToolStates
    <3>4. FilesInv'  BY <1>1, <2>1 DEF FilesInv
    <3>5. told' # None => files'.cfg = told' /\ kept'.cfg = told'  BY <2>1 DEF PairInv
    <3> QED BY <3>2, <3>3, <3>4, <3>5, ToolGoesOn
  <2> QED BY <1>4, <2>2, <2>3 DEF Handshake
<1>5. ASSUME Persisting(c), NEW at \in PersistStates, ToolAt(c, at), FilesInv',
             at \in {"renamed", "marked", "live"} => files'.cfg = tool[c].mac,
             at = "live" => kept'.cfg = tool[c].mac,
             told' # None => files'.cfg = told' /\ kept'.cfg = told'
      PROVE  PairInv'
  <2>1. \A o \in Callers \ {c} : ~Persisting(o)  BY <1>5, Alone
  <2>2. at \in ToolStates  BY DEF PersistStates, ToolStates
  <2>3. tool' \in Tools /\ tool'[c] = [at |-> at, mac |-> tool[c].mac]
        /\ \A o \in Callers \ {c} : tool'[o] = tool[o]
    BY <1>1, <1>5, <2>2, ToolSet
  <2>4. tool[c].mac \in Macs  BY <1>1, <1>5 DEF ToolInv
  <2>5. tool'[c].at = at /\ tool'[c].mac = tool[c].mac  BY <2>3
  <2> QED BY <1>5, <2>1, <2>3, <2>4, <2>5, ToolGoesOn
<1>6. tool[c].at \in PersistStates => Persisting(c)  BY DEF Persisting, PersistStates
<1>7. CASE WriteTmp(c)
  <2>1. UNCHANGED <<files, kept, told>> /\ tool[c].at = "peer"  BY <1>7 DEF WriteTmp, Disk, Ghosts
  <2>2. PICK at \in {"tmp", "short", "failed"} : ToolAt(c, at)  BY <1>7 DEF WriteTmp
  <2>3. CASE at = "failed"
    <3>1. at \in ToolStates \ PersistStates  BY <2>3 DEF ToolStates, PersistStates
    <3> QED BY <1>3, <2>1, <2>2, <3>1
  <2>4. CASE at # "failed"
    <3>1. at \in PersistStates /\ at \notin {"renamed", "marked", "live"} /\ tool[c].at \in PersistStates
      BY <2>1, <2>4 DEF PersistStates
    <3>2. FilesInv' /\ (told' # None => files'.cfg = told' /\ kept'.cfg = told')
      BY <1>1, <2>1 DEF FilesInv, PairInv
    <3> QED BY <1>5, <1>6, <2>2, <3>1, <3>2
  <2> QED BY <2>3, <2>4
<1>8. CASE Rename(c)
  <2>1. tool[c].at \in {"tmp", "short"} /\ kept' = kept /\ tool[c].at \in PersistStates
    BY <1>8 DEF Rename, PersistStates
  <2>2. CASE ToolAt(c, "unsaved") /\ UNCHANGED <<files, Ghosts>>
    <3>1. "unsaved" \in PersistStates  BY DEF PersistStates
    <3>2. FilesInv' /\ (told' # None => files'.cfg = told' /\ kept'.cfg = told')
      BY <1>1, <2>1, <2>2 DEF FilesInv, PairInv, Ghosts
    <3> QED BY <1>5, <1>6, <2>1, <2>2, <3>1, <3>2
  <2>3. CASE ~(ToolAt(c, "unsaved") /\ UNCHANGED <<files, Ghosts>>)
    <3>1. /\ ToolAt(c, "renamed") /\ told' = None
          /\ \E w \in Written(c) : files' = [files EXCEPT !.cfg = w.cfg, !.hard = w.hard]
          /\ torn' = (torn \/ tool[c].at = "short")
      BY <1>8, <2>3 DEF Rename
    <3>2. tool[c].at = "tmp"  BY <2>1, <3>1
    <3>3. files' = [files EXCEPT !.cfg = tool[c].mac, !.hard = TRUE]
      <4>1. PICK w \in Written(c) : files' = [files EXCEPT !.cfg = w.cfg, !.hard = w.hard]  BY <3>1
      <4>2. w = [cfg |-> tool[c].mac, hard |-> TRUE]  BY <3>2 DEF Written
      <4>3. w.cfg = tool[c].mac /\ w.hard = TRUE  BY <4>2
      <4> QED BY <4>1, <4>3, Zenon
    <3>4. tool[c].mac \in Macs  BY <1>1, <1>6, <2>1 DEF ToolInv
    <3>5. FilesInv' /\ files'.cfg = tool[c].mac
      <4>1. HardFiles(files)  BY <1>1 DEF FilesInv
      <4>2. HardFiles(files') /\ files'.cfg = tool[c].mac  BY <3>3, <4>1 DEF HardFiles
      <4> QED BY <1>1, <2>1, <3>4, <4>2 DEF FilesInv
    <3>6. "renamed" \in PersistStates  BY DEF PersistStates
    <3> QED BY <1>5, <1>6, <2>1, <3>1, <3>5, <3>6
  <2> QED BY <2>2, <2>3
<1>9. CASE Mark(c)
  <2>1. /\ tool[c].at = "renamed" /\ ToolAt(c, "marked") /\ UNCHANGED <<told, kept>>
        /\ files' = [files EXCEPT !.marker = TRUE]
    BY <1>9 DEF Mark, Ghosts
  <2>2. "marked" \in PersistStates /\ tool[c].at \in PersistStates  BY <2>1 DEF PersistStates
  <2>3. FilesInv' /\ files'.cfg = files.cfg
    BY <1>1, <2>1, FilesWith DEF FilesInv
  <2>4. files.cfg = tool[c].mac  BY <1>1, <2>1 DEF ToolInv
  <2>5. told' # None => files'.cfg = told' /\ kept'.cfg = told'  BY <2>1, <2>3 DEF PairInv
  <2> QED BY <1>5, <1>6, <2>1, <2>2, <2>3, <2>4, <2>5
<1>10. CASE Sync(c)
  <2>1. /\ tool[c].at = "marked" /\ ToolAt(c, "live") /\ told' = told
        /\ files' = Synced(files) /\ kept' = Synced(files)
    BY <1>10 DEF Sync, Ghosts
  <2>2. "live" \in PersistStates /\ tool[c].at \in PersistStates  BY <2>1 DEF PersistStates
  <2>3. FilesInv' /\ files'.cfg = files.cfg /\ kept'.cfg = files.cfg
    BY <1>1, <2>1, FilesWith DEF FilesInv
  <2>4. files.cfg = tool[c].mac  BY <1>1, <2>1 DEF ToolInv
  <2>5. told' # None => files'.cfg = told' /\ kept'.cfg = told'  BY <2>1, <2>3 DEF PairInv
  <2> QED BY <1>5, <1>6, <2>1, <2>2, <2>3, <2>4, <2>5
<1>11. CASE Live(c)
  <2>1. tool[c].at = "live" /\ ToolAt(c, "ok") /\ told' = tool[c].mac /\ UNCHANGED <<files, kept>>
    BY <1>11 DEF Live, Disk
  <2>2. files.cfg = tool[c].mac /\ kept.cfg = tool[c].mac  BY <1>1, <2>1 DEF ToolInv
  <2>3. tool[c].at \in PersistStates  BY <2>1 DEF PersistStates
  <2>4. tool[c].mac \in Macs  BY <1>1, <1>6, <2>3 DEF ToolInv
  <2>5. "ok" \in ToolStates /\ "ok" \notin {"renamed", "marked", "live"}  BY DEF ToolStates
  <2>6. tool' \in Tools /\ tool'[c] = [at |-> "ok", mac |-> tool[c].mac]
        /\ \A o \in Callers \ {c} : tool'[o] = tool[o]
    BY <1>1, <2>1, <2>5, ToolSet
  <2>7. tool'[c].at = "ok" /\ tool'[c].mac = tool[c].mac  BY <2>6
  <2>8. FilesInv'  BY <1>1, <2>1 DEF FilesInv
  <2>9. \A o \in Callers \ {c} : ~Persisting(o)  BY <1>6, <2>3, Alone
  <2> QED BY <2>1, <2>2, <2>4, <2>5, <2>6, <2>7, <2>8, <2>9, ToolGoesOn
<1>12. CASE LiveUnsaved(c)
  <2>1. ToolAt(c, "failed") /\ UNCHANGED <<files, kept, told>>  BY <1>12 DEF LiveUnsaved, Disk, Ghosts
  <2>2. "failed" \in ToolStates \ PersistStates  BY DEF ToolStates, PersistStates
  <2> QED BY <1>3, <2>1, <2>2
<1>13. CASE Report(c)
  <2>1. tool' = [tool EXCEPT ![c] = Off] /\ UNCHANGED <<files, kept, told>>
    BY <1>13 DEF Report, Disk, Ghosts
  <2>2. tool' \in Tools /\ tool'[c].at = "off" /\ \A o \in Callers \ {c} : tool'[o] = tool[o]
    BY <1>1, <2>1 DEF Tools, ToolStates, Off
  <2>3. \A o \in Callers : tool'[o] = tool[o] \/ tool'[o].at \notin PersistStates
    BY <2>2 DEF PersistStates
  <2> QED BY <2>1, <2>2, <2>3, ToolQuiet
<1> QED BY <1>4, <1>7, <1>8, <1>9, <1>10, <1>11, <1>12, <1>13 DEF ToolStep

\* A power cut or a fresh process leaves the configuration as it was seen or as it was kept.
LEMMA CutPair ==
  ASSUME PairInv, PowerCut
  PROVE  PairInv'
<1>1. FilesInv /\ ToolInv  BY DEF PairInv
<1>2. PICK after \in AfterCut(files, kept) : files' = after /\ kept' = after  BY DEF PowerCut
<1>3. PICK new \in [{"cfg", "marker", "peers"} -> BOOLEAN] :
        after = [cfg |-> IF new["cfg"] THEN (IF files.hard THEN files.cfg ELSE Empty) ELSE kept.cfg,
                 hard |-> TRUE, marker |-> IF new["marker"] THEN files.marker ELSE kept.marker,
                 peers |-> IF new["peers"] THEN files.peers ELSE kept.peers]
  BY DEF AfterCut
<1>4. files.hard = TRUE  BY <1>1 DEF FilesInv, HardFiles
<1>5. after.cfg = files.cfg \/ after.cfg = kept.cfg  BY <1>3, <1>4
<1>6. HardFiles(after)  BY <1>3 DEF HardFiles
<1>7. FilesInv'  BY <1>1, <1>2, <1>5, <1>6 DEF FilesInv
<1>8. told' # None => files'.cfg = told' /\ kept'.cfg = told'
  BY <1>2, <1>5 DEF PowerCut, PairInv, Ghosts
<1>9. tool' = [c \in Callers |-> [at |-> "off", mac |-> None]]  BY DEF PowerCut, Off
<1>10. ToolInv'  BY <1>9 DEF ToolInv, Persisting
<1> QED BY <1>7, <1>8, <1>10 DEF PairInv

\* The tool the HTTP thread waited for goes on without it.
LEMMA ReexecPair ==
  ASSUME PairInv, Reexec
  PROVE  PairInv'
<1>1. FilesInv /\ ToolInv /\ tool \in Tools  BY DEF PairInv, ToolInv, Tools, ToolStates
<1>2. UNCHANGED <<files, kept, told>>  BY DEF Reexec, Disk, Ghosts
<1>3. CASE tool' = tool  BY <1>1, <1>2, <1>3, ToolQuiet
<1>4. CASE /\ tool["orphan"].at = "off"
           /\ tool' = [tool EXCEPT !["orphan"] = tool["http"], !["http"] = Off]
  <2>1. tool'["orphan"] = tool["http"] /\ tool'["http"] = Off /\ tool'["button"] = tool["button"]
    BY <1>1, <1>4 DEF Tools, Callers
  <2>2. tool' \in Tools  BY <1>1, <1>4 DEF Tools, Callers, Off, ToolStates
  <2>3. ~Persisting("orphan") /\ ~Persisting("http")'  BY <1>4, <2>1 DEF Persisting, Off
  <2>4. tool'["http"].at = "off"  BY <2>1 DEF Off
  <2>5. ASSUME NEW c \in Callers, Persisting(c)'
        PROVE  \E o \in Callers : /\ Persisting(o) /\ tool'[c] = tool[o]
                                  /\ (c = "orphan" /\ o = "http") \/ (c = "button" /\ o = "button")
    BY <2>1, <2>3, <2>5 DEF Callers, Persisting
  <2>6. ASSUME NEW c \in Callers
        PROVE  /\ Persisting(c)' => tool'[c].mac \in Macs
               /\ tool'[c].at \in {"renamed", "marked", "live"} => files'.cfg = tool'[c].mac
               /\ tool'[c].at = "live" => kept'.cfg = tool'[c].mac
               /\ \A o \in Callers : Persisting(c)' /\ Persisting(o)' => c = o
    <3>1. tool'[c].at \in {"renamed", "marked", "live"} => Persisting(c)'  BY DEF Persisting
    <3>2. CASE ~Persisting(c)'  BY <3>1, <3>2
    <3>3. CASE Persisting(c)'
      <4>1. PICK o \in Callers : /\ Persisting(o) /\ tool'[c] = tool[o]
                                 /\ (c = "orphan" /\ o = "http") \/ (c = "button" /\ o = "button")
        BY <2>5, <3>3
      <4>2. /\ tool[o].mac \in Macs
            /\ tool[o].at = "live" => kept.cfg = tool[o].mac
            /\ tool[o].at \in {"renamed", "marked", "live"} => files.cfg = tool[o].mac
        BY <1>1, <4>1 DEF ToolInv
      <4>3. ASSUME NEW x \in Callers, Persisting(x)'  PROVE c = x
        <5>1. PICK y \in Callers : /\ Persisting(y) /\ tool'[x] = tool[y]
                                   /\ (x = "orphan" /\ y = "http") \/ (x = "button" /\ y = "button")
          BY <2>5, <4>3
        <5>2. o = y  BY <1>1, <4>1, <5>1 DEF ToolInv
        <5> QED BY <4>1, <5>1, <5>2
      <4> QED BY <1>2, <4>1, <4>2, <4>3
    <3> QED BY <3>2, <3>3
  <2>7. ToolInv'  BY <2>2, <2>6 DEF ToolInv, Tools, ToolStates, Persisting
  <2>8. FilesInv' /\ (told' # None => files'.cfg = told' /\ kept'.cfg = told')
    BY <1>1, <1>2 DEF FilesInv, PairInv
  <2> QED BY <2>7, <2>8 DEF PairInv
<1>5. tool' = tool \/ tool' = [tool EXCEPT !["orphan"] = tool["http"], !["http"] = Off]  BY DEF Reexec
<1>6. tool["orphan"].at = "off" \/ tool' = tool  BY DEF Reexec
<1> QED BY <1>3, <1>4, <1>5, <1>6

\* A step that starts no tool and writes neither the configuration nor the flash.
LEMMA NoToolPair ==
  ASSUME PairInv, UNCHANGED <<files, kept, told, tool>>
  PROVE  PairInv'
<1>1. tool' \in Tools  BY DEF PairInv, ToolInv, Tools, ToolStates
<1> QED BY <1>1, ToolQuiet

\* The supervisor writes the list of peers and syncs; it leaves the configuration alone.
LEMMA SupStepPair ==
  ASSUME PairInv, SupStep
  PROVE  PairInv'
<1>1. FilesInv /\ ToolInv  BY DEF PairInv
<1>2. ASSUME HardFiles(files'), files'.cfg = files.cfg,
             kept'.cfg \in {files.cfg, kept.cfg}, UNCHANGED <<tool, told>>
      PROVE  PairInv'
  <2>3. FilesInv'  BY <1>1, <1>2 DEF FilesInv
  <2>4. told' # None => files'.cfg = told' /\ kept'.cfg = told'  BY <1>2 DEF PairInv
  <2>5. \A c \in Callers : tool'[c].at = "live" => kept'.cfg = tool'[c].mac
    BY <1>1, <1>2 DEF ToolInv
  <2>6. ToolInv'
    <3>1. \A c \in Callers : tool'[c].at \in {"renamed", "marked", "live"} => files'.cfg = tool'[c].mac
      BY <1>1, <1>2 DEF ToolInv
    <3>2. /\ tool' \in [Callers -> [at : ToolStates, mac : Macs \cup {None}]]
          /\ \A c \in Callers : /\ Persisting(c)' => tool'[c].mac \in Macs
                                /\ \A o \in Callers : Persisting(c)' /\ Persisting(o)' => c = o
      BY <1>1, <1>2 DEF ToolInv, ToolStates, Persisting
    <3> QED BY <2>5, <3>1, <3>2 DEF ToolInv, ToolStates
  <2> QED BY <2>3, <2>4, <2>6 DEF PairInv
<1>3. CASE Save
  <2>1. UNCHANGED <<kept, tool, told>>  BY <1>3 DEF Save, Ghosts
  <2>2. CASE UNCHANGED files  BY <2>1, <2>2, NoToolPair
  <2>3. CASE \E l : files' = [files EXCEPT !.peers = l]
    <3>1. PICK l : files' = [files EXCEPT !.peers = l]  BY <2>3
    <3>2. HardFiles(files)  BY <1>1 DEF FilesInv
    <3>3. HardFiles(files') /\ files'.cfg = files.cfg  BY <3>1, <3>2, FilesWith, Zenon
    <3> QED BY <1>2, <2>1, <3>3
  <2> QED BY <1>3, <2>2, <2>3 DEF Save
<1>4. CASE SaveSync
  <2>1. UNCHANGED <<tool, told>> /\ files' = Synced(files) /\ kept' = Synced(files)
    BY <1>4 DEF SaveSync
  <2>2. HardFiles(Synced(files)) /\ Synced(files).cfg = files.cfg  BY <1>1, FilesWith DEF FilesInv
  <2> QED BY <1>2, <2>1, <2>2
<1>5. ASSUME \/ ResetPulse \/ ResetDone \/ Start \/ Push \/ DrainForget \/ Connect
             \/ FirstIdle \/ Drop \/ Leave
      PROVE  UNCHANGED <<files, kept, told, tool>>
  BY <1>5 DEF ResetPulse, ResetDone, Start, Push, DrainForget, Connect, FirstIdle, Drop, Leave,
              Disk, Ghosts
<1> QED BY <1>3, <1>4, <1>5, NoToolPair DEF SupStep

\* What every step keeps of the configuration and the tools.
LEMMA NextPair ==
  ASSUME PairInv, [Next]_vars, ~torn'
  PROVE  PairInv'
<1>1. tool \in Tools  BY DEF PairInv, ToolInv, Tools, ToolStates
<1>2. ASSUME NEW c \in Callers, ToolAt(c, "hand"), UNCHANGED <<files, kept, told>>
      PROVE  PairInv'
  <2>1. "hand" \in ToolStates /\ "hand" \notin PersistStates  BY DEF ToolStates, PersistStates
  <2>2. /\ tool' \in Tools /\ tool'[c] = [at |-> "hand", mac |-> tool[c].mac]
        /\ \A o \in Callers \ {c} : tool'[o] = tool[o]
    BY <1>1, <1>2, <2>1, ToolSet
  <2>3. tool'[c].at = "hand"  BY <2>2
  <2>4. \A o \in Callers : tool'[o] = tool[o] \/ tool'[o].at \notin PersistStates  BY <2>1, <2>2, <2>3
  <2> QED BY <1>2, <2>2, <2>4, ToolQuiet
<1>3. CASE HttpPair
  <2>1. ToolAt("http", "hand") /\ UNCHANGED <<files, kept, told>> /\ "http" \in Callers
    BY <1>3 DEF HttpPair, Disk, Ghosts, Callers
  <2> QED BY <1>2, <2>1
<1>4. CASE ButtonPair
  <2>1. UNCHANGED <<files, kept, told>> /\ "button" \in Callers
    BY <1>4 DEF ButtonPair, Disk, Ghosts, Callers
  <2>2. ToolAt("button", "hand") \/ UNCHANGED tool  BY <1>4 DEF ButtonPair
  <2> QED BY <1>2, <2>1, <2>2, NoToolPair
<1>5. CASE \E which \in Macs \cup {"all"} : RequestForget(which)
  <2>1. UNCHANGED <<files, kept, told, tool>>  BY <1>5 DEF RequestForget, Disk, Ghosts
  <2> QED BY <2>1, NoToolPair
<1>6. ASSUME ButtonTurn \/ RequestStop \/ LinkUp \/ LinkDown \/ UNCHANGED vars
      PROVE  UNCHANGED <<files, kept, told, tool>>
  BY <1>6 DEF ButtonTurn, RequestStop, LinkUp, LinkDown, vars, Disk, Ghosts
<1> QED BY <1>3, <1>4, <1>5, <1>6, ToolStepPair, SupStepPair, ReexecPair, CutPair, NoToolPair DEF Next

\* What was torn once counts as torn.
LEMMA TornStays == torn /\ [Next]_vars => torn'
<1> SUFFICES ASSUME torn, [Next]_vars PROVE torn'  OBVIOUS
<1>1. CASE \E c \in Callers : ToolStep(c)
  BY <1>1 DEF ToolStep, Handshake, WriteTmp, Rename, Mark, Sync, Live, LiveUnsaved, Report, Ghosts
<1>2. CASE SupStep
  BY <1>2 DEF SupStep, ResetPulse, ResetDone, Start, Push, DrainForget, Connect, Save, SaveSync,
              FirstIdle, Drop, Leave, Ghosts
<1>3. CASE \/ HttpPair \/ ButtonPair \/ Reexec \/ ButtonTurn \/ RequestStop \/ LinkUp \/ LinkDown
           \/ PowerCut \/ (\E which \in Macs \cup {"all"} : RequestForget(which)) \/ UNCHANGED vars
  BY <1>3 DEF HttpPair, ButtonPair, Reexec, ButtonTurn, RequestStop, LinkUp, LinkDown, PowerCut,
              RequestForget, vars, Ghosts
<1> QED BY <1>1, <1>2, <1>3 DEF Next

\* lc_pair_persist(): as long as every configuration put in place was written as a whole, no power
\* cut, at whatever point of the write, the rename, the marker and the sync, finds it without its
\* content, and a pairing reported as done is in it for good: for any number of units, tools,
\* presses, restarts and power cuts.
THEOREM PairingSurvivesHolds == Spec => []PairingSurvives
<1>1. torn \/ PairInv => PairingSurvives
  <2>1. ASSUME PairInv PROVE files.cfg # Empty
    BY <2>1, PairingAssumption DEF PairInv, FilesInv, None, Empty
  <2> QED BY <2>1 DEF PairInv, PairingSurvives
<1>2. (torn \/ PairInv) /\ [Next]_vars => (torn \/ PairInv)'  BY NextPair, TornStays
<1> QED BY <1>1, <1>2, InitPair, PTL DEF Spec

-----------------------------------------------------------------------------
(* BoardSound *)

\* A later whole second is later by a second's ticks at least.
LEMMA TimesMono ==
  ASSUME NEW M \in Nat \ {0}, NEW p \in Nat, NEW q \in Nat, p < q
  PROVE  M * p + M <= M * q
<1>1. PICK d \in Nat : q = p + 1 + d
  <2>1. q - p - 1 \in Nat OBVIOUS
  <2> QED BY <2>1
<1>2. M * q = M * p + M + M * d
  BY <1>1
<1>3. M * d \in Nat OBVIOUS
<1> QED BY <1>2, <1>3

\* Whole seconds and reads of the button.
LEMMA SecondsOfReads ==
  ASSUME NEW n \in Nat
  PROVE  n \div TicksPerSec >= LongPress <=> n >= LongPress * TicksPerSec
<1> DEFINE T == TicksPerSec
           d == n \div T
<1>1. T \in Nat \ {0} /\ LongPress \in Nat  BY ButtonAssumption
<1>2. d \in Nat /\ n % T \in 0..(T - 1) /\ n = T * d + (n % T)  BY <1>1
<1>3. T * d \in Nat /\ T * LongPress \in Nat /\ T * LongPress = LongPress * T  BY <1>1, <1>2
<1>4. CASE d < LongPress
  <2>1. T * d + T <= T * LongPress  BY <1>1, <1>2, <1>4, TimesMono
  <2> HIDE DEF d, T
  <2>2. n < LongPress * T  BY <1>1, <1>2, <1>3, <2>1
  <2> QED BY <1>1, <1>2, <1>3, <1>4, <2>2 DEF d, T
<1>5. CASE LongPress < d
  <2>1. T * LongPress + T <= T * d  BY <1>1, <1>2, <1>5, TimesMono
  <2> HIDE DEF d, T
  <2>2. n >= LongPress * T  BY <1>1, <1>2, <1>3, <2>1
  <2> QED BY <1>1, <1>2, <1>3, <1>5, <2>2 DEF d, T
<1>6. CASE d = LongPress
  <2> HIDE DEF d, T
  <2>1. n >= LongPress * T  BY <1>1, <1>2, <1>3, <1>6
  <2> QED BY <1>1, <1>2, <1>3, <1>6, <2>1 DEF d, T
<1> HIDE DEF d, T
<1> QED BY <1>1, <1>2, <1>4, <1>5, <1>6

\* A press that is over.
LEMMA OverFields ==
  ASSUME NEW at \in ButtonStates \ {"held", "pair"}
  PROVE  ButtonFields(PressOver(at)) /\ PressOver(at).at = at
  BY ButtonAssumption DEF ButtonFields, PressOver, ButtonStates

\* Another read while the button is held; the threshold is met or not.
LEMMA HoldFields ==
  ASSUME ButtonFields(button), HoldOn
  PROVE  ButtonFields(button')
<1> DEFINE b == [button EXCEPT !.held = IF @ < MaxHeld THEN @ + 1 ELSE @]
           N == LongPress * TicksPerSec
<1>1. /\ button \in [at : ButtonStates, t0 : 0..(TicksPerSec - 1), held : Nat, long : BOOLEAN, acts : Nat]
      /\ button.at = "held"
  BY DEF ButtonFields, HoldOn
<1>2. /\ b \in [at : ButtonStates, t0 : 0..(TicksPerSec - 1), held : Nat, long : BOOLEAN, acts : Nat]
      /\ b.at = "held" /\ b.long = button.long /\ b.acts = button.acts /\ b.t0 = button.t0
      /\ b.held = IF button.held < MaxHeld THEN button.held + 1 ELSE button.held
  BY <1>1
<1>3. button' = IF Reached(b) THEN [b EXCEPT !.long = TRUE, !.acts = @ + 1] ELSE b  BY DEF HoldOn
<1> HIDE DEF b
<1>4. N \in Nat /\ (LongPress - 1) * TicksPerSec = N - TicksPerSec /\ TicksPerSec \in Nat \ {0}
  BY ButtonAssumption
<1> HIDE DEF N
<1>5. b.t0 + b.held \in Nat /\ b.t0 < TicksPerSec  BY <1>2, <1>4
<1>6. b.held >= button.held  BY <1>1, <1>2
<1>7. CASE button.long
  <2>1. ~Reached(b) /\ button' = b  BY <1>2, <1>3, <1>7 DEF Reached
  <2>2. button.held > (LongPress - 1) * TicksPerSec /\ button.acts = 1  BY <1>1, <1>7 DEF ButtonFields
  <2>3. b.held > (LongPress - 1) * TicksPerSec  BY <1>1, <1>2, <1>4, <1>6, <2>2
  <2> QED BY <1>2, <1>7, <2>1, <2>2, <2>3 DEF ButtonFields
<1>8. CASE ~button.long
  <2>1. button.held < N /\ button.acts = 0  BY <1>1, <1>8 DEF ButtonFields, N
  <2>2. Reached(b) <=> b.t0 + b.held >= N
    BY <1>2, <1>5, <1>8, SecondsOfReads DEF Reached, Elapsed, N
  <2>3. CASE Reached(b)
    <3>1. b.held > N - TicksPerSec  BY <1>2, <1>4, <1>5, <2>2, <2>3
    <3>2. /\ button' \in [at : ButtonStates, t0 : 0..(TicksPerSec - 1), held : Nat, long : BOOLEAN, acts : Nat]
          /\ button'.at = "held" /\ button'.long = TRUE /\ button'.acts = 1 /\ button'.held = b.held
      <4>1. button' = [b EXCEPT !.long = TRUE, !.acts = b.acts + 1]  BY <1>3, <2>3
      <4>2. b.acts + 1 = 1  BY <1>2, <2>1
      <4>3. button' = [b EXCEPT !.long = TRUE, !.acts = 1]  BY <4>1, <4>2
      <4> QED BY <1>2, <4>3
    <3>3. button'.held > (LongPress - 1) * TicksPerSec  BY <1>4, <3>1, <3>2
    <3> QED BY <3>2, <3>3 DEF ButtonFields
  <2>4. CASE ~Reached(b)
    <3>1. button' = b  BY <1>3, <2>4
    <3>2. b.held < N  BY <1>2, <1>4, <1>5, <2>2, <2>4
    <3> QED BY <1>2, <1>8, <2>1, <3>1, <3>2 DEF ButtonFields, N
  <2> QED BY <2>3, <2>4
<1> QED BY <1>7, <1>8

\* Every step of the button's thread but those that pair.
LEMMA ButtonStepFields ==
  ASSUME ButtonFields(button), ButtonStep
  PROVE  ButtonFields(button') /\ button.at # "pairing"
<1> DEFINE Buttons == [at : ButtonStates, t0 : 0..(TicksPerSec - 1), held : Nat, long : BOOLEAN, acts : Nat]
<1>1. button \in Buttons  BY DEF ButtonFields
<1>2. CASE Poll
  <2>1. button.at = "poll" /\ button' = [button EXCEPT !.at = "gone"]  BY <1>2 DEF Poll, ButtonAt
  <2>2. ~button.long /\ button.acts = 0  BY <2>1 DEF ButtonFields
  <2>3. /\ button' \in Buttons /\ button'.at = "gone"
        /\ button'.long = button.long /\ button'.acts = button.acts
    BY <1>1, <2>1 DEF ButtonStates
  <2> QED BY <2>1, <2>2, <2>3 DEF ButtonFields
<1>3. CASE Debounce
  <2>1. PICK t0 \in 0..(TicksPerSec - 1) : button' = [PressOver("held") EXCEPT !.t0 = t0]
    BY <1>3 DEF Debounce
  <2>2. /\ button' \in Buttons /\ button'.at = "held"
        /\ ~button'.long /\ button'.acts = 0 /\ button'.held = 0
    BY <2>1 DEF PressOver, ButtonStates
  <2>3. 0 < LongPress * TicksPerSec  BY ButtonAssumption
  <2> QED BY <1>3, <2>2, <2>3 DEF ButtonFields, Debounce
<1>4. CASE HoldOn  BY <1>4, HoldFields DEF HoldOn
<1>5. CASE Release
  <2>1. CASE button.long
    <3>1. button' = PressOver("lock")  BY <1>5, <2>1 DEF Release
    <3> QED BY <1>5, <3>1, OverFields DEF Release, ButtonStates
  <2>2. CASE ~button.long
    <3>1. button.at = "held" /\ button' = [button EXCEPT !.at = "pair", !.acts = @ + 1]
      BY <1>5, <2>2 DEF Release
    <3>2. button.acts = 0 /\ button.held < LongPress * TicksPerSec  BY <2>2, <3>1 DEF ButtonFields
    <3>3. /\ button' \in Buttons /\ button'.at = "pair" /\ button'.long = button.long
          /\ button'.acts = 1 /\ button'.held = button.held
      <4>1. button' = [button EXCEPT !.at = "pair", !.acts = 1]  BY <3>1, <3>2
      <4> QED BY <1>1, <4>1 DEF ButtonStates
    <3> QED BY <2>2, <3>1, <3>2, <3>3 DEF ButtonFields
  <2> QED BY <2>1, <2>2
<1>6. CASE HeldAtStop
  <2>1. button' = PressOver("gone") /\ button.at = "held"  BY <1>6 DEF HeldAtStop
  <2> QED BY <2>1, OverFields DEF ButtonStates
<1>7. CASE LockoutEnds
  <2>1. button' = PressOver("poll") /\ button.at = "lock"  BY <1>7 DEF LockoutEnds
  <2> QED BY <2>1, OverFields DEF ButtonStates
<1> QED BY <1>2, <1>3, <1>4, <1>5, <1>6, <1>7 DEF ButtonStep

\* The process starts with nobody at the button and a pulse to make.
LEMMA InitBoard == Init => BoardInv
<1> SUFFICES ASSUME Init PROVE BoardInv  OBVIOUS
<1>1. button = PressOver("poll")  BY DEF Init, ButtonInit
<1>2. ButtonFields(button)  BY <1>1, OverFields DEF ButtonStates
<1>3. tool["button"].at = "off"  BY DEF Init, Off, Callers
<1>4. PulseInv  BY DEF Init, PulseInv, BlankChip, NewSup
<1> QED BY <1>2, <1>3, <1>4 DEF BoardInv, ButtonInv

\* What a write to the chip, a failed one included, leaves of its reset line.
LEMMA LineKept ==
  ASSUME PulseInv,
         \/ chip' = chip
         \/ \E x : chip' \in {[chip EXCEPT !.up = x], [chip EXCEPT !.cands = x], [chip EXCEPT !.ap = x]}
  PROVE  chip'.held = chip.held /\ {"held", "up", "cands", "ap"} \subseteq DOMAIN chip'
<1>1. CASE chip' = chip  BY <1>1 DEF PulseInv
<1>2. CASE \E x : chip' \in {[chip EXCEPT !.up = x], [chip EXCEPT !.cands = x], [chip EXCEPT !.ap = x]}
  <2>1. PICK x : chip' \in {[chip EXCEPT !.up = x], [chip EXCEPT !.cands = x], [chip EXCEPT !.ap = x]}
    BY <1>2
  <2> QED BY <2>1 DEF PulseInv
<1> QED BY <1>1, <1>2

\* A write the chip takes is one of those.
LEMMA PeerWritten ==
  ASSUME NEW m, \/ chip' = KnowsPeer(m)
                \/ Write(KnowsPeer(m))
                \/ Write([chip EXCEPT !.cands = m])
                \/ UNCHANGED chip
  PROVE  \/ chip' = chip
         \/ \E x : chip' \in {[chip EXCEPT !.up = x], [chip EXCEPT !.cands = x], [chip EXCEPT !.ap = x]}
<1>1. KnowsPeer(m) \in {[chip EXCEPT !.cands = {m}], [chip EXCEPT !.ap = m]}  BY DEF KnowsPeer
<1>2. \/ chip' = chip \/ chip' = [chip EXCEPT !.cands = {m}]
      \/ chip' = [chip EXCEPT !.ap = m] \/ chip' = [chip EXCEPT !.cands = m]
  BY <1>1 DEF Write
<1> QED BY <1>2, Zenon

\* A step that leaves the supervisor in its place, and the line as it was.
LEMMA PulseQuiet ==
  ASSUME PulseInv, UNCHANGED <<sup, unit>>, chip'.held = chip.held,
         {"held", "up", "cands", "ap"} \subseteq DOMAIN chip'
  PROVE  PulseInv'
  BY DEF PulseInv

\* The supervisor moves on, outside the reset.
LEMMA PulseMoves ==
  ASSUME PulseInv, sup.at # "reset", sup'.at # "reset", UNCHANGED unit, chip'.held = chip.held,
         {"held", "up", "cands", "ap"} \subseteq DOMAIN chip',
         {"at", "back", "list", "drops", "pulse", "idled"} \subseteq DOMAIN sup',
         sup'.pulse = sup.pulse, sup'.back \in {"idle", "conn"}
  PROVE  PulseInv'
  BY DEF PulseInv

\* The supervisor's steps and the reset line.
LEMMA SupStepPulse ==
  ASSUME PulseInv, SupStep
  PROVE  PulseInv'
<1> DEFINE SupFields == {"at", "back", "list", "drops", "pulse", "idled"}
<1>1. /\ {"held", "up", "cands", "ap"} \subseteq DOMAIN chip /\ SupFields \subseteq DOMAIN sup
      /\ sup.back \in {"idle", "conn"} /\ sup.pulse \in Nat
  BY DEF PulseInv
<1>2. UNCHANGED unit
  BY DEF SupStep, ResetPulse, ResetDone, Start, Push, DrainForget, Connect, Save, SaveSync, FirstIdle,
         Drop, Leave
<1>3. CASE ResetPulse
  <2>1. /\ sup.at = "reset" /\ sup.pulse < PulseSteps[unit.method]
        /\ sup' = [sup EXCEPT !.pulse = sup.pulse + 1]
        /\ chip' = BlankChip(sup.pulse + 1 < PulseSteps[unit.method])
    BY <1>3 DEF ResetPulse
  <2>2. /\ sup'.at = "reset" /\ sup'.pulse = sup.pulse + 1 /\ sup'.back = sup.back
        /\ SupFields \subseteq DOMAIN sup'
    BY <1>1, <2>1
  <2>3. /\ chip'.held = (sup.pulse + 1 < PulseSteps[unit.method])
        /\ {"held", "up", "cands", "ap"} \subseteq DOMAIN chip'
    BY <2>1 DEF BlankChip
  <2>4. chip'.held => sup'.pulse < PulseSteps[unit.method]  BY <2>2, <2>3
  <2>5. sup'.pulse \in Nat /\ 0 < sup'.pulse  BY <1>1, <2>2
  <2>6. sup'.back \in {"idle", "conn"} /\ PulseSteps[unit.method]' = PulseSteps[unit.method]
    BY <1>1, <1>2, <2>2
  <2> HIDE DEF SupFields
  <2> QED BY <2>2, <2>3, <2>4, <2>5, <2>6 DEF PulseInv, SupFields
<1>4. CASE ResetDone
  <2>1. /\ sup.at = "reset" /\ sup' = [sup EXCEPT !.at = "start", !.pulse = 0] /\ UNCHANGED chip
        /\ sup.pulse = PulseSteps[unit.method] \/ sup.pulse = 0
    BY <1>4 DEF ResetDone
  <2>2. sup'.at = "start" /\ sup'.pulse = 0 /\ sup'.back = sup.back /\ SupFields \subseteq DOMAIN sup'
    BY <1>1, <2>1
  <2>3. ~chip.held
    <3>1. PulseSteps[unit.method] = sup.pulse => ~(sup.pulse < PulseSteps[unit.method])
      BY <1>1
    <3> QED BY <1>1, <2>1, <3>1 DEF PulseInv
  <2> QED BY <1>1, <1>2, <2>1, <2>2, <2>3 DEF PulseInv
<1>5. ASSUME sup.at # "reset", NEW at, at # "reset", sup'.at = at, sup'.pulse = sup.pulse,
             sup'.back \in {"idle", "conn"}, SupFields \subseteq DOMAIN sup',
             \/ chip' = chip
             \/ \E x : chip' \in {[chip EXCEPT !.up = x], [chip EXCEPT !.cands = x], [chip EXCEPT !.ap = x]}
      PROVE  PulseInv'
  <2>1. chip'.held = chip.held /\ {"held", "up", "cands", "ap"} \subseteq DOMAIN chip'
    BY <1>5, LineKept
  <2> QED BY <1>2, <1>5, <2>1, PulseMoves
<1>6. ASSUME NEW at PROVE /\ SupAt(at).at = at /\ SupAt(at).pulse = sup.pulse
                          /\ SupAt(at).back = sup.back /\ SupFields \subseteq DOMAIN SupAt(at)
  BY <1>1 DEF SupAt
<1>7. /\ SupBack.at = sup.back /\ SupBack.pulse = sup.pulse
      /\ SupBack.back = "idle" /\ SupFields \subseteq DOMAIN SupBack
  BY <1>1 DEF SupBack
<1>8. sup.back # "reset"  BY <1>1
<1>9. CASE Start
  <2>1. sup.at = "start" /\ sup' \in {SupAt("idle"), [sup EXCEPT !.at = "push", !.back = "idle"]}
    BY <1>9 DEF Start
  <2>2. /\ sup'.at \in {"idle", "push"} /\ sup'.pulse = sup.pulse
        /\ sup'.back \in {"idle", "conn"} /\ SupFields \subseteq DOMAIN sup'
    <3>1. CASE sup' = SupAt("idle")  BY <1>1, <1>6, <3>1
    <3>2. CASE sup' = [sup EXCEPT !.at = "push", !.back = "idle"]  BY <1>1, <3>2
    <3> QED BY <2>1, <3>1, <3>2
  <2>3. chip' = chip \/ Write(KnowsPeer(files.cfg))  BY <1>9 DEF Start
  <2> QED BY <1>5, <2>1, <2>2, <2>3, PeerWritten
<1>10. CASE Push
  <2>1. sup.at = "push" /\ sup' = SupBack  BY <1>10 DEF Push
  <2>2. chip' = chip \/ Write([chip EXCEPT !.cands = Listed(Effective(files.cfg, files.peers))])
    BY <1>10 DEF Push
  <2> QED BY <1>1, <1>5, <1>7, <1>8, <2>1, <2>2, PeerWritten
<1>11. CASE DrainForget
  <2> DEFINE drops == Forgotten(files.cfg, files.peers, mail)
  <2>1. /\ sup.at \in {"idle", "conn"} /\ UNCHANGED chip
        /\ \/ sup' = sup
           \/ sup' = [sup EXCEPT !.at = "save", !.back = sup.at, !.drops = drops,
                                 !.list = Without(files.peers, drops)]
    BY <1>11 DEF DrainForget
  <2> HIDE DEF drops
  <2>2. /\ sup'.at \in {sup.at, "save"} /\ sup'.pulse = sup.pulse
        /\ sup'.back \in {"idle", "conn"} /\ SupFields \subseteq DOMAIN sup'
    BY <1>1, <2>1
  <2> QED BY <1>5, <2>1, <2>2
<1>12. CASE Connect
  <2>1. /\ sup.at = "idle" /\ UNCHANGED chip
        /\ \/ sup' = SupAt("conn")
           \/ sup' = [sup EXCEPT !.at = "save", !.back = "conn", !.drops = {},
                                 !.list = Remember(files.peers, files.cfg)]
    BY <1>12 DEF Connect
  <2>2. /\ sup'.at \in {"conn", "save"} /\ sup'.pulse = sup.pulse
        /\ sup'.back \in {"idle", "conn"} /\ SupFields \subseteq DOMAIN sup'
    <3>1. CASE sup' = SupAt("conn")  BY <1>1, <1>6, <3>1
    <3>2. CASE sup' = [sup EXCEPT !.at = "save", !.back = "conn", !.drops = {},
                                  !.list = Remember(files.peers, files.cfg)]
      BY <1>1, <3>2
    <3> QED BY <2>1, <3>1, <3>2
  <2> QED BY <1>5, <2>1, <2>2
<1>13. CASE Save
  <2>1. sup.at = "save" /\ UNCHANGED chip /\ (sup' = SupAt("sync") \/ sup' = SupBack)  BY <1>13 DEF Save
  <2>2. /\ sup'.at \in {"sync", sup.back} /\ sup'.pulse = sup.pulse
        /\ sup'.back \in {"idle", "conn"} /\ SupFields \subseteq DOMAIN sup'
    BY <1>1, <1>6, <1>7, <2>1
  <2> QED BY <1>5, <1>8, <2>1, <2>2
<1>14. CASE SaveSync
  <2>1. /\ sup.at = "sync" /\ UNCHANGED chip
        /\ sup' = [sup EXCEPT !.at = "push", !.list = <<>>, !.drops = {}]
    BY <1>14 DEF SaveSync
  <2>2. /\ sup'.at = "push" /\ sup'.pulse = sup.pulse
        /\ sup'.back \in {"idle", "conn"} /\ SupFields \subseteq DOMAIN sup'
    BY <1>1, <2>1
  <2> QED BY <1>5, <2>1, <2>2
<1>15. CASE FirstIdle
  <2>1. sup.at = "idle" /\ UNCHANGED chip /\ sup' = [sup EXCEPT !.idled = TRUE]  BY <1>15 DEF FirstIdle
  <2>2. /\ sup'.at = "idle" /\ sup'.pulse = sup.pulse
        /\ sup'.back \in {"idle", "conn"} /\ SupFields \subseteq DOMAIN sup'
    BY <1>1, <2>1
  <2> QED BY <1>5, <2>1, <2>2
<1>16. CASE Drop
  <2>1. sup.at = "conn" /\ UNCHANGED chip /\ sup' = SupAt("idle")  BY <1>16 DEF Drop
  <2> QED BY <1>1, <1>5, <1>6, <2>1
<1>17. CASE Leave
  <2>1. sup.at \in {"start", "idle", "conn"} /\ UNCHANGED chip /\ sup' = SupAt("gone")  BY <1>17 DEF Leave
  <2> QED BY <1>1, <1>5, <1>6, <2>1
<1> QED BY <1>3, <1>4, <1>9, <1>10, <1>11, <1>12, <1>13, <1>14, <1>15, <1>16, <1>17 DEF SupStep

\* A step that neither the button's thread nor its tool takes.
LEMMA ButtonQuiet ==
  ASSUME ButtonInv, UNCHANGED button, tool'["button"].at # "off" => tool["button"].at # "off"
  PROVE  ButtonInv'
  BY DEF ButtonInv

\* The tools keep to their states, whatever is on the disk.
LEMMA NextTools == tool \in Tools /\ [Next]_vars => tool' \in Tools
<1> SUFFICES ASSUME tool \in Tools, [Next]_vars PROVE tool' \in Tools  OBVIOUS
<1>1. ASSUME NEW c \in Callers, NEW at \in ToolStates, ToolAt(c, at) PROVE tool' \in Tools
  BY <1>1, ToolSet
<1>2. ASSUME NEW c \in Callers, NEW m \in Macs, tool' = [tool EXCEPT ![c] = [at |-> "peer", mac |-> m]]
      PROVE  tool' \in Tools
  BY <1>2 DEF Tools, ToolStates
<1>3. ASSUME NEW c \in Callers, tool' = [tool EXCEPT ![c] = Off] PROVE tool' \in Tools
  BY <1>3 DEF Tools, ToolStates, Off
<1>4. CASE \E c \in Callers : ToolStep(c)
  <2>1. PICK c \in Callers : ToolStep(c)  BY <1>4
  <2>2. CASE Handshake(c)  BY <1>1, <1>2, <2>2, PairingAssumption DEF Handshake, ToolStates
  <2>3. CASE Report(c)  BY <1>3, <2>3 DEF Report
  <2>4. CASE WriteTmp(c) \/ Rename(c) \/ Mark(c) \/ Sync(c) \/ Live(c) \/ LiveUnsaved(c)
    BY <1>1, <2>4 DEF WriteTmp, Rename, Mark, Sync, Live, LiveUnsaved, ToolStates
  <2> QED BY <2>1, <2>2, <2>3, <2>4 DEF ToolStep
<1>5. CASE SupStep
  <2>1. UNCHANGED tool
    BY <1>5 DEF SupStep, ResetPulse, ResetDone, Start, Push, DrainForget, Connect, Save, SaveSync,
                FirstIdle, Drop, Leave
  <2> QED BY <2>1
<1>6. CASE Reexec
  <2>1. tool' = tool \/ tool' = [tool EXCEPT !["orphan"] = tool["http"], !["http"] = Off]  BY <1>6 DEF Reexec
  <2> QED BY <2>1 DEF Tools, Callers, Off, ToolStates
<1>7. CASE PowerCut  BY <1>7 DEF PowerCut, Tools, ToolStates, Off
<1>8. CASE HttpPair \/ ButtonPair
  BY <1>1, <1>8 DEF HttpPair, ButtonPair, Callers, ToolStates
<1>9. CASE \/ ButtonTurn \/ RequestStop \/ LinkUp \/ LinkDown
           \/ (\E which \in Macs \cup {"all"} : RequestForget(which)) \/ UNCHANGED vars
  BY <1>9 DEF ButtonTurn, RequestStop, LinkUp, LinkDown, RequestForget, vars
<1> QED BY <1>4, <1>5, <1>6, <1>7, <1>8, <1>9 DEF Next

\* The tool of the button runs only while its thread waits for it.
LEMMA ToolStepBoard ==
  ASSUME tool \in Tools, BoardInv, NEW c \in Callers, ToolStep(c)
  PROVE  BoardInv'
<1>1. ButtonInv /\ PulseInv /\ tool \in Tools  BY DEF BoardInv
<1>2. UNCHANGED <<sup, unit>>
  BY DEF ToolStep, Handshake, WriteTmp, Rename, Mark, Sync, Live, LiveUnsaved, Report
<1>3. \/ chip' = chip
      \/ \E x : chip' \in {[chip EXCEPT !.up = x], [chip EXCEPT !.cands = x], [chip EXCEPT !.ap = x]}
  <2>1. CASE Handshake(c)
    <3>1. chip' = chip \/ chip' = [chip EXCEPT !.up = TRUE]  BY <2>1 DEF Handshake
    <3> QED BY <3>1, Zenon
  <2>2. CASE Live(c)  BY <2>2, PeerWritten DEF Live
  <2>3. CASE LiveUnsaved(c)
    <3>1. chip' = chip \/ chip' = KnowsPeer(tool[c].mac)  BY <2>3 DEF LiveUnsaved
    <3> QED BY <3>1, PeerWritten
  <2>4. CASE WriteTmp(c) \/ Rename(c) \/ Mark(c) \/ Sync(c) \/ Report(c)
    BY <2>4 DEF WriteTmp, Rename, Mark, Sync, Report
  <2> QED BY <2>1, <2>2, <2>3, <2>4 DEF ToolStep
<1>4. PulseInv'
  <2>1. chip'.held = chip.held /\ {"held", "up", "cands", "ap"} \subseteq DOMAIN chip'
    BY <1>1, <1>3, LineKept
  <2> QED BY <1>1, <1>2, <2>1, PulseQuiet
<1>5. tool[c].at # "off"
  BY DEF ToolStep, Handshake, WriteTmp, Rename, Mark, Sync, Live, LiveUnsaved, Report
<1>6. \A o \in Callers \ {c} : tool'[o] = tool[o]
  BY <1>1 DEF ToolStep, Handshake, WriteTmp, Rename, Mark, Sync, Live, LiveUnsaved, Report, ToolAt, Tools
<1>7. CASE c = "button" /\ Report(c)
  <2>1. button' = [button EXCEPT !.at = "lock"] /\ tool' = [tool EXCEPT !["button"] = Off]
    BY <1>7 DEF Report, ButtonAt
  <2>2. button.at = "pairing" /\ ButtonFields(button)  BY <1>1, <1>5, <1>7 DEF ButtonInv
  <2>3. button'.at = "lock" /\ ~button'.long /\ button'.acts = 0  BY <2>1, <2>2 DEF ButtonFields
  <2>4. button' \in [at : ButtonStates, t0 : 0..(TicksPerSec - 1), held : Nat, long : BOOLEAN, acts : Nat]
    BY <2>1, <2>2 DEF ButtonFields, ButtonStates
  <2>5. ButtonFields(button')  BY <2>3, <2>4 DEF ButtonFields
  <2>6. tool'["button"].at = "off"  BY <1>1, <2>1 DEF Tools, Callers, Off
  <2> QED BY <1>4, <2>5, <2>6 DEF BoardInv, ButtonInv
<1>8. CASE ~(c = "button" /\ Report(c))
  <2>1. UNCHANGED button
    BY <1>8 DEF ToolStep, Handshake, WriteTmp, Rename, Mark, Sync, Live, LiveUnsaved, Report, Process
  <2>2. "button" \in Callers  BY DEF Callers
  <2>3. tool'["button"].at # "off" => tool["button"].at # "off"  BY <1>5, <1>6, <2>2
  <2> QED BY <1>1, <1>4, <2>1, <2>3, ButtonQuiet DEF BoardInv
<1> QED BY <1>7, <1>8

\* What every step keeps of the button and the reset line.
LEMMA NextBoard ==
  ASSUME tool \in Tools, BoardInv, [Next]_vars
  PROVE  BoardInv'
<1>1. ButtonInv /\ PulseInv /\ tool \in Tools  BY DEF BoardInv
<1>2. ButtonFields(button) /\ "button" \in Callers  BY <1>1 DEF ButtonInv, Callers
<1>3. ASSUME UNCHANGED <<chip, sup, unit>>  PROVE PulseInv'
  BY <1>1, <1>3 DEF PulseInv
<1>4. CASE HttpPair
  <2>1. UNCHANGED <<button, chip, sup, unit>> /\ ToolAt("http", "hand")  BY <1>4 DEF HttpPair, Process
  <2>2. tool'["button"] = tool["button"]  BY <1>1, <2>1 DEF ToolAt, Tools, Callers
  <2> QED BY <1>1, <1>3, <2>1, <2>2, ButtonQuiet DEF BoardInv
<1>5. CASE ButtonPair
  <2>1. UNCHANGED <<chip, sup, unit>> /\ button.at = "pair"  BY <1>5 DEF ButtonPair
  <2>2. tool["button"].at = "off"  BY <1>1, <2>1 DEF ButtonInv
  <2>3. CASE button' = PressOver("pairing")
    <3>1. ButtonFields(button') /\ button'.at = "pairing"  BY <2>3, OverFields DEF ButtonStates
    <3> QED BY <1>3, <2>1, <3>1 DEF BoardInv, ButtonInv
  <2>4. CASE button' = PressOver("lock") /\ UNCHANGED tool
    <3>1. ButtonFields(button')  BY <2>4, OverFields DEF ButtonStates
    <3> QED BY <1>3, <2>1, <2>2, <2>4, <3>1 DEF BoardInv, ButtonInv
  <2> QED BY <1>5, <2>3, <2>4 DEF ButtonPair
<1>6. CASE SupStep
  <2>1. UNCHANGED <<button, tool>>
    BY <1>6 DEF SupStep, ResetPulse, ResetDone, Start, Push, DrainForget, Connect, Save, SaveSync,
                FirstIdle, Drop, Leave, Process
  <2>2. ButtonInv'  BY <1>1, <2>1 DEF ButtonInv
  <2> QED BY <1>1, <1>6, <2>2, SupStepPulse DEF BoardInv
<1>7. CASE Reexec
  <2>1. /\ sup.at = "gone" /\ button.at = "gone" /\ sup' = NewSup /\ UNCHANGED <<chip, unit>>
        /\ button' = [button EXCEPT !.at = "poll"]
    BY <1>7 DEF Reexec, ButtonAt
  <2>2. tool["button"].at = "off"  BY <1>1, <2>1 DEF ButtonInv
  <2>3. tool' = tool \/ tool' = [tool EXCEPT !["orphan"] = tool["http"], !["http"] = Off]
    BY <1>7 DEF Reexec
  <2>4. tool'["button"] = tool["button"]  BY <1>1, <2>3 DEF Tools, Callers
  <2>5. button'.at = "poll" /\ ~button'.long /\ button'.acts = 0  BY <1>2, <2>1 DEF ButtonFields
  <2>6. button' \in [at : ButtonStates, t0 : 0..(TicksPerSec - 1), held : Nat, long : BOOLEAN, acts : Nat]
    BY <1>2, <2>1 DEF ButtonFields, ButtonStates
  <2>7. ButtonFields(button')  BY <2>5, <2>6 DEF ButtonFields
  <2>8. PulseInv'  BY <1>1, <2>1 DEF PulseInv, NewSup
  <2> QED BY <2>2, <2>4, <2>7, <2>8 DEF BoardInv, ButtonInv
<1>8. CASE ButtonTurn
  <2>1. UNCHANGED <<chip, sup, unit, tool>> /\ ButtonStep  BY <1>8 DEF ButtonTurn
  <2>2. ButtonFields(button') /\ button.at # "pairing"  BY <1>2, <2>1, ButtonStepFields
  <2> QED BY <1>1, <1>3, <2>1, <2>2 DEF BoardInv, ButtonInv
<1>9. CASE LinkUp \/ LinkDown
  <2>1. UNCHANGED <<button, tool, sup, unit>>  BY <1>9 DEF LinkUp, LinkDown, Process
  <2>2. chip' = [chip EXCEPT !.up = TRUE] \/ chip' = [chip EXCEPT !.up = FALSE]  BY <1>9 DEF LinkUp, LinkDown
  <2>3. \E x : chip' \in {[chip EXCEPT !.up = x], [chip EXCEPT !.cands = x], [chip EXCEPT !.ap = x]}
    BY <2>2, Zenon
  <2>4. chip'.held = chip.held /\ {"held", "up", "cands", "ap"} \subseteq DOMAIN chip'
    BY <1>1, <2>3, LineKept
  <2> QED BY <1>1, <2>1, <2>4, PulseQuiet, ButtonQuiet DEF BoardInv
<1>10. CASE PowerCut
  <2>1. /\ tool' = [c \in Callers |-> Off] /\ chip' = BlankChip(FALSE) /\ sup' = NewSup
        /\ button' = PressOver("poll")
    BY <1>10 DEF PowerCut
  <2>2. ButtonFields(button')  BY <2>1, OverFields DEF ButtonStates
  <2>3. tool'["button"].at = "off"  BY <1>2, <2>1 DEF Off
  <2>4. PulseInv'  BY <2>1 DEF PulseInv, NewSup, BlankChip
  <2> QED BY <2>2, <2>3, <2>4 DEF BoardInv, ButtonInv
<1>11. CASE \/ RequestStop \/ UNCHANGED vars
            \/ \E which \in Macs \cup {"all"} : RequestForget(which)
  <2>1. UNCHANGED <<button, tool, chip, sup, unit>>  BY <1>11 DEF RequestStop, RequestForget, vars, Process
  <2> QED BY <1>1, <1>3, <2>1, ButtonQuiet DEF BoardInv
<1> QED BY <1>4, <1>5, <1>6, <1>7, <1>8, <1>9, <1>10, <1>11, ToolStepBoard DEF Next

\* lifecycle_bind_thread_main() and lc_gpio_reset_*(): for every threshold, rate of reads and reset
\* method, a press causes one action and the right one, and the reset line is asserted only while
\* the supervisor is in the pulse that releases it.
THEOREM BoardSoundHolds == Spec => []BoardSound
<1>1. BoardInv => BoardSound
  <2> SUFFICES ASSUME BoardInv PROVE BoardSound  OBVIOUS
  <2>1. ButtonFields(button)  BY DEF BoardInv, ButtonInv
  <2>2. button.acts <= 1
    <3>1. button.at \in ButtonStates /\ button.acts \in Nat  BY <2>1 DEF ButtonFields
    <3>2. button.acts \in {0, 1}  BY <2>1, <3>1 DEF ButtonFields
    <3> QED BY <3>2
  <2>3. OnePressOneAction  BY <2>1, <2>2 DEF ButtonFields, OnePressOneAction
  <2>4. ResetCompleted  BY DEF BoardInv, PulseInv, ResetCompleted
  <2> QED BY <2>3, <2>4 DEF BoardSound
<1>2. Init => tool \in Tools /\ BoardInv
  <2>1. ASSUME Init PROVE tool \in Tools
    <3>1. tool = [c \in Callers |-> [at |-> "off", mac |-> None]]  BY <2>1 DEF Init, Off
    <3> QED BY <3>1 DEF Tools, ToolStates
  <2> QED BY <2>1, InitBoard
<1>3. tool \in Tools /\ BoardInv /\ [Next]_vars => (tool \in Tools /\ BoardInv)'  BY NextTools, NextBoard
<1> QED BY <1>1, <1>2, <1>3, PTL DEF Spec

-----------------------------------------------------------------------------
(* Lists of peers *)

Distinct(s) == \A i, j \in DOMAIN s : s[i] = s[j] => i = j

\* A list lc_peers_load() can return: short enough and without repetition.
LEMMA ListFacts ==
  ASSUME NEW s \in Lists
  PROVE  /\ s \in Seq(Macs) /\ Len(s) \in Nat /\ Len(s) <= MaxPeers /\ DOMAIN s = 1 .. Len(s)
         /\ Listed(s) \subseteq Macs /\ Distinct(s)
<1>1. PICK n \in 0..MaxPeers : s \in [1..n -> Macs]  BY DEF Lists
<1>2. n \in Nat /\ n <= MaxPeers  BY PeersAssumption
<1>3. s \in Seq(Macs) /\ Len(s) = n /\ DOMAIN s = 1..n  BY <1>1, <1>2
<1>4. Cardinality(Listed(s)) = n  BY <1>3 DEF Lists
<1>5. s \in Surjection(1..n, Listed(s))  BY <1>1 DEF Surjection, Listed
<1>6. IsFiniteSet(1..n) /\ Cardinality(1..n) = n  BY <1>2, FS_Interval
<1>7. s \in Injection(1..n, Listed(s))  BY <1>4, <1>5, <1>6, FS_SurjSameCardinalityImpliesInj
<1>8. Distinct(s)  BY <1>3, <1>7 DEF Injection, IsInjective, Distinct
<1>9. Listed(s) \subseteq Macs  BY <1>1 DEF Listed
<1> QED BY <1>2, <1>3, <1>8, <1>9

\* And every such sequence is one.
LEMMA ListIntro ==
  ASSUME NEW n \in Nat, n <= MaxPeers, NEW s \in [1..n -> Macs], Distinct(s)
  PROVE  s \in Lists
<1>1. s \in Surjection(1..n, Listed(s))  BY DEF Surjection, Listed
<1>2. s \in Injection(1..n, Listed(s))  BY <1>1 DEF Surjection, Injection, IsInjective, Distinct
<1>3. s \in Bijection(1..n, Listed(s))  BY <1>1, <1>2 DEF Bijection
<1>4. ExistsBijection(1..n, Listed(s))  BY <1>3 DEF ExistsBijection
<1>5. Cardinality(Listed(s)) = n  BY <1>4, FS_CountingElements
<1>6. Len(s) = n  OBVIOUS
<1>7. n \in 0..MaxPeers  BY PeersAssumption
<1> QED BY <1>5, <1>6, <1>7 DEF Lists

\* The places of the entries that stay: each has its own, in 1 .. Cardinality(S), none behind where
\* the entry was, and an entry with x behind the ones that go moves up by those.
LEMMA Places ==
  ASSUME NEW n \in Nat, NEW S \in SUBSET (1..n)
  PROVE  /\ IsFiniteSet(S) /\ Cardinality(S) \in 0..n
         /\ \A i \in S : Place(S, i) \in 1..Cardinality(S) /\ Place(S, i) <= i
         /\ \A i, j \in S : Place(S, i) = Place(S, j) => i = j
         /\ \A k \in 1..Cardinality(S) : \E i \in S : Place(S, i) = k
<1>1. IsFiniteSet(1..n) /\ Cardinality(1..n) = n  BY FS_Interval
<1>2. IsFiniteSet(S) /\ Cardinality(S) \in 0..n
  <2>1. IsFiniteSet(S) /\ Cardinality(S) <= n  BY <1>1, FS_Subset
  <2>2. Cardinality(S) \in Nat  BY <2>1, FS_CardinalityType
  <2> QED BY <2>1, <2>2
<1>0. \A x \in S : x \in Nat /\ 1 <= x  OBVIOUS
<1>3. ASSUME NEW i \in S
      PROVE  /\ Place(S, i) \in 1..Cardinality(S) /\ Place(S, i) <= i
             /\ IsFiniteSet({x \in S : x <= i})
  <2>1. PICK A \in SUBSET S : A = {x \in S : x <= i}  OBVIOUS
  <2>2. IsFiniteSet(A) /\ Cardinality(A) <= Cardinality(S)  BY <1>2, FS_Subset
  <2>3. i \in A  BY <2>1
  <2>4. Cardinality(A) \in Nat /\ Cardinality(A) # 0  BY <2>2, <2>3, FS_EmptySet, FS_CardinalityType
  <2>5. A \in SUBSET (1..i)
    <3>1. \A x \in A : x \in 1..i  BY <1>0, <2>1
    <3> QED BY <3>1
  <2>6. IsFiniteSet(1..i) /\ Cardinality(1..i) = i  BY FS_Interval
  <2>7. Cardinality(A) <= i  BY <2>5, <2>6, FS_Subset
  <2> QED BY <1>2, <2>1, <2>2, <2>4, <2>7 DEF Place
<1>4. ASSUME NEW i \in S, NEW j \in S, i < j PROVE Place(S, i) # Place(S, j)
  <2>1. PICK A : A = {x \in S : x <= i}  OBVIOUS
  <2>2. PICK B : B = {x \in S : x <= j}  OBVIOUS
  <2>3. A \in SUBSET B /\ j \in B /\ j \notin A
    <3>1. i \in Nat /\ j \in Nat  BY <1>0
    <3>2. \A x \in A : x \in B  BY <1>0, <1>4, <2>1, <2>2, <3>1
    <3>3. j \in B /\ j \notin A  BY <1>4, <2>1, <2>2, <3>1
    <3> QED BY <3>2, <3>3
  <2>4. IsFiniteSet(B)  BY <1>3, <2>2
  <2>5. Cardinality(A) # Cardinality(B)  BY <2>3, <2>4, FS_Subset
  <2> QED BY <2>1, <2>2, <2>5 DEF Place
<1>5. ASSUME NEW i \in S, NEW j \in S, Place(S, i) = Place(S, j) PROVE i = j
  <2>1. i < j \/ j < i \/ i = j  OBVIOUS
  <2> QED BY <1>4, <1>5, <2>1
<1>6. ASSUME NEW k \in 1..Cardinality(S) PROVE \E i \in S : Place(S, i) = k
  <2>1. PICK f : f = [i \in S |-> Place(S, i)]  OBVIOUS
  <2>2. PICK T : T = 1..Cardinality(S)  OBVIOUS
  <2>3. f \in [S -> T]  BY <1>3, <2>1, <2>2
  <2>4. \A i, j \in S : f[i] = f[j] => i = j  BY <1>5, <2>1
  <2>5. f \in Injection(S, T)  BY <2>3, <2>4 DEF Injection, IsInjective
  <2>6. Cardinality(S) \in Nat  BY <1>2
  <2>7. IsFiniteSet(T) /\ Cardinality(T) = Cardinality(S)  BY <2>2, <2>6, FS_Interval
  <2>8. f \in Surjection(S, T)  BY <2>5, <2>7, FS_Injection
  <2>9. \E i \in S : f[i] = k  BY <2>2, <2>8 DEF Surjection
  <2> QED BY <2>1, <2>9
<1> QED BY <1>2, <1>3, <1>5, <1>6

\* What stays of a list.
LEMMA WithoutFacts ==
  ASSUME NEW s \in Lists, NEW g
  PROVE  /\ Without(s, g) \in Lists /\ Listed(Without(s, g)) = Listed(s) \ g
         /\ Len(Without(s, g)) = Cardinality(Stays(s, g))
         /\ \A i \in Stays(s, g) : Place(Stays(s, g), i) \in 1..Len(Without(s, g))
                                   /\ Without(s, g)[Place(Stays(s, g), i)] = s[i]
         /\ \A k \in 1..Len(Without(s, g)) :
               \E i \in Stays(s, g) : Place(Stays(s, g), i) = k /\ Without(s, g)[k] = s[i]
<1>1. /\ s \in Seq(Macs) /\ Len(s) \in Nat /\ Len(s) <= MaxPeers /\ DOMAIN s = 1 .. Len(s) /\ Distinct(s)
  BY ListFacts
<1>2. PICK S : S = Stays(s, g)  OBVIOUS
<1>3. S \in SUBSET (1 .. Len(s)) /\ \A i \in S : s[i] \in Macs \ g  BY <1>1, <1>2 DEF Stays
<1>4. /\ Cardinality(S) \in 0..Len(s)
      /\ \A i \in S : Place(S, i) \in 1..Cardinality(S)
      /\ \A i, j \in S : Place(S, i) = Place(S, j) => i = j
      /\ \A k \in 1..Cardinality(S) : \E i \in S : Place(S, i) = k
  BY <1>1, <1>3, Places
<1>5. PICK at \in [1..Cardinality(S) -> S] : \A k \in 1..Cardinality(S) : Place(S, at[k]) = k
  <2>1. PICK at : at = [k \in 1..Cardinality(S) |-> CHOOSE i \in S : Place(S, i) = k]  OBVIOUS
  <2>2. \A k \in 1..Cardinality(S) : at[k] \in S /\ Place(S, at[k]) = k  BY <1>4, <2>1
  <2>3. at \in [1..Cardinality(S) -> S]  BY <2>1, <2>2
  <2> QED BY <2>2, <2>3
<1>6. PICK w : w = Without(s, g)  OBVIOUS
<1>7. w = [k \in 1..Cardinality(S) |-> s[at[k]]]
  <2>1. \A k \in 1..Cardinality(S) : (CHOOSE i \in S : Place(S, i) = k) = at[k]
    <3> SUFFICES ASSUME NEW k \in 1..Cardinality(S) PROVE (CHOOSE i \in S : Place(S, i) = k) = at[k]
      OBVIOUS
    <3>1. at[k] \in S /\ Place(S, at[k]) = k  BY <1>5
    <3>2. (CHOOSE i \in S : Place(S, i) = k) \in S /\ Place(S, CHOOSE i \in S : Place(S, i) = k) = k
      BY <3>1
    <3> QED BY <1>4, <3>1, <3>2
  <2>2. w = [k \in 1..Cardinality(S) |-> s[CHOOSE i \in S : Place(S, i) = k]]  BY <1>2, <1>6 DEF Without
  <2> QED BY <2>1, <2>2
<1>8. w \in [1..Cardinality(S) -> Macs] /\ Cardinality(S) \in Nat /\ Cardinality(S) <= MaxPeers
  <2>1. Cardinality(S) \in Nat /\ Cardinality(S) <= MaxPeers  BY <1>1, <1>4, PeersAssumption
  <2>2. \A k \in 1..Cardinality(S) : s[at[k]] \in Macs  BY <1>3, <1>5
  <2> QED BY <1>7, <2>1, <2>2
<1>9. Len(w) = Cardinality(S) /\ DOMAIN w = 1..Cardinality(S)  BY <1>8
<1>10. \A k \in 1..Cardinality(S) : at[k] \in S /\ at[k] \in DOMAIN s /\ w[k] = s[at[k]]
  BY <1>1, <1>3, <1>5, <1>7
<1>11. \A i \in S : at[Place(S, i)] = i
  <2> SUFFICES ASSUME NEW i \in S PROVE at[Place(S, i)] = i  OBVIOUS
  <2>1. PICK k \in 1..Cardinality(S) : k = Place(S, i)  BY <1>4
  <2>2. Place(S, at[k]) = k /\ at[k] \in S  BY <1>5
  <2> QED BY <1>4, <2>1, <2>2
<1>12. Distinct(w)
  <2> SUFFICES ASSUME NEW k \in 1..Cardinality(S), NEW m \in 1..Cardinality(S), w[k] = w[m] PROVE k = m
    BY <1>9 DEF Distinct
  <2>1. at[k] = at[m]  BY <1>1, <1>10 DEF Distinct
  <2> QED BY <1>5, <2>1
<1>13. w \in Lists  BY <1>8, <1>12, ListIntro
<1>14. \A i \in S : Place(S, i) \in 1..Len(w) /\ w[Place(S, i)] = s[i]  BY <1>4, <1>9, <1>10, <1>11
<1>15. \A k \in 1..Len(w) : \E i \in S : Place(S, i) = k /\ w[k] = s[i]  BY <1>5, <1>9, <1>10
<1>16. Listed(w) = Listed(s) \ g
  <2>1. ASSUME NEW x \in Listed(w) PROVE x \in Listed(s) \ g
    <3>1. PICK k \in 1..Cardinality(S) : x = w[k]  BY <1>9 DEF Listed
    <3> QED BY <1>3, <1>10, <3>1 DEF Listed
  <2>2. ASSUME NEW x \in Listed(s) \ g PROVE x \in Listed(w)
    <3>1. PICK i \in DOMAIN s : x = s[i]  BY DEF Listed
    <3>2. i \in S  BY <1>2, <3>1 DEF Stays
    <3>3. Place(S, i) \in DOMAIN w /\ w[Place(S, i)] = x  BY <1>4, <1>9, <1>14, <3>1, <3>2
    <3> QED BY <3>3 DEF Listed
  <2> QED BY <2>1, <2>2
<1> QED BY <1>2, <1>6, <1>9, <1>13, <1>14, <1>15, <1>16

\* The first entries of a list.
LEMMA UptoFacts ==
  ASSUME NEW T, NEW s \in Seq(T), NEW n \in Nat
  PROVE  /\ Upto(s, n) \in Seq(T) /\ Len(Upto(s, n)) <= n /\ Len(Upto(s, n)) <= Len(s)
         /\ \A i \in 1..Len(Upto(s, n)) : Upto(s, n)[i] = s[i]
         /\ \A i \in 1..Len(s) : i <= n => i \in 1..Len(Upto(s, n))
<1>1. PICK m \in Nat : m = IF Len(s) < n THEN Len(s) ELSE n  OBVIOUS
<1>2. m <= n /\ m <= Len(s) /\ \A i \in 1..Len(s) : i <= n => i \in 1..m  BY <1>1
<1>3. Upto(s, n) = SubSeq(s, 1, m)  BY <1>1 DEF Upto
<1>4. SubSeq(s, 1, m) \in Seq(T) /\ Len(SubSeq(s, 1, m)) = m  BY <1>2
<1>5. \A i \in 1..m : SubSeq(s, 1, m)[i] = s[i]  BY <1>2
<1> QED BY <1>2, <1>3, <1>4, <1>5

\* What is left of a list that was cut short is a list.
LEMMA UptoLists ==
  ASSUME NEW s \in Lists, NEW n \in Nat
  PROVE  Upto(s, n) \in Lists /\ Listed(Upto(s, n)) \subseteq Listed(s)
<1>1. /\ s \in Seq(Macs) /\ Len(s) \in Nat /\ Len(s) <= MaxPeers /\ DOMAIN s = 1 .. Len(s) /\ Distinct(s)
  BY ListFacts
<1>2. PICK u : u = Upto(s, n)  OBVIOUS
<1>3. u \in Seq(Macs) /\ Len(u) <= Len(s) /\ \A i \in 1..Len(u) : u[i] = s[i]
  BY <1>1, <1>2, UptoFacts
<1>4. PICK m \in Nat : m = Len(u)  BY <1>3
<1>5. u \in [1..m -> Macs] /\ m <= MaxPeers  BY <1>1, <1>3, <1>4, PeersAssumption
<1>6. \A i \in 1..m : i \in DOMAIN s /\ u[i] = s[i]  BY <1>1, <1>3, <1>4
<1>7. Distinct(u)  BY <1>1, <1>5, <1>6 DEF Distinct
<1>8. u \in Lists  BY <1>5, <1>7, ListIntro
<1>9. Listed(u) \subseteq Listed(s)  BY <1>5, <1>6 DEF Listed
<1> QED BY <1>2, <1>8, <1>9

\* lc_peers_note_ap_mac() keeps to the lists.
LEMMA RememberFacts ==
  ASSUME NEW s \in Lists, NEW ap \in Macs
  PROVE  Remember(s, ap) \in Lists /\ Listed(Remember(s, ap)) \subseteq Listed(s) \cup {ap}
<1>1. CASE ap \in Listed(s)  BY <1>1 DEF Remember
<1>2. CASE ap \notin Listed(s)
  <2>1. /\ s \in Seq(Macs) /\ Len(s) \in Nat /\ Len(s) <= MaxPeers /\ DOMAIN s = 1 .. Len(s) /\ Distinct(s)
    BY ListFacts
  <2>2. MaxPeers \in Nat \ {0} /\ MaxPeers - 1 \in Nat  BY PeersAssumption
  <2>3. PICK u : u = Upto(s, MaxPeers - 1)  OBVIOUS
  <2>4. /\ u \in Seq(Macs) /\ Len(u) <= MaxPeers - 1 /\ Len(u) <= Len(s)
        /\ \A i \in 1..Len(u) : u[i] = s[i]
    BY <2>1, <2>2, <2>3, UptoFacts
  <2>5. PICK n \in Nat : n = Len(u) + 1  BY <2>4
  <2>6. PICK l : l = Remember(s, ap)  OBVIOUS
  <2>7. l = <<ap>> \o u  BY <1>2, <2>3, <2>6 DEF Remember
  <2>8. l \in Seq(Macs) /\ Len(l) = n  BY <2>4, <2>5, <2>7
  <2>9. l[1] = ap /\ \A i \in 2..n : l[i] = u[i - 1]  BY <2>4, <2>5, <2>7
  <2>10. l \in [1..n -> Macs] /\ n <= MaxPeers  BY <2>2, <2>4, <2>5, <2>8
  <2>11. \A i \in 2..n : i - 1 \in DOMAIN s /\ l[i] = s[i - 1] /\ l[i] \in Listed(s)
    <3> SUFFICES ASSUME NEW i \in 2..n PROVE i - 1 \in DOMAIN s /\ l[i] = s[i - 1] /\ l[i] \in Listed(s)
      OBVIOUS
    <3>1. i - 1 \in 1..Len(u) /\ i - 1 \in DOMAIN s  BY <2>1, <2>4, <2>5
    <3>2. l[i] = s[i - 1]  BY <2>4, <2>9, <3>1
    <3> QED BY <3>1, <3>2 DEF Listed
  <2>12. Distinct(l)
    <3> SUFFICES ASSUME NEW i \in 1..n, NEW j \in 1..n, l[i] = l[j] PROVE i = j
      BY <2>10 DEF Distinct
    <3>1. CASE i = 1 /\ j = 1  BY <3>1
    <3>2. CASE i = 1 /\ j # 1
      <4>1. j \in 2..n  BY <3>2
      <4> QED BY <1>2, <2>9, <2>11, <3>2, <4>1
    <3>3. CASE i # 1 /\ j = 1
      <4>1. i \in 2..n  BY <3>3
      <4> QED BY <1>2, <2>9, <2>11, <3>3, <4>1
    <3>4. CASE i # 1 /\ j # 1
      <4>1. i \in 2..n /\ j \in 2..n  BY <3>4
      <4>2. s[i - 1] = s[j - 1] /\ i - 1 \in DOMAIN s /\ j - 1 \in DOMAIN s  BY <2>11, <4>1
      <4>3. i - 1 = j - 1  BY <2>1, <4>2 DEF Distinct
      <4> QED BY <4>3
    <3> QED BY <3>1, <3>2, <3>3, <3>4
  <2>13. l \in Lists  BY <2>10, <2>12, ListIntro
  <2>14. Listed(l) \subseteq Listed(s) \cup {ap}
    <3> SUFFICES ASSUME NEW x \in Listed(l) PROVE x \in Listed(s) \cup {ap}  OBVIOUS
    <3>1. PICK i \in 1..n : x = l[i]  BY <2>10 DEF Listed
    <3>2. i = 1 \/ i \in 2..n  OBVIOUS
    <3> QED BY <2>9, <2>11, <3>1, <3>2
  <2> QED BY <2>6, <2>13, <2>14
<1> QED BY <1>1, <1>2

\* peers_effective(): the current peer, and as many of the others as there is room for.
LEMMA EffectiveFacts ==
  ASSUME NEW s \in Lists, NEW c \in Macs
  PROVE  LET w == Without(s, {c}) e == Effective(c, s)
         IN  /\ e \in Seq(Macs) /\ Len(e) \in 1..MaxPeers /\ e[1] = c
             /\ \A i \in 2..Len(e) : i - 1 \in 1..Len(w) /\ e[i] = w[i - 1]
             /\ \A k \in 1..Len(w) : k < MaxPeers => k + 1 \in 2..Len(e) /\ e[k + 1] = w[k]
<1>1. PICK w : w = Without(s, {c})  OBVIOUS
<1>2. w \in Lists  BY <1>1, WithoutFacts
<1>3. w \in Seq(Macs) /\ Len(w) \in Nat  BY <1>2, ListFacts
<1>4. PICK l : l = <<c>> \o w  OBVIOUS
<1>5. l \in Seq(Macs) /\ Len(l) = Len(w) + 1 /\ l[1] = c  BY <1>3, <1>4
<1>6. \A i \in 2..Len(l) : l[i] = w[i - 1]  BY <1>3, <1>4
<1>7. PICK e : e = Effective(c, s)  OBVIOUS
<1>8. e = Upto(l, MaxPeers)  BY <1>1, <1>4, <1>7 DEF Effective, Readable
<1>9. MaxPeers \in Nat \ {0}  BY PeersAssumption
<1>10. /\ e \in Seq(Macs) /\ Len(e) <= MaxPeers /\ Len(e) <= Len(l)
       /\ \A i \in 1..Len(e) : e[i] = l[i]
       /\ \A i \in 1..Len(l) : i <= MaxPeers => i \in 1..Len(e)
  BY <1>5, <1>8, <1>9, UptoFacts
<1>11. 1 \in 1..Len(l) /\ 1 <= MaxPeers  BY <1>3, <1>5, <1>9
<1>12. Len(e) \in 1..MaxPeers /\ e[1] = c  BY <1>5, <1>9, <1>10, <1>11
<1>13. ASSUME NEW i \in 2..Len(e) PROVE i - 1 \in 1..Len(w) /\ e[i] = w[i - 1]
  <2>1. i \in 1..Len(e) /\ i \in 2..Len(l) /\ i - 1 \in 1..Len(w)  BY <1>3, <1>5, <1>10
  <2> QED BY <1>6, <1>10, <2>1
<1>14. ASSUME NEW k \in 1..Len(w), k < MaxPeers PROVE k + 1 \in 2..Len(e) /\ e[k + 1] = w[k]
  <2>1. k + 1 \in 1..Len(l) /\ k + 1 <= MaxPeers /\ k + 1 \in 2..Len(l)  BY <1>3, <1>5, <1>9, <1>14
  <2>2. k + 1 \in 1..Len(e)  BY <1>10, <2>1
  <2>3. e[k + 1] = l[k + 1]  BY <1>10, <2>2
  <2>4. l[k + 1] = w[(k + 1) - 1] /\ (k + 1) - 1 = k  BY <1>6, <2>1
  <2> QED BY <2>2, <2>3, <2>4
<1> QED BY <1>1, <1>7, <1>10, <1>12, <1>13, <1>14

\* Whom the chip knows by a push: the current peer and remembered ones only.
LEMMA EffectiveListed ==
  ASSUME NEW s \in Lists, NEW c \in Macs
  PROVE  c \in Listed(Effective(c, s)) /\ Listed(Effective(c, s)) \subseteq Listed(s) \cup {c}
<1>1. PICK w : w = Without(s, {c})  OBVIOUS
<1>2. PICK e : e = Effective(c, s)  OBVIOUS
<1>3. /\ e \in Seq(Macs) /\ Len(e) \in 1..MaxPeers /\ e[1] = c
      /\ \A i \in 2..Len(e) : i - 1 \in 1..Len(w) /\ e[i] = w[i - 1]
  BY <1>1, <1>2, EffectiveFacts
<1>4. w \in Lists /\ Listed(w) \subseteq Listed(s)  BY <1>1, WithoutFacts
<1>5. DOMAIN w = 1..Len(w)  BY <1>4, ListFacts
<1>6. DOMAIN e = 1..Len(e) /\ 1 \in 1..Len(e)  BY <1>3, PeersAssumption
<1>7. c \in Listed(e)  BY <1>3, <1>6 DEF Listed
<1>8. ASSUME NEW x \in Listed(e) PROVE x \in Listed(s) \cup {c}
  <2>1. PICK i \in 1..Len(e) : x = e[i]  BY <1>6 DEF Listed
  <2>2. CASE i = 1  BY <1>3, <2>1, <2>2
  <2>3. CASE i # 1
    <3>1. i \in 2..Len(e)  BY <2>3
    <3>2. i - 1 \in DOMAIN w /\ x = w[i - 1]  BY <1>3, <1>5, <2>1, <3>1
    <3>3. x \in Listed(w)  BY <3>2 DEF Listed
    <3> QED BY <1>4, <3>3
  <2> QED BY <2>2, <2>3
<1> QED BY <1>2, <1>7, <1>8

\* One entry of a list goes, and the others move up by one place at most.
LEMMA PlaceBehind ==
  ASSUME NEW s \in Lists, NEW c, NEW i \in Stays(s, {c})
  PROVE  i \in Nat /\ Place(Stays(s, {c}), i) \in Nat /\ i <= Place(Stays(s, {c}), i) + 1
         /\ Place(Stays(s, {c}), i) <= i
<1>1. Len(s) \in Nat /\ DOMAIN s = 1 .. Len(s) /\ Distinct(s)  BY ListFacts
<1>2. PICK S : S = Stays(s, {c})  OBVIOUS
<1>3. S \in SUBSET (1..Len(s)) /\ i \in S  BY <1>1, <1>2 DEF Stays
<1>4. i \in Nat /\ i \in 1..Len(s) /\ IsFiniteSet(S) /\ Place(S, i) \in 1..Cardinality(S) /\ Place(S, i) <= i
      /\ Cardinality(S) \in Nat
  BY <1>1, <1>3, Places
<1>5. PICK A : A = {j \in S : j <= i}  OBVIOUS
<1>6. A \in SUBSET S  BY <1>5
<1>7. IsFiniteSet(A) /\ Cardinality(A) \in Nat  BY <1>4, <1>6, FS_Subset, FS_CardinalityType
<1>8. IsFiniteSet(1..i) /\ Cardinality(1..i) = i  BY <1>4, FS_Interval
<1>9. \E x : 1..i \subseteq A \cup {x}
  <2>1. CASE \E x \in 1..i : s[x] = c
    <3>1. PICK x \in 1..i : s[x] = c  BY <2>1
    <3>2. ASSUME NEW y \in 1..i, y # x PROVE y \in A
      <4>1. y \in DOMAIN s /\ x \in DOMAIN s /\ y <= i  BY <1>1, <1>4
      <4>2. s[y] # c  BY <1>1, <3>1, <3>2, <4>1 DEF Distinct
      <4>3. y \in S  BY <1>2, <4>1, <4>2 DEF Stays
      <4> QED BY <1>5, <4>1, <4>3
    <3> QED BY <3>2
  <2>2. CASE ~ \E x \in 1..i : s[x] = c
    <3>1. ASSUME NEW y \in 1..i PROVE y \in A
      <4>1. y \in DOMAIN s /\ y <= i /\ s[y] # c  BY <1>1, <1>4, <2>2
      <4>2. y \in S  BY <1>2, <4>1 DEF Stays
      <4> QED BY <1>5, <4>1, <4>2
    <3> QED BY <3>1
  <2> QED BY <2>1, <2>2
<1>10. PICK x : 1..i \subseteq A \cup {x}  BY <1>9
<1>11. IsFiniteSet(A \cup {x}) /\ Cardinality(A \cup {x}) <= Cardinality(A) + 1
  BY <1>7, FS_AddElement
<1>12. i <= Cardinality(A \cup {x})
  <2>1. PICK I : I = 1..i  OBVIOUS
  <2>2. PICK B : B = A \cup {x}  OBVIOUS
  <2>3. IsFiniteSet(B) /\ I \in SUBSET B  BY <1>10, <1>11, <2>1, <2>2
  <2>4. Cardinality(I) <= Cardinality(B)  BY <2>3, FS_Subset
  <2>5. Cardinality(I) = i  BY <1>8, <2>1
  <2> QED BY <2>2, <2>4, <2>5
<1>13. Cardinality(A \cup {x}) \in Nat  BY <1>11, FS_CardinalityType
<1>14. i <= Cardinality(A) + 1  BY <1>4, <1>7, <1>11, <1>12, <1>13
<1> QED BY <1>2, <1>4, <1>5, <1>7, <1>14 DEF Place

\* A push for one peer serves the list of a later one, but for that peer and the oldest of a full
\* list.
LEMMA PushServes ==
  ASSUME NEW s \in Lists, NEW c \in Macs, NEW d \in Macs
  PROVE  Listed(Upto(Effective(d, s), MaxPeers - 1)) \subseteq Listed(Effective(c, s)) \cup {d}
<1>1. PICK v : v = Without(s, {c})  OBVIOUS
<1>2. PICK w : w = Without(s, {d})  OBVIOUS
<1>3. PICK e : e = Effective(c, s)  OBVIOUS
<1>4. PICK f : f = Effective(d, s)  OBVIOUS
<1>5. /\ e \in Seq(Macs) /\ Len(e) \in 1..MaxPeers /\ e[1] = c
      /\ \A k \in 1..Len(v) : k < MaxPeers => k + 1 \in 2..Len(e) /\ e[k + 1] = v[k]
  BY <1>1, <1>3, EffectiveFacts
<1>6. /\ f \in Seq(Macs) /\ Len(f) \in 1..MaxPeers /\ f[1] = d
      /\ \A i \in 2..Len(f) : i - 1 \in 1..Len(w) /\ f[i] = w[i - 1]
  BY <1>2, <1>4, EffectiveFacts
<1>7. MaxPeers \in Nat \ {0} /\ MaxPeers - 1 \in Nat  BY PeersAssumption
<1>8. PICK u : u = Upto(f, MaxPeers - 1)  OBVIOUS
<1>9. u \in Seq(Macs) /\ Len(u) <= MaxPeers - 1 /\ Len(u) <= Len(f) /\ \A i \in 1..Len(u) : u[i] = f[i]
  BY <1>6, <1>7, <1>8, UptoFacts
<1>10. DOMAIN u = 1..Len(u) /\ Len(u) \in Nat /\ DOMAIN e = 1..Len(e) /\ Len(e) \in Nat  BY <1>5, <1>9
<1>11. ASSUME NEW x \in Listed(u) PROVE x \in Listed(e) \cup {d}
  <2>1. PICK i \in 1..Len(u) : x = u[i]  BY <1>10 DEF Listed
  <2>2. x = f[i] /\ i \in Nat /\ i < MaxPeers  BY <1>7, <1>9, <1>10, <2>1
  <2>3. CASE i = 1  BY <1>6, <2>2, <2>3
  <2>4. CASE i # 1
    <3>1. i \in 2..Len(f)  BY <1>6, <1>9, <1>10, <2>1, <2>4
    <3>2. PICK k \in 1..Len(w) : k = i - 1 /\ x = w[k]  BY <1>6, <2>2, <3>1
    <3>3. PICK j \in Stays(s, {d}) : Place(Stays(s, {d}), j) = k /\ x = s[j]
      BY <1>2, <3>2, WithoutFacts
    <3>4. j \in Nat /\ j <= Place(Stays(s, {d}), j) + 1  BY PlaceBehind
    <3>5. j < MaxPeers  BY <1>7, <2>2, <3>2, <3>3, <3>4
    <3>6. CASE x = c
      <4>1. 1 \in DOMAIN e  BY <1>5, <1>10
      <4> QED BY <1>5, <3>6, <4>1 DEF Listed
    <3>7. CASE x # c
      <4>1. j \in Stays(s, {c})  BY <3>3, <3>7 DEF Stays
      <4>2. PICK m : m = Place(Stays(s, {c}), j)  OBVIOUS
      <4>3. m \in 1..Len(v) /\ v[m] = x  BY <1>1, <3>3, <4>1, <4>2, WithoutFacts
      <4>4. m \in Nat /\ m <= j  BY <4>1, <4>2, PlaceBehind
      <4>5. m < MaxPeers  BY <1>7, <3>4, <3>5, <4>4
      <4>6. m + 1 \in 2..Len(e) /\ e[m + 1] = x  BY <1>5, <4>3, <4>5
      <4>7. m + 1 \in DOMAIN e  BY <1>10, <4>6
      <4> QED BY <4>6, <4>7 DEF Listed
    <3> QED BY <3>6, <3>7
  <2> QED BY <2>3, <2>4
<1> QED BY <1>3, <1>4, <1>8, <1>11

-----------------------------------------------------------------------------
(* PeersInStep: the invariants *)

\* A configuration and its list: no list without a configuration, and nobody forgotten in them.
SafeFiles(f) ==
    /\ f.peers \in Lists
    /\ f.cfg \notin Macs => f.peers = <<>>
    /\ f.cfg \notin gone /\ gone \cap Listed(f.peers) = {}

\* The files as seen and as kept; a configuration that is kept is seen.
DiskInv ==
    /\ SafeFiles(files) /\ SafeFiles(kept)
    /\ kept.cfg \in Macs => files.cfg \in Macs
    /\ gone # {} => kept.cfg \in Macs /\ unit.role = "dev"

\* On the ground the supervisor saves a list without those it forgets, for a unit with a peer.
Saving == {"save", "sync", "push"}
SupInv ==
    /\ sup.list \in Lists
    /\ sup.at \in {"save", "sync"} => gone \cap Listed(sup.list) = {} /\ sup.drops \cap Listed(sup.list) = {}
    /\ sup.at = "sync" => sup.drops \cap Listed(files.peers) = {}
    /\ sup.at \in Saving => files.cfg \in Macs /\ unit.role = "dev"

\* Only the ground is asked to forget, and only a unit with a peer pushes candidates there.
AskedInv ==
    /\ unit \in Units
    /\ mail # None => unit.role = "dev"
    /\ unit.role = "dev" /\ files.cfg \notin Macs => chip.cands = {}

\* A tool has renamed its configuration into place and not told the chip of the peer yet.
Telling == {"renamed", "marked", "live"}
Untold == \E c \in Callers : tool[c].at \in Telling

\* The supervisor has told the chip what its start has to tell, and every write took.
Running == sup.at \notin {"reset", "start", "gone"} /\ ~stale

\* What the chip knows: the configuration's peer, and on the ground the candidates of the last
\* push, which was for the list as it is and for a peer that was not forgotten since.
ToldInv ==
    Running /\ files.cfg \in Macs /\ ~Untold =>
        IF unit.role = "ap" THEN chip.cands = {files.cfg} ELSE chip.ap = files.cfg
Resting == {"idle", "conn", "save"}
PushedInv ==
    Running /\ unit.role = "dev" /\ sup.at \in Resting =>
        \/ chip.cands = {} /\ files.peers = <<>>
        \/ \E c \in Macs \ gone : chip.cands = Listed(Effective(c, files.peers))

StepInv == DiskInv /\ SupInv /\ AskedInv /\ ToldInv /\ PushedInv

-----------------------------------------------------------------------------
(* PeersInStep: what a step leaves as it is *)

\* The files name whom they named.
SameFiles(f, g) == f.cfg = g.cfg /\ f.peers = g.peers

\* The files stay or are synced; whoever was forgotten may be paired again.
LEMMA DiskSame ==
  ASSUME DiskInv, unit' = unit, gone' \subseteq gone, SameFiles(files', files),
         SameFiles(kept', kept) \/ SameFiles(kept', files)
  PROVE  DiskInv'
<1>1. ASSUME NEW f, NEW g, SafeFiles(f), SameFiles(g, f)
      PROVE  /\ g.peers \in Lists
             /\ g.cfg \notin Macs => g.peers = <<>>
             /\ g.cfg \notin gone' /\ gone' \cap Listed(g.peers) = {}
  BY <1>1 DEF SafeFiles, SameFiles
<1>2. SafeFiles(files)'
  <2>1. SafeFiles(files)  BY DEF DiskInv
  <2> QED BY <1>1, <2>1 DEF SafeFiles
<1>3. SafeFiles(kept)'
  <2>1. SafeFiles(files) /\ SafeFiles(kept)  BY DEF DiskInv
  <2>2. CASE SameFiles(kept', kept)  BY <1>1, <2>1, <2>2 DEF SafeFiles
  <2>3. CASE SameFiles(kept', files)  BY <1>1, <2>1, <2>3 DEF SafeFiles
  <2> QED BY <2>2, <2>3
<1>4. (kept'.cfg \in Macs => files'.cfg \in Macs) /\ (kept.cfg \in Macs => kept'.cfg \in Macs)
  BY DEF DiskInv, SameFiles
<1>5. gone' # {} => kept'.cfg \in Macs /\ unit'.role = "dev"  BY <1>4 DEF DiskInv
<1> QED BY <1>2, <1>3, <1>4, <1>5 DEF DiskInv

\* The supervisor stays where it is.
LEMMA SupSame ==
  ASSUME SupInv, unit' = unit, gone' \subseteq gone, sup' = sup, files'.peers = files.peers,
         files.cfg \in Macs => files'.cfg \in Macs
  PROVE  SupInv'
  BY DEF SupInv

\* The supervisor goes where it has no list to save.
LEMMA SupFree ==
  ASSUME sup'.list \in Lists, sup'.at \notin Saving
  PROVE  SupInv'
  BY DEF SupInv, Saving

\* Neither the chip's candidates nor the files change, or they do so together.
LEMMA AskedSame ==
  ASSUME AskedInv, unit' = unit, mail' \in {mail, None} \/ unit.role = "dev",
         unit.role = "dev" => chip'.cands \in {chip.cands, {}} \/ files'.cfg \in Macs,
         files.cfg \in Macs => files'.cfg \in Macs
  PROVE  AskedInv'
  BY DEF AskedInv

\* The supervisor does not get into its loop, and what was told stays told.
LEMMA ToldSame ==
  ASSUME ToldInv, unit' = unit, Running' => Running, Untold => Untold',
         Untold' \/ (files'.cfg = files.cfg /\ chip'.cands = chip.cands /\ chip'.ap = chip.ap)
  PROVE  ToldInv'
  BY DEF ToldInv

\* The candidates and the list stay.
LEMMA PushedSame ==
  ASSUME PushedInv, unit' = unit, gone' \subseteq gone, Running' => Running,
         sup'.at \in Resting => sup.at \in Resting,
         files'.peers = files.peers, chip'.cands = chip.cands
  PROVE  PushedInv'
<1> SUFFICES ASSUME Running', unit'.role = "dev", sup'.at \in Resting
             PROVE  \/ chip'.cands = {} /\ files'.peers = <<>>
                    \/ \E c \in Macs \ gone' : chip'.cands = Listed(Effective(c, files'.peers))
  BY DEF PushedInv
<1>1. \/ chip.cands = {} /\ files.peers = <<>>
      \/ \E c \in Macs \ gone : chip.cands = Listed(Effective(c, files.peers))
  BY DEF PushedInv
<1> QED BY <1>1

\* The supervisor is out of its loop: nothing is promised of the chip.
LEMMA NotRunning == ASSUME ~Running' PROVE ToldInv' /\ PushedInv'
  BY DEF ToldInv, PushedInv

\* A tool that does not owe the chip anything goes on.
LEMMA UntoldStays ==
  ASSUME NEW c \in Callers, tool[c].at \notin Telling,
         \A o \in Callers \ {c} : tool'[o] = tool[o]
  PROVE  Untold => Untold'
  BY DEF Untold

\* A step of the button, the tools or the radio, which files, supervisor and candidates do not see.
LEMMA StepSame ==
  ASSUME StepInv, UNCHANGED <<unit, gone, sup, files, kept, stale>>,
         mail' \in {mail, None} \/ unit.role = "dev",
         chip'.cands = chip.cands, chip'.ap = chip.ap, Untold => Untold'
  PROVE  StepInv'
<1>1. SameFiles(files', files) /\ SameFiles(kept', kept) /\ gone' \subseteq gone  BY DEF SameFiles
<1>2. DiskInv /\ SupInv /\ AskedInv /\ ToldInv /\ PushedInv  BY DEF StepInv
<1>3. Running' => Running  BY DEF Running
<1>4. DiskInv'  BY <1>1, <1>2, DiskSame
<1>5. SupInv'  BY <1>1, <1>2, SupSame
<1>6. AskedInv'  BY <1>2, AskedSame
<1>7. ToldInv'  BY <1>2, <1>3, ToldSame
<1>8. PushedInv'  BY <1>1, <1>2, <1>3, PushedSame
<1> QED BY <1>4, <1>5, <1>6, <1>7, <1>8 DEF StepInv

\* What a unit kept: nothing was forgotten yet.
LEMMA InitStep == Init => StepInv
<1> SUFFICES ASSUME Init PROVE StepInv  OBVIOUS
<1>1. PICK s \in Stored :
        files = [cfg |-> s.cfg, hard |-> TRUE, marker |-> s.marker, peers |-> s.peers]
  BY DEF Init
<1>2. s.cfg \in Macs \cup {None} /\ s.peers \in Lists /\ (s.cfg = None => s.peers = <<>>)
  BY PairingAssumption
<1>3. files.cfg = s.cfg /\ files.peers = s.peers /\ kept = files /\ gone = {} /\ mail = None
      /\ chip.cands = {} /\ sup.at = "reset" /\ sup.list = <<>>
  BY <1>1 DEF Init, BlankChip, NewSup
<1>4. SafeFiles(files)  BY <1>2, <1>3 DEF SafeFiles
<1>5. DiskInv  BY <1>3, <1>4 DEF DiskInv
<1>6. <<>> \in Lists
  <2>1. <<>> \in [1..0 -> Macs] /\ 0 \in Nat /\ 0 <= MaxPeers  BY PeersAssumption
  <2>2. Distinct(<<>>)  BY DEF Distinct
  <2> QED BY <2>1, <2>2, ListIntro
<1>7. SupInv  BY <1>3, <1>6 DEF SupInv, Saving
<1>8. AskedInv  BY <1>3 DEF AskedInv, Init
<1>9. ToldInv /\ PushedInv  BY <1>3 DEF ToldInv, PushedInv, Running
<1> QED BY <1>5, <1>7, <1>8, <1>9 DEF StepInv

\* The empty list.
LEMMA EmptyList == <<>> \in Lists /\ Listed(<<>>) = {}
<1>1. <<>> \in [1..0 -> Macs] /\ 0 \in Nat /\ 0 <= MaxPeers  BY PeersAssumption
<1>2. Distinct(<<>>)  BY DEF Distinct
<1>3. <<>> \in Lists  BY <1>1, <1>2, ListIntro
<1>4. Listed(<<>>) = {}  BY DEF Listed
<1> QED BY <1>3, <1>4

-----------------------------------------------------------------------------
(* PeersInStep: the steps *)

\* The steps of a tool.
LEMMA ToolStepStep ==
  ASSUME PairInv, BoardInv, StepInv, NEW c \in Callers, ToolStep(c), ~torn'
  PROVE  StepInv'
<1>1. FilesInv /\ ToolInv /\ tool \in Tools  BY DEF PairInv, ToolInv, Tools, ToolStates
<1>2. /\ DOMAIN files = {"cfg", "hard", "marker", "peers"} /\ {"held", "up", "cands", "ap"} \subseteq DOMAIN chip
  BY <1>1 DEF FilesInv, HardFiles, BoardInv, PulseInv
<1>3. DiskInv /\ SupInv /\ AskedInv /\ ToldInv /\ PushedInv  BY DEF StepInv
<1>4. ASSUME NEW at \in ToolStates, ToolAt(c, at)
      PROVE  /\ tool' \in Tools /\ tool'[c].at = at /\ tool'[c].mac = tool[c].mac
             /\ \A o \in Callers \ {c} : tool'[o] = tool[o]
  <2>1. /\ tool' \in Tools /\ tool'[c] = [at |-> at, mac |-> tool[c].mac]
        /\ \A o \in Callers \ {c} : tool'[o] = tool[o]
    BY <1>1, <1>4, ToolSet
  <2> QED BY <2>1
<1>5. CASE Handshake(c)
  <2>1. /\ UNCHANGED <<unit, gone, sup, files, kept, stale, mail>> /\ tool[c].at = "hand"
    BY <1>5 DEF Handshake, Disk, Ghosts
  <2>2. \A o \in Callers \ {c} : tool'[o] = tool[o]  BY <1>1, <1>5 DEF Handshake, ToolAt, Tools
  <2>3. chip'.cands = chip.cands /\ chip'.ap = chip.ap
    <3>1. chip' = chip \/ chip' = [chip EXCEPT !.up = TRUE]  BY <1>5 DEF Handshake
    <3> QED BY <1>2, <3>1
  <2>4. Untold => Untold'
    <3>1. tool[c].at \notin Telling  BY <2>1 DEF Telling
    <3> QED BY <2>2, <3>1, UntoldStays
  <2> QED BY <2>1, <2>3, <2>4, StepSame
<1>6. CASE WriteTmp(c)
  <2>1. UNCHANGED <<unit, gone, sup, files, kept, stale, mail, chip>> /\ tool[c].at = "peer"
    BY <1>6 DEF WriteTmp, Disk, Ghosts
  <2>2. \A o \in Callers \ {c} : tool'[o] = tool[o]  BY <1>1, <1>6 DEF WriteTmp, ToolAt, Tools
  <2>3. Untold => Untold'
    <3>1. tool[c].at \notin Telling  BY <2>1 DEF Telling
    <3> QED BY <2>2, <3>1, UntoldStays
  <2> QED BY <2>1, <2>3, StepSame
<1>7. CASE Rename(c)
  <2>1. UNCHANGED <<unit, kept, chip, sup, mail, stale>> /\ tool[c].at \in {"tmp", "short"}
    BY <1>7 DEF Rename
  <2>2. CASE ToolAt(c, "unsaved") /\ UNCHANGED <<files, Ghosts>>
    <3>1. gone' = gone /\ files' = files  BY <2>2 DEF Ghosts
    <3>2. \A o \in Callers \ {c} : tool'[o] = tool[o]  BY <1>4, <2>2 DEF ToolStates
    <3>3. tool[c].at \notin Telling  BY <2>1 DEF Telling
    <3>4. Untold => Untold'  BY <3>2, <3>3, UntoldStays
    <3> QED BY <2>1, <3>1, <3>4, StepSame
  <2>3. CASE ~(ToolAt(c, "unsaved") /\ UNCHANGED <<files, Ghosts>>)
    <3>1. /\ ToolAt(c, "renamed") /\ gone' = gone \ {tool[c].mac}
          /\ \E w \in Written(c) : files' = [files EXCEPT !.cfg = w.cfg, !.hard = w.hard]
          /\ torn' = (torn \/ tool[c].at = "short")
      BY <1>7, <2>3 DEF Rename
    <3>2. tool[c].at = "tmp"  BY <2>1, <3>1
    <3>3. files' = [files EXCEPT !.cfg = tool[c].mac, !.hard = TRUE]
      <4>1. PICK w \in Written(c) : files' = [files EXCEPT !.cfg = w.cfg, !.hard = w.hard]  BY <3>1
      <4>2. w = [cfg |-> tool[c].mac, hard |-> TRUE]  BY <3>2 DEF Written
      <4>3. w.cfg = tool[c].mac /\ w.hard = TRUE  BY <4>2
      <4> QED BY <4>1, <4>3, Zenon
    <3>4. files'.cfg = tool[c].mac /\ files'.peers = files.peers /\ gone' \subseteq gone  BY <1>2, <3>1, <3>3
    <3>5. tool[c].mac \in Macs  BY <1>1, <3>2 DEF ToolInv, Persisting
    <3>6. tool'[c].at = "renamed"  BY <1>4, <3>1 DEF ToolStates
    <3>7. Untold'  BY <3>6 DEF Untold, Telling
    <3>8. DiskInv'
      <4>1. SafeFiles(files)'  BY <1>3, <2>1, <3>1, <3>4, <3>5 DEF DiskInv, SafeFiles
      <4>2. SafeFiles(kept)'  BY <1>3, <2>1, <3>1 DEF DiskInv, SafeFiles
      <4> QED BY <1>3, <2>1, <3>4, <3>5, <4>1, <4>2 DEF DiskInv
    <3>9. SupInv'  BY <1>3, <2>1, <3>4, <3>5, SupSame
    <3>10. AskedInv'  BY <1>3, <2>1, <3>4, <3>5, AskedSame
    <3>11. Running' => Running  BY <2>1 DEF Running
    <3>12. ToldInv'  BY <3>7 DEF ToldInv
    <3>13. PushedInv'  BY <1>3, <2>1, <3>4, <3>11, PushedSame
    <3> QED BY <3>8, <3>9, <3>10, <3>12, <3>13 DEF StepInv
  <2> QED BY <2>2, <2>3
<1>8. ASSUME UNCHANGED <<unit, gone, sup, stale, mail, chip>>, Untold', SameFiles(files', files),
             SameFiles(kept', kept) \/ SameFiles(kept', files)
      PROVE  StepInv'
  <2>1. files'.cfg = files.cfg /\ files'.peers = files.peers /\ gone' \subseteq gone  BY <1>8 DEF SameFiles
  <2>2. DiskInv'  BY <1>3, <1>8, <2>1, DiskSame
  <2>3. SupInv'  BY <1>3, <1>8, <2>1, SupSame
  <2>4. AskedInv'  BY <1>3, <1>8, <2>1, AskedSame
  <2>5. Running' => Running  BY <1>8 DEF Running
  <2>6. ToldInv'  BY <1>8 DEF ToldInv
  <2>7. PushedInv'  BY <1>3, <1>8, <2>1, <2>5, PushedSame
  <2> QED BY <2>2, <2>3, <2>4, <2>6, <2>7 DEF StepInv
<1>9. CASE Mark(c)
  <2>1. /\ UNCHANGED <<unit, kept, chip, sup, mail, stale, gone>> /\ ToolAt(c, "marked")
        /\ files' = [files EXCEPT !.marker = TRUE]
    BY <1>9 DEF Mark, Ghosts
  <2>2. tool'[c].at = "marked"  BY <1>4, <2>1 DEF ToolStates
  <2>3. Untold'  BY <2>2 DEF Untold, Telling
  <2>4. SameFiles(files', files) /\ SameFiles(kept', kept)  BY <1>2, <2>1 DEF SameFiles
  <2> QED BY <1>8, <2>1, <2>3, <2>4
<1>10. CASE Sync(c)
  <2>1. /\ UNCHANGED <<unit, chip, sup, mail, stale, gone>> /\ ToolAt(c, "live")
        /\ files' = Synced(files) /\ kept' = Synced(files)
    BY <1>10 DEF Sync, Ghosts
  <2>2. tool'[c].at = "live"  BY <1>4, <2>1 DEF ToolStates
  <2>3. Untold'  BY <2>2 DEF Untold, Telling
  <2>4. SameFiles(files', files) /\ SameFiles(kept', files)  BY <1>2, <2>1 DEF SameFiles, Synced
  <2> QED BY <1>8, <2>1, <2>3, <2>4
<1>11. CASE Live(c) \/ LiveUnsaved(c)
  <2>1. /\ UNCHANGED <<unit, files, kept, sup, mail, gone>> /\ tool[c].at \in {"live", "unsaved"}
    BY <1>11 DEF Live, LiveUnsaved, Disk, Ghosts
  <2>2. \/ chip' = chip \/ chip' = KnowsPeer(tool[c].mac)
    BY <1>11 DEF Live, LiveUnsaved, Write
  <2>3. unit.role = "dev" => chip'.cands = chip.cands  BY <1>2, <2>2 DEF KnowsPeer
  <2>4. gone' \subseteq gone /\ SameFiles(files', files) /\ SameFiles(kept', kept)  BY <2>1 DEF SameFiles
  <2>5. DiskInv'  BY <1>3, <2>1, <2>4, DiskSame
  <2>6. SupInv'  BY <1>3, <2>1, <2>4, SupSame
  <2>7. AskedInv'  BY <1>3, <2>1, <2>3, AskedSame
  <2>8. CASE stale'
    <3>1. ToldInv' /\ PushedInv'
      <4>1. ~Running'  BY <2>8 DEF Running
      <4> QED BY <4>1, NotRunning
    <3> QED BY <2>5, <2>6, <2>7, <3>1 DEF StepInv
  <2>9. CASE chip.held
    <3>1. sup.at = "reset"  BY <2>9 DEF BoardInv, PulseInv
    <3>2. ~Running'  BY <2>1, <3>1 DEF Running
    <3>3. ToldInv' /\ PushedInv'  BY <3>2, NotRunning
    <3> QED BY <2>5, <2>6, <2>7, <3>3 DEF StepInv
  <2>10. CASE ~stale' /\ ~chip.held
    <3>1. /\ tool[c].at = "live" /\ ToolAt(c, "ok") /\ chip' = KnowsPeer(tool[c].mac) /\ stale' = stale
      BY <1>11, <2>10 DEF Live, LiveUnsaved, Write
    <3>2. files.cfg = tool[c].mac  BY <1>1, <3>1 DEF ToolInv
    <3>3. IF unit.role = "ap" THEN chip'.cands = {files.cfg} ELSE chip'.ap = files.cfg
      BY <1>2, <3>1, <3>2 DEF KnowsPeer
    <3>4. ToldInv'  BY <2>1, <3>3 DEF ToldInv
    <3>5. Running' => Running  BY <2>1, <3>1 DEF Running
    <3>6. PushedInv'
      <4>1. CASE unit.role = "dev"  BY <1>3, <2>1, <2>3, <2>4, <3>5, <4>1, PushedSame
      <4>2. CASE unit.role # "dev"  BY <2>1, <4>2 DEF PushedInv
      <4> QED BY <4>1, <4>2
    <3> QED BY <2>5, <2>6, <2>7, <3>4, <3>6 DEF StepInv
  <2> QED BY <2>8, <2>9, <2>10
<1>12. CASE Report(c)
  <2>1. UNCHANGED <<unit, gone, sup, files, kept, stale, mail, chip>> /\ tool[c].at \in {"ok", "failed"}
        /\ tool' = [tool EXCEPT ![c] = Off]
    BY <1>12 DEF Report, Disk, Ghosts
  <2>2. \A o \in Callers \ {c} : tool'[o] = tool[o]  BY <1>1, <2>1 DEF Tools
  <2>3. Untold => Untold'
    <3>1. tool[c].at \notin Telling  BY <2>1 DEF Telling
    <3> QED BY <2>2, <3>1, UntoldStays
  <2> QED BY <2>1, <2>3, StepSame
<1> QED BY <1>5, <1>6, <1>7, <1>9, <1>10, <1>11, <1>12 DEF ToolStep

\* A step of the supervisor that leaves the chip, the files and the tools alone.
LEMMA SupOnly ==
  ASSUME StepInv, UNCHANGED <<unit, gone, files, kept, stale, mail, chip, tool>>, SupInv',
         Running' => Running, sup'.at \in Resting => sup.at \in Resting
  PROVE  StepInv'
<1>1. DiskInv /\ SupInv /\ AskedInv /\ ToldInv /\ PushedInv  BY DEF StepInv
<1>2. SameFiles(files', files) /\ SameFiles(kept', kept) /\ gone' \subseteq gone  BY DEF SameFiles
<1>3. Untold' <=> Untold  BY DEF Untold
<1>4. DiskInv'  BY <1>1, <1>2, DiskSame
<1>5. AskedInv'  BY <1>1, AskedSame
<1>6. ToldInv'  BY <1>1, <1>3, ToldSame
<1>7. PushedInv'  BY <1>1, <1>2, PushedSame
<1> QED BY <1>4, <1>5, <1>6, <1>7 DEF StepInv

\* The reset and the start of the supervisor.
LEMMA BootStep ==
  ASSUME PairInv, BoardInv, StepInv, ResetPulse \/ ResetDone \/ Start
  PROVE  StepInv'
<1>1. DiskInv /\ SupInv /\ AskedInv /\ ToldInv /\ PushedInv  BY DEF StepInv
<1>2. {"at", "back", "list", "drops", "pulse", "idled"} \subseteq DOMAIN sup
      /\ {"held", "up", "cands", "ap"} \subseteq DOMAIN chip
  BY DEF BoardInv, PulseInv
<1>3. UNCHANGED <<unit, gone, files, kept, mail, tool>>
  BY DEF ResetPulse, ResetDone, Start, Disk, Ghosts
<1>4. SameFiles(files', files) /\ SameFiles(kept', kept) /\ gone' \subseteq gone  BY <1>3 DEF SameFiles
<1>5. DiskInv'  BY <1>1, <1>3, <1>4, DiskSame
<1>6. CASE ResetPulse
  <2>1. sup'.at = "reset" /\ sup'.list = sup.list /\ chip'.cands = {}
    BY <1>2, <1>6 DEF ResetPulse, BlankChip
  <2>2. SupInv'  BY <1>1, <2>1, SupFree DEF SupInv, Saving
  <2>3. AskedInv'  BY <1>1, <1>3, <2>1, AskedSame
  <2>4. ~Running'  BY <2>1 DEF Running
  <2> QED BY <1>5, <2>2, <2>3, <2>4, NotRunning DEF StepInv
<1>7. CASE ResetDone
  <2>1. sup'.at = "start" /\ sup'.list = sup.list /\ chip' = chip  BY <1>2, <1>7 DEF ResetDone
  <2>2. SupInv'  BY <1>1, <2>1, SupFree DEF SupInv, Saving
  <2>3. AskedInv'  BY <1>1, <1>3, <2>1, AskedSame
  <2>4. ~Running'  BY <2>1 DEF Running
  <2> QED BY <1>5, <2>2, <2>3, <2>4, NotRunning DEF StepInv
<1>8. CASE Start /\ files.cfg \notin Macs
  <2>1. /\ sup.at = "start" /\ sup'.at = "idle" /\ sup'.list = sup.list /\ UNCHANGED <<chip, stale>>
    BY <1>2, <1>8 DEF Start, Readable, SupAt
  <2>2. SupInv'  BY <1>1, <2>1, SupFree DEF SupInv, Saving
  <2>3. AskedInv'  BY <1>1, <1>3, <2>1, AskedSame
  <2>4. ToldInv'  BY <1>3, <1>8 DEF ToldInv
  <2>5. files.peers = <<>>  BY <1>1, <1>8 DEF DiskInv, SafeFiles
  <2>6. unit.role = "dev" => chip.cands = {}  BY <1>1, <1>8 DEF AskedInv
  <2>7. PushedInv'  BY <1>3, <2>1, <2>5, <2>6 DEF PushedInv
  <2> QED BY <1>5, <2>2, <2>3, <2>4, <2>7 DEF StepInv
<1>9. CASE Start /\ files.cfg \in Macs
  <2>1. /\ sup.at = "start" /\ Write(KnowsPeer(files.cfg))
        /\ sup' = IF unit.role = "ap" THEN SupAt("idle") ELSE [sup EXCEPT !.at = "push", !.back = "idle"]
    BY <1>9 DEF Start, Readable
  <2>2. /\ sup'.list = sup.list
        /\ IF unit.role = "ap" THEN sup'.at = "idle" ELSE sup'.at = "push"
    BY <1>2, <2>1 DEF SupAt
  <2>3. unit.role = "ap" \/ unit.role = "dev"
    <3>1. unit \in Units  BY <1>1 DEF AskedInv
    <3> QED BY <3>1, PairingAssumption
  <2>4. SupInv'  BY <1>1, <1>3, <1>9, <2>2, <2>3 DEF SupInv, Saving
  <2>5. ~chip.held  BY <2>1 DEF BoardInv, PulseInv
  <2>6. chip' = KnowsPeer(files.cfg) \/ stale'  BY <2>1, <2>5 DEF Write
  <2>7. chip' = KnowsPeer(files.cfg) \/ chip' = chip  BY <2>1, <2>5 DEF Write
  <2>8. AskedInv'  BY <1>1, <1>3, <1>9, AskedSame
  <2>9. CASE stale'
    <3>1. ~Running'  BY <2>9 DEF Running
    <3> QED BY <1>5, <2>4, <2>8, <3>1, NotRunning DEF StepInv
  <2>10. CASE chip' = KnowsPeer(files.cfg)
    <3>1. IF unit.role = "ap" THEN chip'.cands = {files.cfg} ELSE chip'.ap = files.cfg
      BY <1>2, <2>10 DEF KnowsPeer
    <3>2. ToldInv'  BY <1>3, <3>1 DEF ToldInv
    <3>3. PushedInv'  BY <1>3, <2>2, <2>3 DEF PushedInv, Resting
    <3> QED BY <1>5, <2>4, <2>8, <3>2, <3>3 DEF StepInv
  <2> QED BY <2>6, <2>9, <2>10
<1> QED BY <1>6, <1>7, <1>8, <1>9

\* The candidates are pushed.
LEMMA PushStep ==
  ASSUME PairInv, BoardInv, StepInv, Push
  PROVE  StepInv'
<1>1. DiskInv /\ SupInv /\ AskedInv /\ ToldInv /\ PushedInv  BY DEF StepInv
<1>2. {"at", "back", "list", "drops", "pulse", "idled"} \subseteq DOMAIN sup
      /\ {"held", "up", "cands", "ap"} \subseteq DOMAIN chip /\ sup.back \in {"idle", "conn"}
  BY DEF BoardInv, PulseInv
<1>3. UNCHANGED <<unit, gone, files, kept, mail, tool>> /\ sup.at = "push" /\ sup' = SupBack
  BY DEF Push, Disk, Ghosts
<1>4. SameFiles(files', files) /\ SameFiles(kept', kept) /\ gone' \subseteq gone  BY <1>3 DEF SameFiles
<1>5. DiskInv'  BY <1>1, <1>3, <1>4, DiskSame
<1>6. files.cfg \in Macs /\ unit.role = "dev"  BY <1>1, <1>3 DEF SupInv, Saving
<1>7. sup'.at \in {"idle", "conn"} /\ sup'.list = <<>>  BY <1>2, <1>3 DEF SupBack
<1>8. SupInv'  BY <1>7, EmptyList, SupFree DEF Saving
<1>9. AskedInv'  BY <1>1, <1>3, <1>6, AskedSame
<1>10. PICK e : e = Listed(Effective(files.cfg, files.peers))  OBVIOUS
<1>11. e # {}
  <2>1. files.peers \in Lists  BY <1>1 DEF DiskInv, SafeFiles
  <2> QED BY <1>6, <1>10, <2>1, EffectiveListed
<1>12. Write([chip EXCEPT !.cands = e])  BY <1>10, <1>11 DEF Push
<1>13. ~chip.held  BY <1>3 DEF BoardInv, PulseInv
<1>14. stale' \/ (chip' = [chip EXCEPT !.cands = e] /\ stale' = stale)  BY <1>12, <1>13 DEF Write
<1>15. CASE stale'
  <2>1. ~Running'  BY <1>15 DEF Running
  <2> QED BY <1>5, <1>8, <1>9, <2>1, NotRunning DEF StepInv
<1>16. CASE chip' = [chip EXCEPT !.cands = e] /\ stale' = stale
  <2>1. chip'.cands = e /\ chip'.ap = chip.ap  BY <1>2, <1>16
  <2>2. Running' => Running  BY <1>3, <1>16 DEF Running
  <2>3. Untold' <=> Untold  BY <1>3 DEF Untold
  <2>4. ToldInv'
    <3>1. unit.role # "ap"  BY <1>6
    <3> QED BY <1>1, <1>3, <2>1, <2>2, <2>3, <3>1 DEF ToldInv
  <2>5. files.cfg \in Macs \ gone  BY <1>1, <1>6 DEF DiskInv, SafeFiles
  <2>6. PushedInv'  BY <1>3, <1>10, <2>1, <2>5 DEF PushedInv
  <2> QED BY <1>5, <1>8, <1>9, <2>4, <2>6 DEF StepInv
<1> QED BY <1>14, <1>15, <1>16

\* A unit is forgotten, or remembered as the link comes up.
LEMMA AskStep ==
  ASSUME PairInv, BoardInv, StepInv, DrainForget \/ Connect
  PROVE  StepInv'
<1>1. DiskInv /\ SupInv /\ AskedInv /\ ToldInv /\ PushedInv  BY DEF StepInv
<1>2. {"at", "back", "list", "drops", "pulse", "idled"} \subseteq DOMAIN sup  BY DEF BoardInv, PulseInv
<1>3. UNCHANGED <<unit, gone, files, kept, stale, chip, tool>> /\ mail' \in {mail, None}
  BY DEF DrainForget, Connect, Disk, Ghosts
<1>4. sup.at \in {"idle", "conn"}  BY DEF DrainForget, Connect
<1>5. files.peers \in Lists /\ gone \cap Listed(files.peers) = {} /\ files.cfg \notin gone
      /\ (files.cfg \notin Macs => files.peers = <<>>)
  BY <1>1 DEF DiskInv, SafeFiles
<1>6. SupInv' /\ sup'.at \in {"idle", "conn", "save"}
  <2>1. CASE DrainForget
    <3>1. PICK drops : drops = Forgotten(files.cfg, files.peers, mail)  OBVIOUS
    <3>2. CASE drops = {}
      <4>1. sup' = sup  BY <2>1, <3>1, <3>2 DEF DrainForget
      <4> QED BY <1>1, <1>4, <4>1, SupFree DEF SupInv, Saving
    <3>3. CASE drops # {}
      <4>1. sup' = [sup EXCEPT !.at = "save", !.back = sup.at, !.drops = drops,
                               !.list = Without(files.peers, drops)]
        BY <2>1, <3>1, <3>3 DEF DrainForget
      <4>2. sup'.at = "save" /\ sup'.drops = drops /\ sup'.list = Without(files.peers, drops)
        BY <1>2, <4>1
      <4>3. sup'.list \in Lists /\ Listed(sup'.list) = Listed(files.peers) \ drops
        BY <1>5, <4>2, WithoutFacts
      <4>4. drops \subseteq Listed(files.peers)  BY <3>1 DEF Forgotten
      <4>5. files.cfg \in Macs
        <5>1. Listed(files.peers) # {}  BY <3>3, <4>4
        <5> QED BY <1>5, <5>1, EmptyList
      <4>6. unit.role = "dev"  BY <1>1, <2>1 DEF AskedInv, DrainForget
      <4> QED BY <1>3, <1>5, <4>2, <4>3, <4>5, <4>6 DEF SupInv
    <3> QED BY <3>2, <3>3
  <2>2. CASE Connect
    <3>1. CASE sup' = SupAt("conn")
      <4>1. sup'.at = "conn" /\ sup'.list = sup.list  BY <1>2, <3>1 DEF SupAt
      <4> QED BY <1>1, <4>1, SupFree DEF SupInv, Saving
    <3>2. CASE sup' # SupAt("conn")
      <4>1. /\ unit.role # "ap" /\ files.cfg \in Macs
            /\ sup' = [sup EXCEPT !.at = "save", !.back = "conn", !.drops = {},
                                  !.list = Remember(files.peers, files.cfg)]
        BY <2>2, <3>2 DEF Connect, Readable
      <4>2. sup'.at = "save" /\ sup'.drops = {} /\ sup'.list = Remember(files.peers, files.cfg)
        BY <1>2, <4>1
      <4>3. sup'.list \in Lists /\ Listed(sup'.list) \subseteq Listed(files.peers) \cup {files.cfg}
        BY <1>5, <4>1, <4>2, RememberFacts
      <4>4. unit.role = "dev"
        <5>1. unit \in Units  BY <1>1 DEF AskedInv
        <5> QED BY <4>1, <5>1, PairingAssumption
      <4> QED BY <1>3, <1>5, <4>1, <4>2, <4>3, <4>4 DEF SupInv
    <3> QED BY <3>1, <3>2
  <2> QED BY <2>1, <2>2
<1>7. Running' => Running  BY <1>3, <1>4 DEF Running
<1>8. Untold' <=> Untold  BY <1>3 DEF Untold
<1>9. SameFiles(files', files) /\ SameFiles(kept', kept) /\ gone' \subseteq gone  BY <1>3 DEF SameFiles
<1>10. DiskInv'  BY <1>1, <1>3, <1>9, DiskSame
<1>11. AskedInv'  BY <1>1, <1>3, AskedSame
<1>12. ToldInv'  BY <1>1, <1>3, <1>7, <1>8, ToldSame
<1>13. PushedInv'  BY <1>1, <1>3, <1>4, <1>7, PushedSame DEF Resting
<1> QED BY <1>6, <1>10, <1>11, <1>12, <1>13 DEF StepInv

\* The list is written, and synced.
LEMMA SaveStep ==
  ASSUME PairInv, BoardInv, StepInv, Save \/ SaveSync
  PROVE  StepInv'
<1>1. DiskInv /\ SupInv /\ AskedInv /\ ToldInv /\ PushedInv  BY DEF StepInv
<1>2. {"at", "back", "list", "drops", "pulse", "idled"} \subseteq DOMAIN sup /\ sup.back \in {"idle", "conn"}
      /\ DOMAIN files = {"cfg", "hard", "marker", "peers"}
  BY DEF BoardInv, PulseInv, PairInv, FilesInv, HardFiles
<1>3. UNCHANGED <<unit, mail, stale, chip, tool>>  BY DEF Save, SaveSync, Ghosts
<1>4. sup.at \in {"save", "sync"} /\ files.cfg \in Macs /\ unit.role = "dev"
  BY <1>1 DEF Save, SaveSync, SupInv, Saving
<1>5. Untold' <=> Untold  BY <1>3 DEF Untold
<1>6. CASE Save /\ sup' = SupBack /\ files' = files
  <2>1. sup.at = "save" /\ UNCHANGED <<gone, kept>>  BY <1>6 DEF Save, Ghosts
  <2>2. sup'.at \in {"idle", "conn"} /\ sup'.list = <<>>  BY <1>2, <1>6 DEF SupBack
  <2>3. SupInv'  BY <2>2, EmptyList, SupFree DEF Saving
  <2>4. Running' => Running  BY <1>3, <2>1 DEF Running
  <2>5. sup.at \in Resting  BY <2>1 DEF Resting
  <2> QED BY <1>3, <1>6, <2>1, <2>3, <2>4, <2>5, SupOnly
<1>7. CASE Save /\ ~(sup' = SupBack /\ files' = files)
  <2>1. /\ sup' = SupAt("sync") /\ sup.at = "save" /\ UNCHANGED <<gone, kept>>
        /\ \/ files' = [files EXCEPT !.peers = sup.list]
           \/ \E n \in 0..(Len(sup.list) - 1) : files' = [files EXCEPT !.peers = Upto(sup.list, n)]
    BY <1>7 DEF Save, Ghosts
  <2>2. sup.list \in Lists /\ gone \cap Listed(sup.list) = {} /\ sup.drops \cap Listed(sup.list) = {}
    BY <1>1, <2>1 DEF SupInv
  <2>3. PICK l \in Lists : files' = [files EXCEPT !.peers = l] /\ Listed(l) \subseteq Listed(sup.list)
    <3>1. CASE files' = [files EXCEPT !.peers = sup.list]  BY <2>2, <3>1
    <3>2. CASE \E n \in 0..(Len(sup.list) - 1) : files' = [files EXCEPT !.peers = Upto(sup.list, n)]
      <4>1. PICK n \in 0..(Len(sup.list) - 1) : files' = [files EXCEPT !.peers = Upto(sup.list, n)]  BY <3>2
      <4>2. n \in Nat  BY <2>2, ListFacts
      <4> QED BY <2>2, <4>1, <4>2, UptoLists
    <3> QED BY <2>1, <3>1, <3>2
  <2>4. files'.cfg = files.cfg /\ files'.peers = l  BY <1>2, <2>3
  <2>5. sup'.at = "sync" /\ sup'.list = sup.list /\ sup'.drops = sup.drops  BY <1>2, <2>1 DEF SupAt
  <2>6. gone \cap Listed(l) = {} /\ sup.drops \cap Listed(l) = {}  BY <2>2, <2>3
  <2>7. SupInv'  BY <1>3, <1>4, <2>1, <2>2, <2>4, <2>5, <2>6 DEF SupInv
  <2>8. DiskInv'
    <3>1. SafeFiles(files)'  BY <1>1, <1>4, <2>1, <2>3, <2>4, <2>6 DEF DiskInv, SafeFiles
    <3>2. SafeFiles(kept)'  BY <1>1, <2>1 DEF DiskInv, SafeFiles
    <3> QED BY <1>1, <1>3, <2>1, <2>4, <3>1, <3>2 DEF DiskInv
  <2>9. AskedInv'  BY <1>1, <1>3, <2>4, AskedSame
  <2>10. Running' => Running  BY <1>3, <2>1 DEF Running
  <2>11. ToldInv'  BY <1>1, <1>3, <1>5, <2>4, <2>10, ToldSame
  <2>12. PushedInv'  BY <2>5 DEF PushedInv, Resting
  <2> QED BY <2>7, <2>8, <2>9, <2>11, <2>12 DEF StepInv
<1>8. CASE SaveSync
  <2>1. /\ files' = Synced(files) /\ kept' = Synced(files) /\ gone' = gone \cup (sup.drops \ {files.cfg})
        /\ sup' = [sup EXCEPT !.at = "push", !.list = <<>>, !.drops = {}] /\ sup.at = "sync"
    BY <1>8 DEF SaveSync
  <2>2. /\ files'.cfg = files.cfg /\ files'.peers = files.peers
        /\ kept'.cfg = files.cfg /\ kept'.peers = files.peers
    BY <1>2, <2>1 DEF Synced
  <2>3. sup'.at = "push" /\ sup'.list = <<>>  BY <1>2, <2>1
  <2>4. SupInv'  BY <1>3, <1>4, <2>2, <2>3, EmptyList DEF SupInv
  <2>5. files.cfg \notin gone' /\ gone' \cap Listed(files.peers) = {} /\ files.peers \in Lists
    BY <1>1, <2>1 DEF DiskInv, SafeFiles, SupInv
  <2>6. SafeFiles(files)' /\ SafeFiles(kept)'  BY <1>4, <2>2, <2>5 DEF SafeFiles
  <2>7. DiskInv'  BY <1>3, <1>4, <2>2, <2>6 DEF DiskInv
  <2>8. AskedInv'  BY <1>1, <1>3, <2>2, AskedSame
  <2>9. Running' => Running  BY <1>3, <2>1 DEF Running
  <2>10. ToldInv'  BY <1>1, <1>3, <1>5, <2>2, <2>9, ToldSame
  <2>11. PushedInv'  BY <2>3 DEF PushedInv, Resting
  <2> QED BY <2>4, <2>7, <2>8, <2>10, <2>11 DEF StepInv
<1> QED BY <1>6, <1>7, <1>8

\* Every step of the supervisor.
LEMMA SupStepStep ==
  ASSUME PairInv, BoardInv, StepInv, SupStep
  PROVE  StepInv'
<1>1. CASE FirstIdle \/ Drop \/ Leave
  <2>1. UNCHANGED <<unit, gone, files, kept, stale, mail, chip, tool>>
    BY <1>1 DEF FirstIdle, Drop, Leave, Disk, Ghosts
  <2>2. {"at", "back", "list", "drops", "pulse", "idled"} \subseteq DOMAIN sup  BY DEF BoardInv, PulseInv
  <2>3. /\ sup.at \in {"start", "idle", "conn"} /\ sup'.at \in {"idle", "gone"} /\ sup'.list = sup.list
        /\ sup.at = "start" => sup'.at = "gone"
    BY <1>1, <2>2 DEF FirstIdle, Drop, Leave, SupAt
  <2>4. SupInv'
    <3>1. sup'.list \in Lists /\ sup'.at \notin Saving  BY <2>3 DEF StepInv, SupInv, Saving
    <3> QED BY <3>1, SupFree
  <2>5. (Running' => Running) /\ (sup'.at \in Resting => sup.at \in Resting)
    BY <2>1, <2>3 DEF Running, Resting
  <2> QED BY <2>1, <2>4, <2>5, SupOnly
<1> QED BY <1>1, BootStep, PushStep, AskStep, SaveStep DEF SupStep

\* The power goes: what the flash has is safe, and the supervisor starts over.
LEMMA CutStep ==
  ASSUME PairInv, StepInv, PowerCut
  PROVE  StepInv'
<1>1. DiskInv /\ SupInv /\ AskedInv /\ ToldInv /\ PushedInv  BY DEF StepInv
<1>2. PICK after \in AfterCut(files, kept) : files' = after /\ kept' = after  BY DEF PowerCut
<1>3. PICK new \in [{"cfg", "marker", "peers"} -> BOOLEAN] :
        /\ new["peers"] => new["cfg"] \/ Readable(kept.cfg)
        /\ after = [cfg |-> IF new["cfg"] THEN (IF files.hard THEN files.cfg ELSE Empty) ELSE kept.cfg,
                 hard |-> TRUE, marker |-> IF new["marker"] THEN files.marker ELSE kept.marker,
                 peers |-> IF new["peers"] THEN files.peers ELSE kept.peers]
  BY DEF AfterCut
<1>4. files.hard = TRUE  BY DEF PairInv, FilesInv, HardFiles
<1>5. after.cfg = IF new["cfg"] THEN files.cfg ELSE kept.cfg  BY <1>3, <1>4
<1>6. after.peers = IF new["peers"] THEN files.peers ELSE kept.peers  BY <1>3
<1>7. UNCHANGED <<unit, gone>> /\ chip'.cands = {} /\ sup'.at = "reset" /\ sup'.list = <<>> /\ mail' = None
  BY DEF PowerCut, Ghosts, BlankChip, NewSup
<1>8. after.peers \in Lists /\ after.cfg \notin gone /\ gone \cap Listed(after.peers) = {}
  BY <1>1, <1>5, <1>6 DEF DiskInv, SafeFiles
<1>9. after.cfg \notin Macs => after.peers = <<>>
  <2> SUFFICES ASSUME after.cfg \notin Macs PROVE after.peers = <<>>  OBVIOUS
  <2>1. kept.cfg \notin Macs  BY <1>1, <1>5 DEF DiskInv
  <2>2. kept.peers = <<>>  BY <1>1, <2>1 DEF DiskInv, SafeFiles
  <2>3. new["peers"] => files.cfg \notin Macs  BY <1>3, <1>5, <2>1 DEF Readable
  <2>4. new["peers"] => files.peers = <<>>  BY <1>1, <2>3 DEF DiskInv, SafeFiles
  <2> QED BY <1>6, <2>2, <2>4
<1>10. SafeFiles(files)' /\ SafeFiles(kept)'  BY <1>2, <1>7, <1>8, <1>9 DEF SafeFiles
<1>11. kept.cfg \in Macs => after.cfg \in Macs  BY <1>1, <1>5 DEF DiskInv
<1>12. DiskInv'  BY <1>1, <1>2, <1>7, <1>10, <1>11 DEF DiskInv
<1>13. SupInv'  BY <1>7, EmptyList, SupFree DEF Saving
<1>14. AskedInv'  BY <1>1, <1>7 DEF AskedInv
<1>15. ~Running'  BY <1>7 DEF Running
<1> QED BY <1>12, <1>13, <1>14, <1>15, NotRunning DEF StepInv

\* The process starts afresh; the chip keeps what it knows.
LEMMA ReexecStep ==
  ASSUME StepInv, Reexec
  PROVE  StepInv'
<1>1. DiskInv /\ SupInv /\ AskedInv /\ ToldInv /\ PushedInv  BY DEF StepInv
<1>2. UNCHANGED <<unit, gone, files, kept, chip>> /\ sup'.at = "reset" /\ sup'.list = <<>> /\ mail' = None
  BY DEF Reexec, Disk, Ghosts, NewSup
<1>3. SameFiles(files', files) /\ SameFiles(kept', kept) /\ gone' \subseteq gone  BY <1>2 DEF SameFiles
<1>4. DiskInv'  BY <1>1, <1>2, <1>3, DiskSame
<1>5. SupInv'  BY <1>2, EmptyList, SupFree DEF Saving
<1>6. AskedInv'  BY <1>1, <1>2, AskedSame
<1>7. ~Running'  BY <1>2 DEF Running
<1> QED BY <1>4, <1>5, <1>6, <1>7, NotRunning DEF StepInv

\* StepInv is inductive.
LEMMA NextStep ==
  ASSUME PairInv, BoardInv, StepInv, [Next]_vars, ~torn'
  PROVE  StepInv'
<1>1. tool \in Tools  BY DEF PairInv, ToolInv, Tools, ToolStates
<1>2. ASSUME NEW c \in Callers, tool[c].at = "off", ToolAt(c, "hand"),
             UNCHANGED <<unit, gone, sup, files, kept, stale, mail, chip>>
      PROVE  StepInv'
  <2>1. \A o \in Callers \ {c} : tool'[o] = tool[o]  BY <1>1, <1>2, ToolSet DEF ToolStates
  <2>2. tool[c].at \notin Telling  BY <1>2 DEF Telling
  <2>3. Untold => Untold'  BY <2>1, <2>2, UntoldStays
  <2> QED BY <1>2, <2>3, StepSame
<1>3. CASE HttpPair
  <2>1. /\ UNCHANGED <<unit, gone, sup, files, kept, stale, mail, chip>> /\ "http" \in Callers
        /\ tool["http"].at = "off" /\ ToolAt("http", "hand")
    BY <1>3 DEF HttpPair, Disk, Ghosts, Callers
  <2> QED BY <1>2, <2>1
<1>4. CASE ButtonPair
  <2>1. UNCHANGED <<unit, gone, sup, files, kept, stale, mail, chip>> /\ "button" \in Callers /\ button.at = "pair"
    BY <1>4 DEF ButtonPair, Disk, Ghosts, Callers
  <2>2. tool["button"].at = "off"  BY <2>1 DEF BoardInv, ButtonInv
  <2>3. CASE ToolAt("button", "hand")  BY <1>2, <2>1, <2>2, <2>3
  <2>4. CASE UNCHANGED tool
    <3>1. Untold => Untold'  BY <2>4 DEF Untold
    <3> QED BY <2>1, <3>1, StepSame
  <2> QED BY <1>4, <2>3, <2>4 DEF ButtonPair
<1>5. CASE \E which \in Macs \cup {"all"} : RequestForget(which)
  <2>1. UNCHANGED <<unit, gone, sup, files, kept, stale, chip, tool>> /\ unit.role = "dev"
    BY <1>5 DEF RequestForget, Disk, Ghosts
  <2>2. Untold => Untold'  BY <2>1 DEF Untold
  <2> QED BY <2>1, <2>2, StepSame
<1>6. CASE ButtonTurn \/ RequestStop \/ LinkUp \/ LinkDown \/ UNCHANGED vars
  <2>1. UNCHANGED <<unit, gone, sup, files, kept, stale, mail, tool>>
    BY <1>6 DEF ButtonTurn, RequestStop, LinkUp, LinkDown, vars, Disk, Ghosts
  <2>2. chip' = chip \/ \E b \in BOOLEAN : chip' = [chip EXCEPT !.up = b]
    BY <1>6 DEF ButtonTurn, RequestStop, LinkUp, LinkDown, vars
  <2>3. {"held", "up", "cands", "ap"} \subseteq DOMAIN chip  BY DEF BoardInv, PulseInv
  <2>4. chip'.cands = chip.cands /\ chip'.ap = chip.ap  BY <2>2, <2>3
  <2>5. Untold => Untold'  BY <2>1 DEF Untold
  <2> QED BY <2>1, <2>4, <2>5, StepSame
<1> QED BY <1>3, <1>4, <1>5, <1>6, ToolStepStep, SupStepStep, ReexecStep, CutStep DEF Next

\* "every subsequent boot needs it re-pushed too" and "stop accepting one remembered air unit"
\* (lifecycle_pair.c, README): at rest the chip accepts the configuration's peer and the remembered
\* ones, but for the oldest of a full list, and nobody who was forgotten and not paired since: for
\* any units, lists and order of pairings, requests, failing writes, restarts and power cuts, until
\* a configuration that was not written as a whole is put in place.
THEOREM PeersInStepHolds == Spec => []PeersInStep
<1>1. ASSUME PairInv, BoardInv, StepInv PROVE PeersInStep
  <2>1. DiskInv /\ SupInv /\ AskedInv /\ ToldInv /\ PushedInv  BY <1>1 DEF StepInv
  <2> SUFFICES ASSUME AtRest
               PROVE  /\ files.cfg \in Macs =>
                           IF unit.role = "ap" THEN chip.cands = {files.cfg}
                           ELSE Listed(Upto(Effective(files.cfg, files.peers), MaxPeers - 1)) \subseteq Accepted
                      /\ gone \cap Accepted = {}
    BY DEF PeersInStep, ChipKnowsPeers, ForgottenRefused
  <2>2. Running /\ sup.at \in Resting  BY DEF AtRest, Running, Resting
  <2>3. ~Untold  BY DEF AtRest, Untold, Telling, Persisting
  <2>4. CASE unit.role = "ap"
    <3>1. gone = {}  BY <2>1, <2>4 DEF DiskInv
    <3> QED BY <2>1, <2>2, <2>3, <2>4, <3>1 DEF ToldInv
  <2>5. CASE unit.role # "ap"
    <3>1. unit.role = "dev"  BY <2>1, <2>5, PairingAssumption DEF AskedInv
    <3>2. Accepted = (chip.cands \cup {chip.ap}) \cap Macs  BY <2>5 DEF Accepted
    <3>3. files.peers \in Lists /\ gone \cap Listed(files.peers) = {} /\ files.cfg \notin gone
      BY <2>1 DEF DiskInv, SafeFiles
    <3>4. CASE files.cfg \in Macs
      <4>1. chip.ap = files.cfg  BY <2>1, <2>2, <2>3, <2>5, <3>4 DEF ToldInv
      <4>2. CASE chip.cands = {} /\ files.peers = <<>>
        <5>1. gone \cap Accepted = {}  BY <3>2, <3>3, <4>1, <4>2
        <5>2. PICK e : e = Effective(files.cfg, files.peers)  OBVIOUS
        <5>3. Listed(e) \subseteq {files.cfg}  BY <3>3, <3>4, <4>2, <5>2, EffectiveListed, EmptyList
        <5>4. Listed(Upto(e, MaxPeers - 1)) \subseteq Listed(e) \cup {files.cfg}
          BY <3>3, <3>4, <5>2, PushServes
        <5> QED BY <2>5, <3>2, <3>4, <4>1, <5>1, <5>2, <5>3, <5>4
      <4>3. CASE \E c \in Macs \ gone : chip.cands = Listed(Effective(c, files.peers))
        <5>1. PICK c \in Macs \ gone : chip.cands = Listed(Effective(c, files.peers))  BY <4>3
        <5>2. chip.cands \subseteq Listed(files.peers) \cup {c}  BY <3>3, <5>1, EffectiveListed
        <5>3. gone \cap Accepted = {}  BY <3>2, <3>3, <4>1, <5>1, <5>2
        <5>4. PICK u : u = Upto(Effective(files.cfg, files.peers), MaxPeers - 1)  OBVIOUS
        <5>5. Listed(u) \subseteq chip.cands \cup {files.cfg}  BY <3>3, <3>4, <5>1, <5>4, PushServes
        <5>6. chip.cands \subseteq Macs
          <6>1. Listed(files.peers) \subseteq Macs  BY <3>3, ListFacts
          <6> QED BY <5>2, <6>1
        <5> QED BY <2>5, <3>2, <3>4, <4>1, <5>3, <5>4, <5>5, <5>6
      <4> QED BY <2>1, <2>2, <3>1, <4>2, <4>3 DEF PushedInv
    <3>5. CASE files.cfg \notin Macs
      <4>1. gone = {}  BY <2>1, <3>5 DEF DiskInv
      <4> QED BY <3>5, <4>1
    <3> QED BY <3>4, <3>5
  <2> QED BY <2>4, <2>5
<1>2. torn => PeersInStep  BY DEF PeersInStep, ChipKnowsPeers, ForgottenRefused, AtRest
<1>3. (torn \/ (PairInv /\ BoardInv /\ StepInv)) /\ [Next]_vars
        => (torn \/ (PairInv /\ BoardInv /\ StepInv))'
  <2>1. PairInv => tool \in Tools  BY DEF PairInv, ToolInv, Tools, ToolStates
  <2> QED BY <2>1, NextPair, NextBoard, NextStep, TornStays
<1> QED BY <1>1, <1>2, <1>3, InitPair, InitBoard, InitStep, PTL DEF Spec
====
