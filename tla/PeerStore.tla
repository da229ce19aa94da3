---- MODULE PeerStore ----
(***************************************************************************)
(* What a unit keeps about its peers: the baseband configuration with the  *)
(* peer paired last, the marker of a first pairing and, on the ground, the *)
(* ar8030.peers list (lifecycled/lifecycle_pair.c); and what a power cut    *)
(* may leave of them.                                                      *)
(***************************************************************************)
EXTENDS Naturals, Sequences, FiniteSets

CONSTANTS
    Macs,      \* the units there are to pair with
    MaxPeers   \* BB_CONFIG_MAX_SLOT_CANDIDATE

ASSUME PeersAssumption == MaxPeers \in Nat \ {0}

None == "none"      \* no MAC
Empty == "empty"    \* a configuration file without its content

Listed(s) == {s[i] : i \in DOMAIN s}
Upto(s, n) == SubSeq(s, 1, IF Len(s) < n THEN Len(s) ELSE n)

\* The entries that stay move up: the one at i goes behind those that stay before it.
Stays(s, gone) == {i \in DOMAIN s : s[i] \notin gone}
Place(S, i) == Cardinality({j \in S : j <= i})
Without(s, gone) ==
    LET S == Stays(s, gone) IN [k \in 1 .. Cardinality(S) |-> s[CHOOSE i \in S : Place(S, i) = k]]

\* Lists lc_peers_load() can return: no MAC twice, at most MaxPeers.
Lists == {s \in UNION {[1..n -> Macs] : n \in 0..MaxPeers} : Cardinality(Listed(s)) = Len(s)}

\* lc_peers_note_ap_mac(): newest first, the oldest falls off a full list.
Remember(peers, ap) ==
    IF ap \in Listed(peers) THEN peers ELSE <<ap>> \o Upto(peers, MaxPeers - 1)

\* lc_pair_read_ap_mac(): the configuration names a peer.
Readable(cfg) == cfg \in Macs

\* peers_effective(): the current peer first, then the remembered ones.
Effective(ap, peers) ==
    IF Readable(ap) THEN Upto(<<ap>> \o Without(peers, {ap}), MaxPeers) ELSE peers

\* lc_peers_forget(): one remembered unit that is not the current one, or all but that.
Forgotten(ap, peers, which) ==
    IF which = "all" THEN Listed(peers) \ {ap} ELSE ({which} \cap Listed(peers)) \ {ap}

-----------------------------------------------------------------------------
\* The files as programs see them: cfg the peer in the configuration, hard whether its content
\* has reached the flash, marker the .paired file, peers the list.  A power cut leaves each of
\* the three as it is seen or as it was when the file system was last synced; but the renames in
\* one directory reach the flash in order, so that a list, which is only ever written beside a
\* configuration that names a peer (lc_sidecar_path()), is not kept without one.
Synced(files) == [files EXCEPT !.hard = TRUE]

AfterCut(files, kept) ==
    {[cfg |-> IF new["cfg"] THEN (IF files.hard THEN files.cfg ELSE Empty) ELSE kept.cfg, hard |-> TRUE,
      marker |-> IF new["marker"] THEN files.marker ELSE kept.marker,
      peers |-> IF new["peers"] THEN files.peers ELSE kept.peers]
     : new \in {n \in [{"cfg", "marker", "peers"} -> BOOLEAN] : n["peers"] => n["cfg"] \/ Readable(kept.cfg)}}
====
