---- MODULE MC_Pairing ----
(* Four units, of which a list holds three; what a unit kept is nothing, one peer not linked to yet,
   or a peer and two others remembered, which fills the list. *)
EXTENDS Pairing

McUnits ==
    {[role |-> "dev", method |-> "none"], [role |-> "ap", method |-> "devmem"], [role |-> "dev", method |-> "sysfs"]}

McStored ==
    {[cfg |-> None, marker |-> FALSE, peers |-> <<>>],
     [cfg |-> "a", marker |-> TRUE, peers |-> <<>>],
     [cfg |-> "a", marker |-> TRUE, peers |-> <<"a", "b", "d">>]}
====
