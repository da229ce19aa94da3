---- MODULE MC_LinkSession ----
(* Two slots; the attempts and the dead-write limit cut to two each. *)
EXTENDS LinkSession
====
