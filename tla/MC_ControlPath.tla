---- MODULE MC_ControlPath ----
(* ControlPath for TLC. *)
EXTENDS ControlPath
====
