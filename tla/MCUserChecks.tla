---- MODULE MCUserChecks ----
(* Instances of UserChecks for TLC. *)
EXTENDS UserChecks
====
