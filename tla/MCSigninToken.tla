---- MODULE MCSigninToken ----
(* Instances of SigninToken for TLC. *)
EXTENDS SigninToken
====
