---- MODULE MCCASIdentity ----
(* Instances of CASIdentity for TLC. *)
EXTENDS CASIdentity

CONSTANTS ann, bob, eve, cas_ann, cas_eve

\* The shadow names of ann and bob collide, eve has one of her own.
MCShadowOf == [s \in Subjects |-> IF s = eve THEN cas_eve ELSE cas_ann]
====
