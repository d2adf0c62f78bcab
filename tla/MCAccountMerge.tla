---- MODULE MCAccountMerge ----
(* Instances of AccountMerge for TLC. *)
EXTENDS AccountMerge, TLC

CONSTANTS ann, bob, cas_ann, cas_bob

\* Every CAS user has a shadow name of their own.
MCShadowOf == [s \in Subjects |-> IF s = ann THEN cas_ann ELSE cas_bob]

MCSymmetry == Permutations(Logins)
====
