---- MODULE MCOAuthTokens ----
(* Instances of OAuthTokens for TLC. *)
EXTENDS OAuthTokens, TLC

\* A lifetime that fits, one whose product wraps to a negative number, a negative
\* lifetime, and one whose product wraps to a positive number.
MCTokenExps == {Absent, BadExp, 1, 13, -1, -20}

MCSymmetry == Permutations(Exchanges) \cup Permutations(Refreshes)
====
