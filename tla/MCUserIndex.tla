----------------------------- MODULE MCUserIndex -----------------------------
(***************************************************************************)
(* Instances of UserIndex for TLC: two or three users in a shard that      *)
(* overflows at MaxMap items, and up to three connections.                 *)
(***************************************************************************)
EXTENDS UserIndex, TLC

\* Users differ only by name; connection identifiers are ordered by nothing.
UserSymmetry == Permutations(User)
=============================================================================
