----------------------------- MODULE MCConnTable -----------------------------
(***************************************************************************)
(* Instances of ConnTable for TLC: three connections that share one or two *)
(* descriptors.                                                            *)
(***************************************************************************)
EXTENDS ConnTable, TLC

\* Objects, and workers, differ only by name.
Symmetry == Permutations(Obj) \cup Permutations(Workers)
=============================================================================
