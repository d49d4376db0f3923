----------------------------- MODULE MCDelivery -----------------------------
(***************************************************************************)
(* Instances of Delivery for TLC: two messages to a user with two or three *)
(* devices.                                                                *)
(***************************************************************************)
EXTENDS Delivery, TLC

\* Messages, and connections, differ only by name.
Symmetry == Permutations(Msg) \cup Permutations(Conn)
=============================================================================
