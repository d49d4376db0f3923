------------------------------ MODULE MCPipes ------------------------------
(***************************************************************************)
(* Instances of Pipes for TLC: one channel that announces its subscribers, *)
(* one that does not, one that is private, and two or three connections.   *)
(***************************************************************************)
EXTENDS Pipes, TLC

CONSTANTS chat, track_online, private_room

OneChat == {<<chat>>}
OneTrack == {<<track_online>>}
Mixed == {<<chat, private_room>>}

\* Connections differ only by name.
Symmetry == Permutations(Conn)
=============================================================================
