------------------------------ MODULE MCSockets ------------------------------
(* Sockets for TLC.  Connections, users and frame slots are interchangeable,  *)
(* and only safety is checked, so the symmetry is sound.                      *)
EXTENDS Sockets, TLC

Interchangeable == Permutations(Sockets) \cup Permutations(Users) \cup Permutations(Frames)
==============================================================================
