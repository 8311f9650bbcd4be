------------------------------ MODULE MCTCPMain ------------------------------
(* Instances of TCPMain for TLC: objects and remote sockets are               *)
(* interchangeable, and no property tells one from another.                   *)
EXTENDS TCPMain, TLC

Interchangeable == Permutations(Objects) \cup Permutations(Remotes)
=============================================================================
