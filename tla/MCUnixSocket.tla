----------------------------- MODULE MCUnixSocket -----------------------------
(* Instances of UnixSocket for TLC: the values are in the .cfg files.        *)
EXTENDS UnixSocket, TLC
Symmetry == Permutations(Server)
=============================================================================
