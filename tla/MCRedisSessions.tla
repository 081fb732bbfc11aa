--------------------------- MODULE MCRedisSessions ---------------------------
(* Instances of RedisSessions for TLC: the values are in the .cfg files.     *)
EXTENDS RedisSessions, TLC
Symmetry == Permutations(Request) \cup Permutations(User) \cup Permutations(Id)
=============================================================================
