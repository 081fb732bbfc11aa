------------------------------- MODULE MCShared -------------------------------
(***************************************************************************)
(* The rate limiter's table, which requests share, and the node at a        *)
(* socket's path, which processes do.  The two share nothing with one       *)
(* another, so while one is at work the other is as it was at first: one    *)
(* run explores the states of each and never their product.                 *)
(***************************************************************************)
EXTENDS RateLimit, UnixSocket, TLC

\* The values of a set are interchangeable.  The instance takes the same ones for
\* Key and Server, which never meet, to keep the group of permutations small.
Symmetry == Permutations(Key) \cup Permutations(Thread)

SharedInit == RlInit /\ Init

\* The path is empty at rest; it also starts with something left over.
SharedNext ==
  \/ Init /\ node = NoNode /\ RlNext /\ UNCHANGED vars
  \/ RlInit /\ Next /\ UNCHANGED rlVars

SharedSpec == SharedInit /\ [][SharedNext]_<<rlVars, vars>>
=============================================================================
