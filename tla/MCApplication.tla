---------------------------- MODULE MCApplication ----------------------------
(***************************************************************************)
(* What a request meets in the application: the dispatch to a route, and    *)
(* the session it loads from Redis and writes back.  The two share nothing  *)
(* with one another, so while one is at work the other is as it was at      *)
(* first: one run explores the states of each and never their product.      *)
(***************************************************************************)
EXTENDS MCDispatch, RedisSessions, TLC

\* The requests, users and identifiers of the sessions are interchangeable.
Symmetry == Permutations(Request) \cup Permutations(User) \cup Permutations(Id)

ApplicationInit == Init /\ RsInit

ApplicationNext ==
  \/ RsInit /\ Next /\ UNCHANGED rsVars
  \/ Init /\ RsNext /\ UNCHANGED vars

ApplicationSpec == ApplicationInit /\ [][ApplicationNext]_<<vars, rsVars>>
=============================================================================
