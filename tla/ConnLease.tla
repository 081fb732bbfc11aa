------------------------------ MODULE ConnLease ------------------------------
(***************************************************************************)
(* What a connection promises to the rest of the engine: it holds its share *)
(* of the budget and of the drain until it lets go, it lets go once, and    *)
(* it does so on the server's initiative only after having been asked to    *)
(* wind down and with no request being answered.                            *)
(***************************************************************************)
VARIABLES
  held,       \* the connection loop still owns its ConnGuard
  asked,      \* it has been asked to finish (graceful_shutdown)
  peerDone,   \* hyper's connection future resolved: nothing left to serve
  answering   \* the requests being answered

leaseVars == <<held, asked, peerDone, answering>>

Init == held = TRUE /\ asked = FALSE /\ peerDone = FALSE /\ answering = {}

\* Requests come and go.
Answer == answering' # answering /\ UNCHANGED <<held, asked, peerDone>>

Ask == held /\ ~asked /\ asked' = TRUE /\ UNCHANGED <<held, peerDone, answering>>

Resolve == held /\ ~peerDone /\ peerDone' = TRUE /\ UNCHANGED <<held, asked, answering>>

Release ==
  /\ held
  /\ peerDone \/ (asked /\ answering = {})
  /\ held' = FALSE
  /\ UNCHANGED <<asked, peerDone, answering>>

Next == Answer \/ Ask \/ Resolve \/ Release

Spec == Init /\ [][Next]_leaseVars
=============================================================================
