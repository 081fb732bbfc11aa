------------------------------ MODULE UnixSocket ------------------------------
(***************************************************************************)
(* The life of the node serve_unix binds at its path: unlink_if_stale,      *)
(* bind_unix, the identity remembered after the bind, and the removal at    *)
(* shutdown, by several instances of the server started on one path.        *)
(*                                                                         *)
(* A node is named after the instance that bound it (an inode is not reused *)
(* while the socket bound to it is open, and every instance binds once).    *)
(***************************************************************************)
EXTENDS Integers, FiniteSets

CONSTANTS
  Server,     \* server processes, each started at most once
  Leftover,   \* what may be at the path at first: nobody's socket, or a file
  NoNode,
  Backlog,    \* connections the kernel queues for a socket
  Clients,    \* bound on the clients waiting in one queue
  Serialised  \* instances are started one at a time

ASSUME Names == Leftover \notin Server /\ NoNode \notin Server /\ Leftover # NoNode
ASSUME Sizes == Backlog \in Nat \ {0} /\ Clients \in Nat
ASSUME Mode  == Serialised \in BOOLEAN

VARIABLES
  pc,         \* where each instance is in serve_unix
  node,       \* what is at the path
  bound,      \* the identity each instance remembers
  listening,  \* its socket listens
  pending,    \* connections in its kernel queue
  deleted     \* history: somebody deleted the path

vars == <<pc, node, bound, listening, pending, deleted>>

Nodes    == Server \cup {Leftover, NoNode}
Starting == {"stat", "probe", "remove", "bind", "listen", "identify"}
Running  == {"serving", "draining", "check", "unlink"}
Ended    == {"returned", "inUse", "failed", "crashed"}

TypeOK ==
  /\ pc \in [Server -> {"out"} \cup Starting \cup Running \cup Ended]
  /\ node \in Nodes
  /\ bound \in [Server -> Nodes]
  /\ listening \in [Server -> BOOLEAN]
  /\ pending \in [Server -> 0..Backlog]
  /\ deleted \in BOOLEAN

Init ==
  /\ pc = [i \in Server |-> "out"]
  /\ node \in {NoNode, Leftover}
  /\ bound = [i \in Server |-> NoNode]
  /\ listening = [i \in Server |-> FALSE]
  /\ pending = [i \in Server |-> 0]
  /\ deleted = FALSE

Goto(i, s) == pc' = [pc EXCEPT ![i] = s]

StartUp(i) ==
  /\ pc[i] = "out" /\ Goto(i, "stat")
  /\ Serialised => \A j \in Server : pc[j] \notin Starting
  /\ UNCHANGED <<node, bound, listening, pending, deleted>>

-----------------------------------------------------------------------------
(* unlink_if_stale.  A node that is not a socket is removed unprobed.       *)

Stat(i) ==
  /\ pc[i] = "stat"
  /\ \/ node = NoNode /\ Goto(i, "bind")
     \/ node = Leftover /\ Goto(i, "remove")
     \/ node # NoNode /\ Goto(i, "probe")
  /\ UNCHANGED <<node, bound, listening, pending, deleted>>

\* Mutant: the unlink is unconditional, as it used to be.
Answers_unasked == FALSE

\* A connect that the kernel can queue succeeds.  Any error, the refusal of a
\* dead socket or a queue that is full (EAGAIN), is taken for staleness.
Answers == node \in Server /\ listening[node] /\ pending[node] < Backlog

Probe(i) ==
  /\ pc[i] = "probe"
  /\ IF Answers THEN /\ Goto(i, "inUse")
                     /\ pending' = [pending EXCEPT ![node] = @ + 1]
                ELSE Goto(i, "remove") /\ UNCHANGED pending
  /\ UNCHANGED <<node, bound, listening, deleted>>

\* Mutant: only a socket is removed, so a plain file stays in the way.
Remove_socketOnly(i) ==
  /\ pc[i] = "remove" /\ Goto(i, "bind")
  /\ node' = IF node = Leftover THEN Leftover ELSE NoNode
  /\ UNCHANGED <<bound, listening, pending, deleted>>

\* A node that vanished since is not a failure.
Remove(i) ==
  /\ pc[i] = "remove" /\ Goto(i, "bind")
  /\ node' = NoNode
  /\ UNCHANGED <<bound, listening, pending, deleted>>

-----------------------------------------------------------------------------
(* bind_unix and the identity of the node it made.                          *)

Bind(i) ==
  /\ pc[i] = "bind"
  /\ IF node = NoNode THEN Goto(i, "listen") /\ node' = i
                      ELSE Goto(i, "failed") /\ UNCHANGED node
  /\ UNCHANGED <<bound, listening, pending, deleted>>

Listen(i) ==
  /\ pc[i] = "listen" /\ Goto(i, "identify")
  /\ listening' = [listening EXCEPT ![i] = TRUE]
  /\ UNCHANGED <<node, bound, pending, deleted>>

Identify(i) ==
  /\ pc[i] = "identify" /\ Goto(i, "serving")
  /\ bound' = [bound EXCEPT ![i] = node]
  /\ UNCHANGED <<node, listening, pending, deleted>>

-----------------------------------------------------------------------------
(* The accept loop and the drain, as far as the kernel's queue shows them:  *)
(* an accept needs a connection slot, and a draining server accepts no more.*)

ClientConnects(i) ==
  /\ node = i /\ listening[i] /\ pending[i] < Clients /\ pending[i] < Backlog
  /\ pending' = [pending EXCEPT ![i] = @ + 1]
  /\ UNCHANGED <<pc, node, bound, listening, deleted>>

Accept(i) ==
  /\ pc[i] = "serving" /\ pending[i] > 0
  /\ pending' = [pending EXCEPT ![i] = @ - 1]
  /\ UNCHANGED <<pc, node, bound, listening, deleted>>

ShutDown(i) ==
  /\ pc[i] = "serving" /\ Goto(i, "draining")
  /\ UNCHANGED <<node, bound, listening, pending, deleted>>

Drained(i) ==
  /\ pc[i] = "draining" /\ Goto(i, "check")
  /\ UNCHANGED <<node, bound, listening, pending, deleted>>

\* The listener is dropped as the function returns, its queue with it.
Close(i) ==
  /\ listening' = [listening EXCEPT ![i] = FALSE]
  /\ pending' = [pending EXCEPT ![i] = 0]

\* Mutant: whatever is at the path is removed.
Ours_anything(i) == node # NoNode

Ours(i) == bound[i] # NoNode /\ bound[i] = node

CheckIdentity(i) ==
  /\ pc[i] = "check"
  /\ IF Ours(i) THEN Goto(i, "unlink") /\ UNCHANGED <<listening, pending>>
                ELSE Goto(i, "returned") /\ Close(i)
  /\ UNCHANGED <<node, bound, deleted>>

Unlink(i) ==
  /\ pc[i] = "unlink" /\ Goto(i, "returned")
  /\ node' = NoNode
  /\ Close(i)
  /\ UNCHANGED <<bound, deleted>>

-----------------------------------------------------------------------------
(* What the process cannot prevent: a crash leaves the node behind, and     *)
(* somebody deletes the path of a running server (but not in the moment     *)
(* between the two system calls of its own removal).                        *)

Crash(i) ==
  /\ pc[i] \in Starting \cup Running /\ Goto(i, "crashed")
  /\ Close(i)
  /\ UNCHANGED <<node, bound, deleted>>

PathDeleted ==
  /\ node # NoNode
  /\ \A i \in Server : pc[i] # "unlink"
  /\ node' = NoNode /\ deleted' = TRUE
  /\ UNCHANGED <<pc, bound, listening, pending>>

Step(i) == \/ StartUp(i) \/ Stat(i) \/ Probe(i) \/ Remove(i) \/ Bind(i)
           \/ Listen(i) \/ Identify(i) \/ Accept(i)
           \/ ShutDown(i) \/ Drained(i) \/ CheckIdentity(i) \/ Unlink(i)

Next == \/ \E i \in Server : Step(i) \/ ClientConnects(i) \/ Crash(i)
        \/ PathDeleted

Spec == Init /\ [][Next]_vars

-----------------------------------------------------------------------------
\* "A second instance started on a path already in use refuses instead of
\* taking it over": while an instance serves, the path leads to it, unless
\* somebody else deleted it.
ServingIsReachable ==
  ~deleted => \A i \in Server : pc[i] \in {"serving", "draining"} => node = i

\* No start fails on what a dead process left at the path, and one is turned
\* away only by a live server, wherever the dead one crashed.
NoStartBlocked ==
  /\ TypeOK
  /\ \A i \in Server : /\ pc[i] # "failed"
                      /\ pc[i] = "bind" => node = NoNode

\* Shutdown removes the server's own node, whatever it began to serve under, and
\* nothing else: it never takes a live successor off the air, even when the path
\* was deleted and taken over while it drained.
UnlinksOnlyOwn ==
  [][\A i \in Server : pc[i] # "returned" /\ pc'[i] = "returned"
       => node' # i /\ (pc[i] = "unlink" => node \in {i, NoNode})]_vars
=============================================================================
