--------------------------- MODULE UnixSocket_proofs ---------------------------
(***************************************************************************)
(* What serve_unix promises about its path, for any number of instances and *)
(* any backlog, when instances are started one at a time and the backlog    *)
(* has room for the clients and for a probe of every other instance.  Each  *)
(* of the two is needed: without the first, two instances take the node     *)
(* from one another between a probe and a bind, and without the second a    *)
(* full queue passes for a dead socket, which is the run UnixSaturated.     *)
(***************************************************************************)
EXTENDS UnixSocket, Counting

Roomy == IsFiniteSet(Server) /\ Clients + Cardinality(Server) <= Backlog + 1

OneStarts == \A i, j \in Server : pc[i] \in Starting /\ pc[j] \in Starting => i = j

\* A socket listens from listen(2) on until its instance is gone.
Listens == \A i \in Server : listening[i] <=> pc[i] \in Running \cup {"identify"}

\* What is about to be removed is nobody's, and then there is nothing in the way.
StartOwns ==
  \A i \in Server :
    /\ pc[i] = "remove" /\ node \in Server => ~listening[node]
    /\ pc[i] = "bind" => node = NoNode
    /\ pc[i] \in {"listen", "identify"} => node \in {i, NoNode}
    /\ pc[i] # "failed"

\* The remembered identity is that of the node the instance made, if it was still
\* there to be asked for.
Remembers ==
  \A i \in Server :
    /\ pc[i] \in Running => bound[i] \in {i, NoNode} /\ (node = i => bound[i] = i)
    /\ pc[i] = "unlink" => node = i

Reachable ==
  ~deleted => \A i \in Server : pc[i] \in Running \cup {"listen", "identify"} => node = i

\* Every connection in a queue is a client's, or the probe of an instance that was
\* turned away.
TurnedAway == {i \in Server : pc[i] = "inUse"}
QueuesHaveRoom == \A i \in Server : pending[i] <= Clients + Cardinality(TurnedAway)

IInv == /\ TypeOK /\ OneStarts /\ Listens /\ StartOwns /\ Remembers /\ Reachable
        /\ QueuesHaveRoom

-----------------------------------------------------------------------------
(* IInv is inductive.                                                       *)

\* The queue of a socket that is probed is never full.
LEMMA RoomForProbe ==
  ASSUME Roomy, IInv, NEW i \in Server, pc[i] = "probe", node \in Server, listening[node]
  PROVE  pending[node] < Backlog
<1>1. pc[node] # "probe" /\ pc[node] # "inUse"
  BY DEF IInv, Listens, Running
<1> DEFINE Others == (Server \ {i}) \ {node}
<1>2. TurnedAway \subseteq Others
  BY <1>1 DEF TurnedAway
<1>3. IsFiniteSet(Others) /\ Cardinality(Others) = Cardinality(Server) - 2
  <2>1. IsFiniteSet(Server) /\ IsFiniteSet(Server \ {i}) /\ Cardinality(Server) \in Nat
        /\ Cardinality(Server \ {i}) = Cardinality(Server) - 1
    BY FS_RemoveElement, FS_CardinalityType DEF Roomy
  <2>2. node \in Server \ {i}
    BY <1>1
  <2>3. /\ IsFiniteSet((Server \ {i}) \ {node})
        /\ Cardinality((Server \ {i}) \ {node}) = Cardinality(Server \ {i}) - 1
    BY <2>1, <2>2, FS_RemoveElement
  <2> QED
    BY <2>1, <2>3
<1>4. Cardinality(TurnedAway) \in Nat /\ Cardinality(TurnedAway) <= Cardinality(Server) - 2
  BY <1>2, <1>3, FS_Subset, FS_CardinalityType
<1>5. pending[node] \in Nat /\ pending[node] <= Clients + Cardinality(TurnedAway)
  BY Sizes DEF IInv, TypeOK, QueuesHaveRoom
<1>6. Cardinality(Server) \in Nat
  BY FS_CardinalityType DEF Roomy
<1> QED
  BY <1>4, <1>5, <1>6, Sizes DEF Roomy

\* The instances that were turned away are a finite set.
LEMMA TurnedAwayFinite ==
  ASSUME Roomy
  PROVE  IsFiniteSet(TurnedAway) /\ Cardinality(TurnedAway) \in Nat
<1>1. TurnedAway \subseteq Server
  BY DEF TurnedAway
<1> QED
  BY <1>1, FS_Subset, FS_CardinalityType DEF Roomy

\* Steps that turn nobody away, and after which no queue is longer.
LEMMA RoomKept ==
  ASSUME QueuesHaveRoom, TurnedAway' = TurnedAway,
         TypeOK, Roomy, pending' \in [Server -> 0..Backlog],
         \A i \in Server : pending'[i] <= pending[i] \/ pending'[i] <= Clients
  PROVE  QueuesHaveRoom'
<1>1. Cardinality(TurnedAway) \in Nat
  BY TurnedAwayFinite
<1> QED
  BY <1>1, Sizes DEF QueuesHaveRoom, TypeOK

\* Every path starts with the invariant.
LEMMA InitIInv == ASSUME Roomy PROVE Init => IInv
<1> SUFFICES ASSUME Init PROVE IInv
  OBVIOUS
<1>1. TypeOK
  <2>1. 0 \in 0..Backlog
    BY Sizes
  <2> QED
    BY <2>1 DEF Init, TypeOK, Nodes
<1>2. OneStarts /\ Listens /\ StartOwns /\ Remembers /\ Reachable
  BY DEF Init, OneStarts, Listens, StartOwns, Remembers, Reachable, Starting, Running
<1>3. Cardinality(TurnedAway) \in Nat
  BY TurnedAwayFinite
<1> QED
  BY <1>1, <1>2, <1>3, Sizes DEF Init, QueuesHaveRoom, IInv

\* The steps of a start.
LEMMA StartIInv ==
  ASSUME Serialised, Roomy, IInv, NEW i \in Server,
         StartUp(i) \/ Stat(i) \/ Probe(i) \/ Remove(i) \/ Bind(i) \/ Listen(i) \/ Identify(i)
  PROVE  IInv'
<1> USE DEF Goto, Starting, Running, Ended
<1>1. CASE StartUp(i) \/ Stat(i)
  <2>1. TypeOK' /\ TurnedAway' = TurnedAway
    BY <1>1 DEF StartUp, Stat, IInv, TypeOK, TurnedAway
  <2>2. OneStarts' /\ Listens'
    BY <1>1 DEF StartUp, Stat, IInv, TypeOK, OneStarts, Listens
  <2>3. StartOwns'
    BY <1>1, Names DEF StartUp, Stat, IInv, TypeOK, StartOwns
  <2>4. Remembers' /\ Reachable'
    BY <1>1 DEF StartUp, Stat, IInv, TypeOK, Remembers, Reachable
  <2>5. QueuesHaveRoom'
    BY <1>1, <2>1, RoomKept DEF StartUp, Stat, IInv, TypeOK
  <2> QED
    BY <2>1, <2>2, <2>3, <2>4, <2>5 DEF IInv
<1>2. CASE Probe(i)
  <2>1. CASE Answers
    <3>1. TypeOK'
      BY <1>2, <2>1, Sizes DEF Probe, Answers, IInv, TypeOK
    <3>2. OneStarts' /\ Listens' /\ StartOwns'
      BY <1>2, <2>1 DEF Probe, IInv, TypeOK, OneStarts, Listens, StartOwns
    <3>3. Remembers' /\ Reachable'
      BY <1>2, <2>1 DEF Probe, IInv, TypeOK, Remembers, Reachable
    <3>4. Cardinality(TurnedAway') = Cardinality(TurnedAway) + 1
      <4>1. TurnedAway' = TurnedAway \cup {i} /\ i \notin TurnedAway
        BY <1>2, <2>1 DEF Probe, IInv, TypeOK, TurnedAway
      <4> QED
        BY <4>1, TurnedAwayFinite, FS_AddElement
    <3>5. \A j \in Server : pending'[j] <= pending[j] + 1 /\ pending[j] \in Nat
      BY <1>2, <2>1, Sizes DEF Probe, Answers, IInv, TypeOK
    <3>6. QueuesHaveRoom'
      <4>1. \A j \in Server : /\ pending[j] <= Clients + Cardinality(TurnedAway)
                              /\ pending'[j] \in Nat
        BY <3>1, Sizes DEF IInv, QueuesHaveRoom, TypeOK
      <4>2. Cardinality(TurnedAway) \in Nat /\ Clients \in Nat
        BY TurnedAwayFinite, Sizes
      <4>3. QueuesHaveRoom' <=>
              \A j \in Server : pending'[j] <= Clients + Cardinality(TurnedAway')
        BY DEF QueuesHaveRoom
      <4> QED
        BY <3>4, <3>5, <4>1, <4>2, <4>3
    <3> QED
      BY <3>1, <3>2, <3>3, <3>6 DEF IInv
  <2>2. CASE ~Answers
    <3>1. pc[i] = "probe" /\ pc' = [pc EXCEPT ![i] = "remove"]
          /\ UNCHANGED <<node, bound, listening, pending, deleted>>
      BY <1>2, <2>2 DEF Probe
    <3>2. node \in Server => ~listening[node]
      BY <2>2, <3>1, RoomForProbe DEF Answers
    <3>3. TypeOK' /\ TurnedAway' = TurnedAway
      BY <3>1 DEF IInv, TypeOK, TurnedAway
    <3>4. OneStarts' /\ Listens' /\ StartOwns'
      BY <3>1, <3>2 DEF IInv, TypeOK, OneStarts, Listens, StartOwns
    <3>5. Remembers' /\ Reachable'
      BY <3>1 DEF IInv, TypeOK, Remembers, Reachable
    <3>6. QueuesHaveRoom'
      BY <3>1, <3>3, RoomKept DEF IInv, TypeOK
    <3> QED
      BY <3>3, <3>4, <3>5, <3>6 DEF IInv
  <2> QED
    BY <2>1, <2>2
<1>3. CASE Remove(i) \/ Bind(i)
  <2>1. TypeOK' /\ TurnedAway' = TurnedAway
    BY <1>3 DEF Remove, Bind, IInv, StartOwns, TypeOK, Nodes, TurnedAway
  <2>2. OneStarts' /\ Listens'
    BY <1>3 DEF Remove, Bind, IInv, TypeOK, OneStarts, StartOwns, Listens
  <2>3. StartOwns'
    BY <1>3, Names DEF Remove, Bind, IInv, TypeOK, OneStarts, StartOwns
  <2>4. Remembers'
    BY <1>3, Names DEF Remove, Bind, IInv, TypeOK, Listens, StartOwns, Remembers
  <2>5. Reachable'
    BY <1>3, Names DEF Remove, Bind, IInv, TypeOK, OneStarts, Listens, StartOwns, Reachable
  <2>6. QueuesHaveRoom'
    BY <1>3, <2>1, RoomKept DEF Remove, Bind, IInv, TypeOK
  <2> QED
    BY <2>1, <2>2, <2>3, <2>4, <2>5, <2>6 DEF IInv
<1>4. CASE Listen(i) \/ Identify(i)
  <2>1. TypeOK' /\ TurnedAway' = TurnedAway
    BY <1>4 DEF Listen, Identify, IInv, TypeOK, TurnedAway
  <2>2. OneStarts' /\ Listens'
    BY <1>4 DEF Listen, Identify, IInv, TypeOK, OneStarts, Listens
  <2>3. StartOwns'
    BY <1>4, Names DEF Listen, Identify, IInv, TypeOK, OneStarts, StartOwns
  <2>4. Remembers' /\ Reachable'
    BY <1>4, Names DEF Listen, Identify, IInv, TypeOK, StartOwns, Remembers, Reachable
  <2>5. QueuesHaveRoom'
    BY <1>4, <2>1, RoomKept DEF Listen, Identify, IInv, TypeOK
  <2> QED
    BY <2>1, <2>2, <2>3, <2>4, <2>5 DEF IInv
<1> QED
  BY <1>1, <1>2, <1>3, <1>4

\* The accept loop, the drain and the removal.
LEMMA RunIInv ==
  ASSUME Serialised, Roomy, IInv, NEW i \in Server,
         \/ Accept(i) \/ ShutDown(i) \/ Drained(i) \/ CheckIdentity(i) \/ Unlink(i)
         \/ ClientConnects(i)
  PROVE  IInv'
<1> USE DEF Goto, Starting, Running, Ended
<1>1. CASE Accept(i) \/ ClientConnects(i)
  <2>1. /\ UNCHANGED <<pc, node, bound, listening, deleted>>
        /\ pending' \in [Server -> 0..Backlog]
        /\ \A j \in Server : pending'[j] <= pending[j] \/ pending'[j] <= Clients
    BY <1>1, Sizes DEF Accept, ClientConnects, IInv, TypeOK
  <2>2. TypeOK' /\ TurnedAway' = TurnedAway
    BY <2>1 DEF IInv, TypeOK, TurnedAway
  <2>3. OneStarts' /\ Listens' /\ StartOwns' /\ Remembers' /\ Reachable'
    BY <2>1 DEF IInv, OneStarts, Listens, StartOwns, Remembers, Reachable
  <2> QED
    BY <2>1, <2>2, <2>3, RoomKept DEF IInv
<1>2. CASE ShutDown(i) \/ Drained(i)
  <2>1. TypeOK' /\ TurnedAway' = TurnedAway
    BY <1>2 DEF ShutDown, Drained, IInv, TypeOK, TurnedAway
  <2>2. OneStarts' /\ Listens' /\ StartOwns' /\ Remembers' /\ Reachable'
    BY <1>2 DEF ShutDown, Drained, IInv, TypeOK, OneStarts, Listens, StartOwns, Remembers, Reachable
  <2>3. QueuesHaveRoom'
    BY <1>2, <2>1, RoomKept DEF ShutDown, Drained, IInv, TypeOK
  <2> QED
    BY <2>1, <2>2, <2>3 DEF IInv
<1>3. CASE CheckIdentity(i) /\ Ours(i)
  <2>1. pc[i] = "check" /\ pc' = [pc EXCEPT ![i] = "unlink"] /\ node = i
        /\ UNCHANGED <<node, bound, listening, pending, deleted>>
    BY <1>3 DEF CheckIdentity, Ours, IInv, Remembers
  <2>2. TypeOK' /\ TurnedAway' = TurnedAway
    BY <2>1 DEF IInv, TypeOK, TurnedAway
  <2>3. OneStarts' /\ Listens' /\ StartOwns' /\ Remembers' /\ Reachable'
    BY <2>1 DEF IInv, TypeOK, OneStarts, Listens, StartOwns, Remembers, Reachable
  <2>4. QueuesHaveRoom'
    BY <2>1, <2>2, RoomKept DEF IInv, TypeOK
  <2> QED
    BY <2>2, <2>3, <2>4 DEF IInv
<1>4. CASE (CheckIdentity(i) /\ ~Ours(i)) \/ Unlink(i)
  <2>1. /\ pc[i] \in {"check", "unlink"} /\ pc' = [pc EXCEPT ![i] = "returned"] /\ Close(i)
        /\ UNCHANGED <<bound, deleted>>
        /\ \/ UNCHANGED node
           \/ pc[i] = "unlink" /\ node = i /\ node' = NoNode
    BY <1>4 DEF CheckIdentity, Unlink, IInv, Remembers
  <2>2. TypeOK' /\ TurnedAway' = TurnedAway
    BY <2>1, Sizes DEF Close, IInv, TypeOK, TurnedAway, Nodes
  <2>3. OneStarts' /\ Listens'
    BY <2>1 DEF Close, IInv, TypeOK, OneStarts, Listens
  <2>4. StartOwns'
    BY <2>1, Names DEF Close, IInv, TypeOK, StartOwns
  <2>5. Remembers' /\ Reachable'
    BY <2>1, Names DEF IInv, TypeOK, Remembers, Reachable
  <2>6. QueuesHaveRoom'
    <3>1. \A j \in Server : pending'[j] <= pending[j]
      BY <2>1, Sizes DEF Close, IInv, TypeOK
    <3> QED
      BY <2>2, <3>1, RoomKept DEF IInv, TypeOK
  <2> QED
    BY <2>2, <2>3, <2>4, <2>5, <2>6 DEF IInv
<1> QED
  BY <1>1, <1>2, <1>3, <1>4

\* A crash, and a deletion by somebody else.
LEMMA EnvironmentIInv ==
  ASSUME Roomy, IInv, PathDeleted \/ \E i \in Server : Crash(i)
  PROVE  IInv'
<1> USE DEF Goto, Starting, Running, Ended
<1>1. CASE PathDeleted
  <2>1. TypeOK' /\ TurnedAway' = TurnedAway
    BY <1>1 DEF PathDeleted, IInv, TypeOK, Nodes, TurnedAway
  <2>2. OneStarts' /\ Listens' /\ StartOwns' /\ Remembers' /\ Reachable'
    BY <1>1, Names DEF PathDeleted, IInv, OneStarts, Listens, StartOwns, Remembers, Reachable
  <2>3. QueuesHaveRoom'
    BY <1>1, <2>1, RoomKept DEF PathDeleted, IInv, TypeOK
  <2> QED
    BY <2>1, <2>2, <2>3 DEF IInv
<1>2. CASE \E i \in Server : Crash(i)
  <2> PICK i \in Server : Crash(i)
    BY <1>2
  <2>1. TypeOK' /\ TurnedAway' = TurnedAway
    BY Sizes DEF Crash, Close, IInv, TypeOK, TurnedAway
  <2>2. OneStarts' /\ Listens'
    BY DEF Crash, Close, IInv, TypeOK, OneStarts, Listens
  <2>3. StartOwns' /\ Remembers' /\ Reachable'
    BY DEF Crash, Close, IInv, TypeOK, StartOwns, Remembers, Reachable
  <2>4. QueuesHaveRoom'
    <3>1. \A j \in Server : pending'[j] <= pending[j]
      BY Sizes DEF Crash, Close, IInv, TypeOK
    <3> QED
      BY <2>1, <3>1, RoomKept DEF IInv, TypeOK
  <2> QED
    BY <2>1, <2>2, <2>3, <2>4 DEF IInv
<1> QED
  BY <1>1, <1>2

\* Every step of an instance or around it keeps the invariant.
LEMMA NextIInv ==
  ASSUME Serialised, Roomy
  PROVE  IInv /\ [Next]_vars => IInv'
<1> SUFFICES ASSUME IInv, [Next]_vars PROVE IInv'
  OBVIOUS
<1>1. CASE \E i \in Server : Step(i) \/ ClientConnects(i)
  <2> PICK i \in Server : Step(i) \/ ClientConnects(i)
    BY <1>1
  <2>1. CASE \/ StartUp(i) \/ Stat(i) \/ Probe(i) \/ Remove(i) \/ Bind(i)
             \/ Listen(i) \/ Identify(i)
    BY <2>1, StartIInv
  <2>2. CASE \/ Accept(i) \/ ShutDown(i) \/ Drained(i) \/ CheckIdentity(i) \/ Unlink(i)
             \/ ClientConnects(i)
    BY <2>2, RunIInv
  <2> QED
    BY <2>1, <2>2 DEF Step
<1>2. CASE PathDeleted \/ \E i \in Server : Crash(i)
  BY <1>2, EnvironmentIInv
<1>3. CASE UNCHANGED vars
  <2>1. TypeOK' /\ TurnedAway' = TurnedAway /\ UNCHANGED pending
    BY <1>3 DEF vars, IInv, TypeOK, TurnedAway
  <2>2. OneStarts' /\ Listens' /\ StartOwns' /\ Remembers' /\ Reachable'
    BY <1>3 DEF vars, IInv, OneStarts, Listens, StartOwns, Remembers, Reachable
  <2> QED
    BY <2>1, <2>2 DEF IInv, QueuesHaveRoom
<1> QED
  BY <1>1, <1>2, <1>3 DEF Next

\* The invariant that the other theorems rest on always holds.
THEOREM Invariance ==
  ASSUME Serialised, Roomy
  PROVE  Spec => []IInv
<1>1. Init => IInv
  BY InitIInv
<1>2. IInv /\ [Next]_vars => IInv'
  BY NextIInv
<1> QED
  BY <1>1, <1>2, PTL DEF Spec

-----------------------------------------------------------------------------
(* What it says.                                                            *)

\* However many instances are started one after another on one path, and
\* whichever of them crash, the path leads to the one that serves.
THEOREM ServingStaysReachable ==
  ASSUME Serialised, Roomy
  PROVE  Spec => []ServingIsReachable
<1>1. IInv => ServingIsReachable
  BY DEF IInv, Reachable, ServingIsReachable, Running
<1>2. Spec => []IInv
  BY Invariance
<1> QED
  BY <1>1, <1>2, PTL

\* No start fails on what an instance before it left at the path.
THEOREM StartsAreNotBlocked ==
  ASSUME Serialised, Roomy
  PROVE  Spec => []NoStartBlocked
<1>1. IInv => NoStartBlocked
  BY DEF IInv, StartOwns, NoStartBlocked
<1>2. Spec => []IInv
  BY Invariance
<1> QED
  BY <1>1, <1>2, PTL

\* A shutdown removes the node of the instance that shuts down and no other, also
\* when the path was deleted and taken over while it drained.
THEOREM OnlyOwnIsUnlinked ==
  ASSUME Serialised, Roomy
  PROVE  Spec => UnlinksOnlyOwn
<1> DEFINE Own == \A i \in Server : pc[i] # "returned" /\ pc'[i] = "returned"
                    => node' # i /\ (pc[i] = "unlink" => node \in {i, NoNode})
<1>1. IInv /\ [Next]_vars => [Own]_vars
  <2> SUFFICES ASSUME IInv, Next, NEW i \in Server, pc[i] # "returned", pc'[i] = "returned"
               PROVE  node' # i /\ (pc[i] = "unlink" => node \in {i, NoNode})
    OBVIOUS
  <2>1. CheckIdentity(i) \/ Unlink(i)
    BY DEF Next, Step, Goto, IInv, TypeOK, StartUp, Stat, Probe, Remove, Bind, Listen,
           Identify, Accept, ShutDown, Drained, ClientConnects, Crash, PathDeleted,
           CheckIdentity, Unlink
  <2>2. CASE CheckIdentity(i)
    BY <2>2, Names DEF CheckIdentity, Ours, Goto, IInv, TypeOK, Remembers, Running
  <2>3. CASE Unlink(i)
    BY <2>3, Names DEF Unlink, IInv, Remembers
  <2> QED
    BY <2>1, <2>2, <2>3
<1>2. Spec => []IInv
  BY Invariance
<1> QED
  BY <1>1, <1>2, PTL DEF Spec, UnlinksOnlyOwn
=============================================================================
