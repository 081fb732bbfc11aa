----------------------------- MODULE Serve_proofs -----------------------------
(***************************************************************************)
(* The budgets and the drain of Serve, for any listeners, connections and   *)
(* settings.  IInv is inductive: a permit is either free, held by a parked  *)
(* loop or held by a connection whose place tells who holds its guard.      *)
(* What a connection has waited for its handshake stays below the timeout.  *)
(***************************************************************************)
EXTENDS Serve, Counting

\* The sets that are counted are finite.
LEMMA AllFinite ==
  /\ IsFiniteSet(Parked) /\ IsFiniteSet(Admitted) /\ IsFiniteSet(Shaking)
  /\ Cardinality(Parked) \in Nat /\ Cardinality(Admitted) \in Nat
  /\ Cardinality(Shaking) \in Nat
<1>1. Parked \subseteq Listener /\ Admitted \subseteq Conn /\ Shaking \subseteq Conn
  BY DEF Parked, Admitted, Shaking
<1>2. IsFiniteSet(Parked) /\ IsFiniteSet(Admitted) /\ IsFiniteSet(Shaking)
  BY <1>1, FS_Subset, ListenersFinite, ConnsFinite
<1> QED
  BY <1>2, FS_CardinalityType

-----------------------------------------------------------------------------
(* What one loop, or one connection, changing its place does to the counts. *)

\* One accept loop moves: the parked loops differ by it at most.
LEMMA ParkedStep ==
  ASSUME TypeOK, NEW l \in Listener, NEW s \in LoopStates, pc' = [pc EXCEPT ![l] = s]
  PROVE  Cardinality(Parked') = Cardinality(Parked) + One(s \in Parking) - One(pc[l] \in Parking)
<1>1. \A k : k # l => (k \in Parked <=> k \in Parked')
  BY DEF TypeOK, Parked
<1>2. (l \in Parked <=> pc[l] \in Parking) /\ (l \in Parked' <=> s \in Parking)
  BY DEF TypeOK, Parked
<1>3. Cardinality(Parked') = Cardinality(Parked) + One(l \in Parked') - One(l \in Parked)
  BY <1>1, AllFinite, OneElement
<1> QED
  BY <1>2, <1>3 DEF One

\* One connection moves: the handshakes in progress differ by it at most.
LEMMA ShakingStep ==
  ASSUME TypeOK, NEW c \in Conn, NEW s \in ConnStates, conn' = [conn EXCEPT ![c] = s]
  PROVE  Cardinality(Shaking') =
           Cardinality(Shaking) + One(s = "shaking") - One(conn[c] = "shaking")
<1>1. \A k : k # c => (k \in Shaking <=> k \in Shaking')
  BY DEF TypeOK, Shaking
<1>2. (c \in Shaking <=> conn[c] = "shaking") /\ (c \in Shaking' <=> s = "shaking")
  BY DEF TypeOK, Shaking
<1>3. Cardinality(Shaking') = Cardinality(Shaking) + One(c \in Shaking') - One(c \in Shaking)
  BY <1>1, AllFinite, OneElement
<1> QED
  BY <1>2, <1>3 DEF One

\* One connection changes its guards: the admitted ones differ by it at most.
LEMMA AdmittedStep ==
  ASSUME TypeOK, NEW c \in Conn,
         \A k \in Conn \ {c} : loopHolds'[k] = loopHolds[k] /\ wsHolds'[k] = wsHolds[k]
  PROVE  Cardinality(Admitted') = Cardinality(Admitted)
           + One(loopHolds'[c] \/ wsHolds'[c]) - One(loopHolds[c] \/ wsHolds[c])
<1>1. \A k : k # c => (k \in Admitted <=> k \in Admitted')
  BY DEF Admitted
<1>2. /\ c \in Admitted <=> loopHolds[c] \/ wsHolds[c]
      /\ c \in Admitted' <=> loopHolds'[c] \/ wsHolds'[c]
  BY DEF Admitted
<1>3. Cardinality(Admitted') = Cardinality(Admitted) + One(c \in Admitted') - One(c \in Admitted)
  BY <1>1, AllFinite, OneElement
<1> QED
  BY <1>2, <1>3 DEF One

-----------------------------------------------------------------------------
(* IInv is inductive.                                                       *)

\* The share of a worker is positive when the cap is, and never above it.
LEMMA BudgetIsNat ==
  ASSUME config \in Configs
  PROVE  /\ Budget \in Nat /\ Budget <= MaxConnections
         /\ MaxConnections > 0 => Budget > 0
<1>1. MaxConnections \in Caps
  BY DEF Configs, MaxConnections
<1>2. MaxConnections \in Nat
  BY <1>1, CapsAreNat
<1>3. CASE Workers = 0
  BY <1>2, <1>3 DEF Budget
<1>4. CASE Workers > 0
  <2>1. \A m \in Nat, w \in Nat \ {0} : /\ m \div w \in Nat /\ m \div w <= m
                                        /\ m >= w => m \div w > 0
    OBVIOUS
  <2>2. MaxConnections > 0 => MaxConnections >= Workers
    BY <1>1, <1>2, <1>4, CapsDivide, WorkersAreNat
  <2> QED
    BY <1>2, <1>4, <2>1, <2>2, WorkersAreNat DEF Budget
<1> QED
  BY <1>3, <1>4, WorkersAreNat

\* Every server starts with the invariant.
LEMMA InitIInv == Init => IInv
<1> SUFFICES ASSUME Init PROVE IInv
  OBVIOUS
<1>1. Budget \in Nat
  BY BudgetIsNat DEF Init
<1>2. TypeOK
  BY <1>1, CapsAreNat DEF Init, TypeOK, LoopStates, ConnStates
<1>3. Parked = {} /\ Admitted = {} /\ Shaking = {}
  BY DEF Init, Parked, Parking, Admitted, Shaking
<1>4. PermitsExact
  BY <1>1, <1>3, FS_EmptySet, CapsAreNat DEF Init, PermitsExact
<1>5. GuardsMatch
  BY DEF Init, GuardsMatch, Active
<1>6. ReturnedMeansDrained
  BY <1>2 DEF Init, TypeOK, ReturnedMeansDrained
<1> QED
  BY <1>2, <1>4, <1>5, <1>6 DEF IInv

\* An accept loop moves and pays for its place: nothing else changes.
LEMMA LoopMoves ==
  ASSUME IInv, NEW l \in Listener, NEW s \in LoopStates,
         pc' = [pc EXCEPT ![l] = s],
         free' \in Nat,
         Budget > 0 => free' + One(s \in Parking) = free + One(pc[l] \in Parking),
         s = "returned" /\ ~ShutdownTimeout => Token(l) = {},
         UNCHANGED <<config, conn, home, guards, busy, hsFree, stop>>
  PROVE  IInv'
<1> USE DEF IInv, guards
<1>1. TypeOK'
  BY DEF TypeOK
<1>2. GuardsMatch'
  BY DEF GuardsMatch
<1>3. Cardinality(Parked') = Cardinality(Parked) + One(s \in Parking) - One(pc[l] \in Parking)
  BY ParkedStep
<1>4. Admitted' = Admitted /\ Shaking' = Shaking /\ Budget' = Budget
  BY DEF Admitted, Shaking, Budget, MaxConnections
<1>5. Budget > 0 => free' + Cardinality(Parked') + Cardinality(Admitted) = Budget
  <2>1. /\ Budget \in Nat /\ free \in Nat
        /\ Budget > 0 => free + Cardinality(Parked) + Cardinality(Admitted) = Budget
    BY BudgetIsNat DEF PermitsExact, TypeOK
  <2>2. One(s \in Parking) \in Int /\ One(pc[l] \in Parking) \in Int
    BY DEF One
  <2> QED
    BY <1>3, <2>1, <2>2, AllFinite
<1>6. PermitsExact'
  BY <1>4, <1>5 DEF PermitsExact
<1>7. ReturnedMeansDrained'
  <2> SUFFICES ASSUME ~ShutdownTimeout, NEW c \in Conn, pc'[home[c]] = "returned"
               PROVE  conn[c] \in {"out", "backlog", "gone"} /\ ~wsHolds[c]
    BY DEF ReturnedMeansDrained, ShutdownTimeout
  <2>1. CASE pc[home[c]] = "returned"
    BY <2>1 DEF ReturnedMeansDrained
  <2>2. CASE pc[home[c]] # "returned"
    <3>1. home[c] = l /\ s = "returned"
      BY <2>2 DEF TypeOK
    <3>2. c \notin Token(l)
      BY <3>1
    <3>3. ~loopHolds[c] /\ ~wsHolds[c]
      BY <3>1, <3>2 DEF Token, Admitted
    <3>4. conn[c] \in ConnStates \ Active
      BY <3>3 DEF GuardsMatch, TypeOK
    <3> QED
      BY <3>3, <3>4 DEF ConnStates, Active
  <2> QED
    BY <2>1, <2>2
<1> QED
  BY <1>1, <1>2, <1>6, <1>7

\* A connection moves, together with what it holds of the two budgets.
LEMMA ConnMoves ==
  ASSUME IInv, NEW c \in Conn, NEW s \in ConnStates,
         conn' = [conn EXCEPT ![c] = s],
         loopHolds' \in [Conn -> BOOLEAN], wsHolds' \in [Conn -> BOOLEAN],
         busy' \in [Conn -> BOOLEAN],
         \A k \in Conn \ {c} : loopHolds'[k] = loopHolds[k] /\ wsHolds'[k] = wsHolds[k],
         loopHolds'[c] <=> s \in Active,
         wsHolds'[c] => s \in {"upgraded", "gone"},
         free' \in Nat,
         Budget > 0 => free' + One(loopHolds'[c] \/ wsHolds'[c])
                         = free + One(loopHolds[c] \/ wsHolds[c]),
         hsFree' \in Nat,
         MaxHandshakes > 0 => hsFree' + One(s = "shaking") = hsFree + One(conn[c] = "shaking"),
         s = "backlog" \/ conn[c] \in Active \/ wsHolds[c],
         s = "backlog" => ~wsHolds'[c],
         UNCHANGED <<config, pc, home, stop>>
  PROVE  IInv'
<1> USE DEF IInv
<1>1. TypeOK'
  BY DEF TypeOK
<1>2. GuardsMatch'
  BY DEF GuardsMatch, TypeOK
<1>3. Cardinality(Admitted') = Cardinality(Admitted)
        + One(loopHolds'[c] \/ wsHolds'[c]) - One(loopHolds[c] \/ wsHolds[c])
  BY AdmittedStep
<1>4. Cardinality(Shaking') = Cardinality(Shaking) + One(s = "shaking") - One(conn[c] = "shaking")
  BY ShakingStep
<1>5. Parked' = Parked /\ Budget' = Budget
  BY DEF Parked, Budget, MaxConnections
<1>6. Budget > 0 => free' + Cardinality(Parked) + Cardinality(Admitted') = Budget
  <2>1. /\ Budget \in Nat /\ free \in Nat
        /\ Budget > 0 => free + Cardinality(Parked) + Cardinality(Admitted) = Budget
    BY BudgetIsNat DEF PermitsExact, TypeOK
  <2>2. One(loopHolds'[c] \/ wsHolds'[c]) \in Int /\ One(loopHolds[c] \/ wsHolds[c]) \in Int
    BY DEF One
  <2> QED
    BY <1>3, <2>1, <2>2, AllFinite
<1>7. MaxHandshakes > 0 => hsFree' + Cardinality(Shaking') = MaxHandshakes
  <2>1. /\ hsFree \in Nat /\ MaxHandshakes \in Nat
        /\ MaxHandshakes > 0 => hsFree + Cardinality(Shaking) = MaxHandshakes
    BY CapsAreNat DEF PermitsExact, TypeOK
  <2>2. One(s = "shaking") \in Int /\ One(conn[c] = "shaking") \in Int
    BY DEF One
  <2> QED
    BY <1>4, <2>1, <2>2, AllFinite
<1>8. PermitsExact'
  BY <1>5, <1>6, <1>7 DEF PermitsExact
<1>9. ReturnedMeansDrained'
  <2> SUFFICES ASSUME ~ShutdownTimeout, NEW k \in Conn, pc[home[k]] = "returned"
               PROVE  conn'[k] \in {"out", "backlog", "gone"} /\ ~wsHolds'[k]
    BY DEF ReturnedMeansDrained, ShutdownTimeout
  <2>1. conn[k] \in {"out", "backlog", "gone"} /\ ~wsHolds[k]
    BY DEF ReturnedMeansDrained
  <2>2. CASE k = c
    BY <2>1, <2>2 DEF Active, TypeOK
  <2>3. CASE k # c
    BY <2>1, <2>3 DEF TypeOK
  <2> QED
    BY <2>2, <2>3
<1> QED
  BY <1>1, <1>2, <1>8, <1>9

\* The steps of an accept loop keep the invariant.
LEMMA LoopStepIInv ==
  ASSUME IInv, NEW l \in Listener, LoopStep(l), ~Accept(l)
  PROVE  IInv'
<1> USE DEF IInv
<1>1. free \in Nat /\ Budget \in Nat
  BY BudgetIsNat DEF TypeOK
<1>2. CASE AcquireSlot(l)
  <2>1. free' \in Nat /\ (Budget > 0 => free' = free - 1)
    BY <1>1, <1>2 DEF AcquireSlot, TakeSlot
  <2>2. One("accepting" \in Parking) = 1 /\ One(pc[l] \in Parking) = 0
    BY <1>2 DEF AcquireSlot, Parking, One
  <2>3. Budget > 0 => free' + One("accepting" \in Parking) = free + One(pc[l] \in Parking)
    BY <1>1, <2>1, <2>2
  <2> QED
    BY <1>2, <2>1, <2>3, LoopMoves DEF AcquireSlot, LoopStates
<1>3. CASE AcceptFails(l)
  BY <1>1, <1>3, LoopMoves DEF AcceptFails, LoopStates, Parking, One
<1>4. CASE BackoffOver(l)
  <2>1. free' \in Nat /\ (Budget > 0 => free' = free + 1)
    BY <1>1, <1>4 DEF BackoffOver, ReturnSlot
  <2>2. One("waiting" \in Parking) = 0 /\ One(pc[l] \in Parking) = 1
    BY <1>4 DEF BackoffOver, Parking, One
  <2>3. Budget > 0 => free' + One("waiting" \in Parking) = free + One(pc[l] \in Parking)
    BY <1>1, <2>1, <2>2
  <2> QED
    BY <1>4, <2>1, <2>3, LoopMoves DEF BackoffOver, LoopStates
<1>5. CASE LoopStops(l)
  <2>1. free' \in Nat /\ (Budget > 0 => free' = free + One(pc[l] \in Parking))
    BY <1>1, <1>5 DEF LoopStops, ReturnSlot, Parking, One
  <2>2. One("draining" \in Parking) = 0
    BY DEF Parking, One
  <2>3. Budget > 0 => free' + One("draining" \in Parking) = free + One(pc[l] \in Parking)
    BY <2>1, <2>2
  <2> QED
    BY <1>5, <2>1, <2>3, LoopMoves DEF LoopStops, LoopStates
<1>6. CASE Return(l)
  <2>1. pc[l] = "draining" /\ (~ShutdownTimeout => Token(l) = {})
    BY <1>6 DEF Return, Drained, GraceOver
  <2> QED
    BY <1>1, <1>6, <2>1, LoopMoves DEF Return, LoopStates, Parking, One
<1> QED
  BY <1>2, <1>3, <1>4, <1>5, <1>6 DEF LoopStep

\* An accepted connection takes over the permit its loop was parked with.
LEMMA AcceptIInv ==
  ASSUME IInv, NEW l \in Listener, Accept(l)
  PROVE  IInv'
<1> USE DEF IInv
<1>1. PICK c \in Conn :
        /\ conn[c] = "backlog" /\ home[c] = l
        /\ loopHolds' = [loopHolds EXCEPT ![c] = TRUE]
        /\ conn' = [conn EXCEPT ![c] = IF Tls THEN "queued" ELSE "serving"]
  BY DEF Accept
<1>2. /\ pc[l] = "accepting" /\ pc' = [pc EXCEPT ![l] = "waiting"]
      /\ UNCHANGED <<free, home, wsHolds, busy, hsFree, stop, config>>
  BY DEF Accept
<1>3. ~loopHolds[c] /\ ~wsHolds[c]
  BY <1>1 DEF GuardsMatch, Active
<1>4. PICK s \in {"queued", "serving"} : conn' = [conn EXCEPT ![c] = s]
  BY <1>1
<1>5. TypeOK'
  BY <1>1, <1>2, <1>4 DEF TypeOK, LoopStates, ConnStates
<1>6. GuardsMatch'
  BY <1>1, <1>2, <1>3, <1>4 DEF GuardsMatch, TypeOK, Active
<1>7. Cardinality(Parked') = Cardinality(Parked) - 1
  <2>1. Cardinality(Parked') =
          Cardinality(Parked) + One("waiting" \in Parking) - One(pc[l] \in Parking)
    BY <1>2, ParkedStep DEF LoopStates
  <2>2. One("waiting" \in Parking) = 0 /\ One(pc[l] \in Parking) = 1
    BY <1>2 DEF Parking, One
  <2> QED
    BY <2>1, <2>2, AllFinite
<1>8. Cardinality(Admitted') = Cardinality(Admitted) + 1
  <2>1. Cardinality(Admitted') = Cardinality(Admitted)
          + One(loopHolds'[c] \/ wsHolds'[c]) - One(loopHolds[c] \/ wsHolds[c])
    BY <1>1, <1>2, AdmittedStep DEF TypeOK
  <2>2. One(loopHolds'[c] \/ wsHolds'[c]) = 1 /\ One(loopHolds[c] \/ wsHolds[c]) = 0
    BY <1>1, <1>3 DEF TypeOK, One
  <2> QED
    BY <2>1, <2>2, AllFinite
<1>9. Shaking' = Shaking /\ Budget' = Budget
  BY <1>1, <1>2, <1>4 DEF TypeOK, Shaking, Budget, MaxConnections
<1>10. PermitsExact'
  <2>1. Budget \in Nat /\ free \in Nat
    BY BudgetIsNat DEF TypeOK
  <2>2. Budget > 0 => free + Cardinality(Parked') + Cardinality(Admitted') = Budget
    BY <1>7, <1>8, <2>1, AllFinite DEF PermitsExact
  <2> QED
    BY <1>2, <1>9, <2>2 DEF PermitsExact
<1>11. ReturnedMeansDrained'
  BY <1>1, <1>2, <1>4 DEF TypeOK, ReturnedMeansDrained, ShutdownTimeout
<1> QED
  BY <1>5, <1>6, <1>10, <1>11

\* Dropping a clone of the guard returns the slot if no other is left.
LEMMA GuardDropped ==
  ASSUME TypeOK, NEW c \in Conn,
         \/ DropLoopGuard(c) /\ loopHolds[c]
         \/ DropWsGuard(c) /\ wsHolds[c]
  PROVE  /\ loopHolds' \in [Conn -> BOOLEAN] /\ wsHolds' \in [Conn -> BOOLEAN]
         /\ \A k \in Conn \ {c} : loopHolds'[k] = loopHolds[k] /\ wsHolds'[k] = wsHolds[k]
         /\ free' \in Nat
         /\ Budget > 0 => free' + One(loopHolds'[c] \/ wsHolds'[c])
                             = free + One(loopHolds[c] \/ wsHolds[c])
<1>1. free \in Nat /\ Budget \in Nat
  BY BudgetIsNat DEF TypeOK
<1>2. CASE DropLoopGuard(c) /\ loopHolds[c]
  <2>1. loopHolds'[c] = FALSE /\ wsHolds' = wsHolds
    BY <1>2 DEF DropLoopGuard, TypeOK
  <2>2. One(loopHolds[c] \/ wsHolds[c]) = 1
        /\ One(loopHolds'[c] \/ wsHolds'[c]) = IF wsHolds[c] THEN 1 ELSE 0
    BY <1>2, <2>1 DEF One
  <2>3. free' \in Nat
        /\ (Budget > 0 => free' = free + (IF wsHolds[c] THEN 0 ELSE 1))
    BY <1>1, <1>2 DEF DropLoopGuard, ReturnSlot
  <2>4. Budget > 0 => free' + One(loopHolds'[c] \/ wsHolds'[c])
                        = free + One(loopHolds[c] \/ wsHolds[c])
    BY <1>1, <2>2, <2>3
  <2> QED
    BY <1>2, <2>3, <2>4 DEF DropLoopGuard, TypeOK
<1>3. CASE DropWsGuard(c) /\ wsHolds[c]
  <2>1. wsHolds'[c] = FALSE /\ loopHolds' = loopHolds
    BY <1>3 DEF DropWsGuard, TypeOK
  <2>2. One(loopHolds[c] \/ wsHolds[c]) = 1
        /\ One(loopHolds'[c] \/ wsHolds'[c]) = IF loopHolds[c] THEN 1 ELSE 0
    BY <1>3, <2>1 DEF One
  <2>3. free' \in Nat
        /\ (Budget > 0 => free' = free + (IF loopHolds[c] THEN 0 ELSE 1))
    BY <1>1, <1>3 DEF DropWsGuard, ReturnSlot
  <2>4. Budget > 0 => free' + One(loopHolds'[c] \/ wsHolds'[c])
                        = free + One(loopHolds[c] \/ wsHolds[c])
    BY <1>1, <2>2, <2>3
  <2> QED
    BY <1>3, <2>3, <2>4 DEF DropWsGuard, TypeOK
<1> QED
  BY <1>2, <1>3

\* The connection's own step ends it, or a handshake that will not complete.
LEMMA EndIInv ==
  ASSUME IInv, NEW c \in Conn, conn[c] \in Active, DropLoopGuard(c),
         conn' = [conn EXCEPT ![c] = "gone"],
         busy' \in [Conn -> BOOLEAN],
         hsFree' \in Nat,
         MaxHandshakes > 0 => hsFree' = hsFree + One(conn[c] = "shaking"),
         UNCHANGED <<config, pc, home, stop>>
  PROVE  IInv'
<1>1. TypeOK /\ loopHolds[c]
  BY DEF IInv, GuardsMatch
<1>2. /\ loopHolds' \in [Conn -> BOOLEAN] /\ wsHolds' \in [Conn -> BOOLEAN]
      /\ \A k \in Conn \ {c} : loopHolds'[k] = loopHolds[k] /\ wsHolds'[k] = wsHolds[k]
      /\ free' \in Nat
      /\ Budget > 0 => free' + One(loopHolds'[c] \/ wsHolds'[c])
                          = free + One(loopHolds[c] \/ wsHolds[c])
  BY <1>1, GuardDropped
<1>3. ~loopHolds'[c] /\ "gone" \notin Active /\ "gone" \in ConnStates
  BY <1>1 DEF DropLoopGuard, TypeOK, Active, ConnStates
<1>4. MaxHandshakes > 0 => hsFree' + One("gone" = "shaking") = hsFree + One(conn[c] = "shaking")
  <2>1. One("gone" = "shaking") = 0 /\ hsFree' \in Nat
    BY DEF One
  <2> QED
    BY <2>1
<1> QED
  BY <1>1, <1>2, <1>3, <1>4, ConnMoves

\* The TLS steps keep the invariant.
LEMMA TlsStepIInv ==
  ASSUME IInv, NEW c \in Conn, TlsStep(c)
  PROVE  IInv'
<1> USE DEF IInv
<1>1. hsFree \in Nat /\ free \in Nat /\ MaxHandshakes \in Nat
  BY CapsAreNat DEF TypeOK
<1>2. CASE HandshakePermit(c)
  <2>1. hsFree' \in Nat /\ (MaxHandshakes > 0 => hsFree' = hsFree - 1)
    BY <1>1, <1>2 DEF HandshakePermit, TakeHandshake
  <2>2. One("shaking" = "shaking") = 1 /\ One(conn[c] = "shaking") = 0
    BY <1>2 DEF HandshakePermit, One
  <2>3. MaxHandshakes > 0 =>
          hsFree' + One("shaking" = "shaking") = hsFree + One(conn[c] = "shaking")
    BY <1>1, <2>1, <2>2
  <2>4. loopHolds[c] /\ ~wsHolds[c] /\ conn[c] \in Active
    BY <1>2 DEF HandshakePermit, GuardsMatch, Active
  <2>5. "shaking" \in ConnStates /\ "shaking" \in Active
    BY DEF ConnStates, Active
  <2> QED
    BY <1>1, <1>2, <2>1, <2>3, <2>4, <2>5, ConnMoves DEF HandshakePermit, TypeOK, guards
<1>3. CASE HandshakeDone(c)
  <2>1. hsFree' \in Nat /\ (MaxHandshakes > 0 => hsFree' = hsFree + 1)
    BY <1>1, <1>3 DEF HandshakeDone, ReturnHandshake
  <2>2. One("serving" = "shaking") = 0 /\ One(conn[c] = "shaking") = 1
    BY <1>3 DEF HandshakeDone, One
  <2>3. MaxHandshakes > 0 =>
          hsFree' + One("serving" = "shaking") = hsFree + One(conn[c] = "shaking")
    BY <1>1, <2>1, <2>2
  <2>4. loopHolds[c] /\ ~wsHolds[c] /\ conn[c] \in Active
    BY <1>3 DEF HandshakeDone, GuardsMatch, Active
  <2>5. "serving" \in ConnStates /\ "serving" \in Active
    BY DEF ConnStates, Active
  <2> QED
    BY <1>1, <1>3, <2>1, <2>3, <2>4, <2>5, ConnMoves DEF HandshakeDone, TypeOK, guards
<1>4. CASE HandshakeFails(c) \/ HandshakeTimesOut(c)
  <2>1. conn[c] \in Active /\ HandshakeAbandoned(c)
    BY <1>4 DEF HandshakeFails, HandshakeTimesOut, Due, Unproven, Active
  <2>2. hsFree' \in Nat /\ (MaxHandshakes > 0 => hsFree' = hsFree + One(conn[c] = "shaking"))
    BY <1>1, <2>1 DEF HandshakeAbandoned, ReturnHandshake, One
  <2>3. /\ DropLoopGuard(c) /\ conn' = [conn EXCEPT ![c] = "gone"]
        /\ UNCHANGED <<pc, home, busy, stop, config>>
    BY <2>1 DEF HandshakeAbandoned
  <2> QED
    BY <2>1, <2>2, <2>3, EndIInv DEF TypeOK
<1> QED
  BY <1>2, <1>3, <1>4 DEF TlsStep

\* The steps of a connection that keep what it holds.
LEMMA KeepsIInv ==
  ASSUME IInv, NEW c \in Conn, NEW s \in ConnStates,
         conn' = [conn EXCEPT ![c] = s],
         s \in Active <=> conn[c] \in Active,
         s # "shaking" /\ conn[c] # "shaking",
         wsHolds[c] => s \in {"upgraded", "gone"},
         s = "backlog" \/ conn[c] \in Active,
         s = "backlog" => ~wsHolds[c],
         busy' \in [Conn -> BOOLEAN],
         UNCHANGED <<config, pc, free, home, guards, hsFree, stop>>
  PROVE  IInv'
<1>1. /\ loopHolds \in [Conn -> BOOLEAN] /\ wsHolds \in [Conn -> BOOLEAN]
      /\ free \in Nat /\ hsFree \in Nat
  BY DEF IInv, TypeOK
<1>2. /\ loopHolds' = loopHolds /\ wsHolds' = wsHolds
      /\ free' = free /\ hsFree' = hsFree
  BY DEF guards
<1>3. loopHolds[c] <=> s \in Active
  BY DEF IInv, GuardsMatch
<1>4. One(s = "shaking") = One(conn[c] = "shaking")
  BY DEF One
<1> QED
  BY <1>1, <1>2, <1>3, <1>4, ConnMoves

\* The steps of a served connection keep the invariant.
LEMMA ConnStepIInv ==
  ASSUME IInv, NEW c \in Conn, Connect(c) \/ ConnStep(c)
  PROVE  IInv'
<1> USE DEF IInv
<1>1. CASE Connect(c)
  <2>1. ~wsHolds[c]
    BY <1>1 DEF Connect, GuardsMatch
  <2> QED
    BY <1>1, <2>1, KeepsIInv DEF Connect, ConnStates, Active, TypeOK
<1>2. CASE BeginRequest(c) \/ EndRequest(c)
  <2>1. UNCHANGED <<config, pc, free, conn, home, guards, hsFree, stop>>
    BY <1>2 DEF BeginRequest, EndRequest
  <2>2. busy' \in [Conn -> BOOLEAN]
    BY <1>2 DEF BeginRequest, EndRequest, TypeOK
  <2>3. TypeOK' /\ GuardsMatch' /\ ReturnedMeansDrained'
    BY <2>1, <2>2 DEF TypeOK, GuardsMatch, ReturnedMeansDrained, ShutdownTimeout, guards
  <2>4. PermitsExact'
    BY <2>1 DEF PermitsExact, Parked, Admitted, Shaking, Budget, MaxConnections, guards
  <2> QED
    BY <2>3, <2>4
<1>3. CASE WindDown(c)
  <2>1. ~wsHolds[c]
    BY <1>3 DEF WindDown, GuardsMatch
  <2> QED
    BY <1>3, <2>1, KeepsIInv DEF WindDown, ConnStates, Active, TypeOK
<1>4. CASE Refuse(c)
  <2>1. ~wsHolds[c]
    BY <1>4 DEF Refuse, GuardsMatch
  <2> QED
    BY <1>4, <2>1, KeepsIInv DEF Refuse, ConnStates, Active, TypeOK
<1>5. CASE PeerEnds(c) \/ Released(c)
  <2>1. ConnEnds(c) /\ conn[c] \in Active /\ conn[c] # "shaking"
    BY <1>5 DEF PeerEnds, Released, Served, Active
  <2>2. /\ DropLoopGuard(c) /\ conn' = [conn EXCEPT ![c] = "gone"]
        /\ busy' \in [Conn -> BOOLEAN]
        /\ UNCHANGED <<config, pc, home, hsFree, stop>>
    BY <2>1 DEF ConnEnds, TypeOK
  <2>3. One(conn[c] = "shaking") = 0
    BY <2>1 DEF One
  <2>4. hsFree' \in Nat /\ hsFree' = hsFree + One(conn[c] = "shaking")
    BY <2>2, <2>3 DEF TypeOK
  <2> QED
    BY <2>1, <2>2, <2>4, EndIInv
<1>6. CASE Upgrade(c)
  <2>1. /\ conn[c] \in {"serving", "winding", "closing"}
        /\ conn' = [conn EXCEPT ![c] = "upgraded"] /\ wsHolds' = [wsHolds EXCEPT ![c] = TRUE]
        /\ UNCHANGED <<pc, free, home, loopHolds, busy, hsFree, stop, config>>
    BY <1>6 DEF Upgrade, Served
  <2>2. loopHolds[c] /\ conn[c] \in Active
    BY <2>1 DEF GuardsMatch, Active
  <2>3. One(loopHolds'[c] \/ wsHolds'[c]) = One(loopHolds[c] \/ wsHolds[c])
    BY <2>1, <2>2 DEF One
  <2>4. One("upgraded" = "shaking") = One(conn[c] = "shaking")
    BY <2>1 DEF One
  <2>5. "upgraded" \in ConnStates /\ "upgraded" \in Active
    BY DEF ConnStates, Active
  <2> QED
    BY <2>1, <2>2, <2>3, <2>4, <2>5, ConnMoves DEF TypeOK
<1>7. CASE WsEnds(c)
  <2>1. /\ wsHolds[c] /\ DropWsGuard(c)
        /\ UNCHANGED <<pc, conn, home, busy, hsFree, stop, config>>
    BY <1>7 DEF WsEnds
  <2>2. /\ loopHolds' \in [Conn -> BOOLEAN] /\ wsHolds' \in [Conn -> BOOLEAN]
        /\ \A k \in Conn \ {c} : loopHolds'[k] = loopHolds[k] /\ wsHolds'[k] = wsHolds[k]
        /\ free' \in Nat
        /\ Budget > 0 => free' + One(loopHolds'[c] \/ wsHolds'[c])
                            = free + One(loopHolds[c] \/ wsHolds[c])
    BY <2>1, GuardDropped
  <2>3. conn[c] \in {"upgraded", "gone"} /\ (loopHolds'[c] <=> conn[c] \in Active)
    BY <2>1 DEF GuardsMatch, DropWsGuard
  <2>4. conn' = [conn EXCEPT ![c] = conn[c]] /\ conn[c] \in ConnStates /\ hsFree' \in Nat
    BY <2>1 DEF TypeOK
  <2>5. MaxHandshakes > 0 =>
          hsFree' + One(conn[c] = "shaking") = hsFree + One(conn[c] = "shaking")
    BY <2>1
  <2> QED
    BY <2>1, <2>2, <2>3, <2>4, <2>5, ConnMoves DEF TypeOK
<1> QED
  BY <1>1, <1>2, <1>3, <1>4, <1>5, <1>6, <1>7 DEF ConnStep

\* The invariant is inductive.
LEMMA NextIInv == IInv /\ [Next]_vars => IInv'
<1> SUFFICES ASSUME IInv, [Next]_vars PROVE IInv'
  OBVIOUS
<1>1. ASSUME Shutdown \/ Tick \/ UNCHANGED vars PROVE IInv'
  <2>1. UNCHANGED <<config, pc, free, conn, home, guards, busy, hsFree>> /\ stop' \in BOOLEAN
    BY <1>1 DEF Shutdown, Tick, vars, IInv, TypeOK
  <2>2. TypeOK' /\ GuardsMatch' /\ ReturnedMeansDrained'
    BY <2>1 DEF IInv, TypeOK, GuardsMatch, ReturnedMeansDrained, ShutdownTimeout, guards
  <2>3. PermitsExact'
    BY <2>1 DEF IInv, PermitsExact, Parked, Admitted, Shaking, Budget, MaxConnections, guards
  <2> QED
    BY <2>2, <2>3 DEF IInv
<1> QED
  BY <1>1, LoopStepIInv, AcceptIInv, TlsStepIInv, ConnStepIInv DEF Next

-----------------------------------------------------------------------------
\* The inductive invariant: the types hold, and who holds a guard follows from
\* where the connection is.
THEOREM Invariance == Spec => []IInv
BY InitIInv, NextIInv, PTL DEF Spec

\* No permit of either budget is ever lost or minted.
THEOREM NoPermitLost == Spec => []PermitsExact
<1>1. IInv => PermitsExact
  BY DEF IInv
<1> QED
  BY <1>1, Invariance, PTL

\* max_connections bounds what all the listeners together admit, divided among
\* workers or not.
THEOREM CapIsRespected == Spec => []CapRespected
<1>1. IInv => CapRespected
  <2> SUFFICES ASSUME IInv, MaxConnections > 0
               PROVE  Cardinality(Admitted) <= MaxConnections
    BY DEF CapRespected
  <2>1. config \in Configs /\ free \in Nat
    BY DEF IInv, TypeOK
  <2>2. Budget \in Nat /\ Budget > 0 /\ Budget <= MaxConnections
    BY <2>1, BudgetIsNat
  <2>3. free + Cardinality(Parked) + Cardinality(Admitted) = Budget
    BY <2>2 DEF IInv, PermitsExact
  <2>4. MaxConnections \in Nat
    BY <2>1, CapsAreNat DEF Configs, MaxConnections
  <2> QED
    BY <2>1, <2>2, <2>3, <2>4, AllFinite
<1> QED
  BY <1>1, Invariance, PTL

\* Both budgets are kept to the permit, and keep max_connections.
THEOREM BudgetIsKept == Spec => []BudgetKept
BY NoPermitLost, CapIsRespected, PTL DEF BudgetKept

\* A drain without a grace period returns only when its handshakes, connections
\* and upgraded sockets are all gone.
THEOREM DrainIsComplete == Spec => []ReturnedMeansDrained
<1>1. IInv => ReturnedMeansDrained
  BY DEF IInv
<1> QED
  BY <1>1, Invariance, PTL

-----------------------------------------------------------------------------
(* The clock: what a connection has waited and what its timer has left add  *)
(* up to the timeout, from the accept to the end of the handshake.          *)

\* A connection that keeps its place, or moves between places where it is as
\* proven as before, leaves the clock alone.
LEMMA SameProof ==
  ASSUME TypeOK, TimersMatch, UNCHANGED clock, NEW c \in Conn, NEW s \in ConnStates,
         conn' = [conn EXCEPT ![c] = s], s \in Unproven <=> conn[c] \in Unproven
  PROVE  TimersMatch'
<1>1. \A k \in Conn : conn'[k] \in Unproven <=> conn[k] \in Unproven
  BY DEF TypeOK
<1> QED
  BY <1>1 DEF TimersMatch, clock

\* A connection whose timed future is over.
LEMMA NowDisarmed ==
  ASSUME TypeOK, TimersMatch, NEW c \in Conn, Disarm(c), NEW s \in ConnStates \ Unproven,
         conn' = [conn EXCEPT ![c] = s]
  PROVE  TimersMatch'
<1>1. timer' \in [Conn -> Nat] /\ waited' \in [Conn -> Nat]
  BY DEF TimersMatch, Disarm
<1>2. \A k \in Conn \ {c} : /\ conn'[k] = conn[k]
                            /\ timer'[k] = timer[k] /\ waited'[k] = waited[k]
  BY DEF TypeOK, TimersMatch, Disarm
<1>3. conn'[c] = s /\ waited'[c] = 0
  BY DEF TypeOK, TimersMatch, Disarm
<1> QED
  BY <1>1, <1>2, <1>3 DEF TimersMatch

\* Every step keeps the clock right.
LEMMA TimersStep ==
  ASSUME TypeOK, TimersMatch, [Next]_vars
  PROVE  TimersMatch'
<1>1. ASSUME UNCHANGED <<clock, conn>> PROVE TimersMatch'
  BY <1>1 DEF clock, TimersMatch
<1>2. ASSUME NEW l \in Listener, LoopStep(l) PROVE TimersMatch'
  <2>1. CASE Accept(l)
    <3>1. PICK c \in Conn :
            /\ conn[c] = "backlog"
            /\ conn' = [conn EXCEPT ![c] = IF Tls THEN "queued" ELSE "serving"]
            /\ timer' = [timer EXCEPT ![c] = IF Tls THEN HandshakeTimeout ELSE 0]
            /\ waited' = waited
      BY <2>1 DEF Accept
    <3>2. timer' \in [Conn -> Nat] /\ waited' \in [Conn -> Nat]
      BY <3>1, TimeoutIsNat DEF TimersMatch
    <3>3. \A k \in Conn \ {c} : conn'[k] = conn[k] /\ timer'[k] = timer[k]
      BY <3>1 DEF TypeOK, TimersMatch
    <3>4. waited[c] = 0
      BY <3>1 DEF TimersMatch, Unproven
    <3>5. conn'[c] \in Unproven => timer'[c] = HandshakeTimeout
      BY <3>1 DEF TypeOK, TimersMatch, Unproven
    <3> QED
      BY <3>1, <3>2, <3>3, <3>4, <3>5, TimeoutIsNat DEF TimersMatch
  <2>2. CASE ~Accept(l)
    BY <1>1, <1>2, <2>2
       DEF LoopStep, AcquireSlot, AcceptFails, BackoffOver, LoopStops, Return
  <2> QED
    BY <2>1, <2>2
<1>3. ASSUME NEW c \in Conn, TlsStep(c) PROVE TimersMatch'
  <2>1. CASE HandshakePermit(c)
    <3>1. /\ conn[c] \in Unproven /\ UNCHANGED clock
          /\ conn' = [conn EXCEPT ![c] = "shaking"]
      BY <2>1 DEF HandshakePermit, Unproven
    <3>2. "shaking" \in ConnStates /\ "shaking" \in Unproven
      BY DEF ConnStates, Unproven
    <3> QED
      BY <3>1, <3>2, SameProof
  <2>2. CASE HandshakeDone(c) \/ HandshakeFails(c) \/ HandshakeTimesOut(c)
    <3>1. PICK s \in {"serving", "gone"} : Disarm(c) /\ conn' = [conn EXCEPT ![c] = s]
      BY <2>2 DEF HandshakeDone, HandshakeFails, HandshakeTimesOut, HandshakeAbandoned
    <3>2. s \in ConnStates \ Unproven
      BY DEF ConnStates, Unproven
    <3> QED
      BY <3>1, <3>2, NowDisarmed
  <2> QED
    BY <1>3, <2>1, <2>2 DEF TlsStep
<1>4. ASSUME NEW c \in Conn, Connect(c) \/ ConnStep(c) PROVE TimersMatch'
  <2>1. CASE BeginRequest(c) \/ EndRequest(c) \/ WsEnds(c)
    BY <1>1, <2>1 DEF BeginRequest, EndRequest, WsEnds
  <2>2. CASE ~(BeginRequest(c) \/ EndRequest(c) \/ WsEnds(c))
    <3>1. UNCHANGED clock /\ conn[c] \notin Unproven
      BY <1>4, <2>2 DEF Connect, ConnStep, WindDown, Refuse, PeerEnds, Released, Upgrade,
                        Served, ConnEnds, Unproven
    <3>2. \E s \in ConnStates \ Unproven : conn' = [conn EXCEPT ![c] = s]
      <4>1. \E s \in {"backlog", "winding", "closing", "gone", "upgraded"} :
              conn' = [conn EXCEPT ![c] = s]
        BY <1>4, <2>2 DEF Connect, ConnStep, WindDown, Refuse, PeerEnds, Released, Upgrade,
                          ConnEnds
      <4> QED
        BY <4>1 DEF ConnStates, Unproven
    <3> QED
      BY <3>1, <3>2, SameProof
  <2> QED
    BY <2>1, <2>2
<1>5. CASE Tick
  <2>1. \A c \in Conn : conn[c] \in Unproven => timer[c] \in Nat /\ timer[c] # 0
    BY <1>5 DEF Tick, Due, TimersMatch
  <2>2. \A c \in Conn : timer[c] \in Nat /\ waited[c] \in Nat
    BY DEF TimersMatch
  <2>3. timer' \in [Conn -> Nat] /\ waited' \in [Conn -> Nat]
    BY <1>5, <2>1, <2>2 DEF Tick
  <2>4. \A c \in Conn : conn[c] \in Unproven =>
                          timer'[c] + waited'[c] = timer[c] + waited[c]
    BY <1>5, <2>1, <2>2 DEF Tick
  <2>5. \A c \in Conn : conn[c] \notin Unproven => waited'[c] = waited[c]
    BY <1>5 DEF Tick
  <2>6. conn' = conn
    BY <1>5 DEF Tick
  <2> QED
    BY <2>3, <2>4, <2>5, <2>6 DEF TimersMatch
<1>6. CASE Shutdown \/ UNCHANGED vars
  BY <1>1, <1>6 DEF Shutdown, vars, clock
<1> QED
  BY <1>2, <1>3, <1>4, <1>5, <1>6 DEF Next

\* A peer that has not finished its TLS handshake holds its connection permit for
\* the timeout at most, counted from the accept.
THEOREM HandshakesAreBounded == Spec => []HandshakeBounded
<1>1. Init => TimersMatch
  BY DEF Init, TimersMatch, Unproven
<1>2. IInv /\ TimersMatch /\ [Next]_vars => TimersMatch'
  BY TimersStep DEF IInv
<1>3. TimersMatch => HandshakeBounded
  <2> SUFFICES ASSUME TimersMatch, HandshakeTimeout > 0, NEW c \in Conn, conn[c] \in Unproven
               PROVE  waited[c] <= HandshakeTimeout
    BY DEF HandshakeBounded
  <2>1. timer[c] \in Nat /\ waited[c] \in Nat /\ timer[c] + waited[c] = HandshakeTimeout
    BY DEF TimersMatch
  <2> QED
    BY <2>1
<1> QED
  BY <1>1, <1>2, <1>3, Invariance, PTL DEF Spec
=============================================================================
