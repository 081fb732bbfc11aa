-------------------------- MODULE Connection_proofs --------------------------
(***************************************************************************)
(* The safety properties of Connection, for every set of requests and all   *)
(* the settings.  IInv is inductive; the counter, the lease and the reasons *)
(* to wind down follow from it.                                             *)
(***************************************************************************)
EXTENDS Connection, FiniteSetTheorems, TLAPS

-----------------------------------------------------------------------------
(* How one request changing its stage changes the set of the counted ones.  *)

\* Whatever the stages are, the requests that hold a guard are finitely many.
LEMMA CountedFinite == IsFiniteSet(Counted) /\ Cardinality(Counted) \in Nat
<1>1. Counted \subseteq Request
  BY DEF Counted
<1>2. IsFiniteSet(Counted)
  BY <1>1, FS_Subset, RequestFinite
<1> QED
  BY <1>2, FS_CardinalityType

\* A request that moves between stages that hold a guard, or between stages
\* that hold none, leaves the number of guards alone.
LEMMA StageKept ==
  ASSUME TypeOK, NEW r \in Request, NEW s \in Stages, SetReq(r, s),
         req[r] \in Guarded <=> s \in Guarded
  PROVE  Counted' = Counted
<1>1. req' = [req EXCEPT ![r] = s] /\ req \in [Request -> Stages]
  BY DEF SetReq, TypeOK
<1>2. \A q \in Request : req'[q] \in Guarded <=> req[q] \in Guarded
  BY <1>1
<1> QED
  BY <1>2 DEF Counted

\* A request that gets its guard is one more.
LEMMA GuardTaken ==
  ASSUME TypeOK, NEW r \in Request, NEW s \in Guarded, SetReq(r, s),
         req[r] \notin Guarded
  PROVE  Cardinality(Counted') = Cardinality(Counted) + 1
<1>1. req' = [req EXCEPT ![r] = s] /\ req \in [Request -> Stages]
  BY DEF SetReq, TypeOK
<1>2. Counted' = Counted \cup {r} /\ r \notin Counted
  BY <1>1 DEF Counted
<1> QED
  BY <1>2, CountedFinite, FS_AddElement

\* A request that gives its guard up is one less.
LEMMA GuardGiven ==
  ASSUME TypeOK, NEW r \in Request, NEW s \in Stages \ Guarded, SetReq(r, s),
         req[r] \in Guarded
  PROVE  Cardinality(Counted') = Cardinality(Counted) - 1 /\ Cardinality(Counted) > 0
<1>1. req' = [req EXCEPT ![r] = s] /\ req \in [Request -> Stages]
  BY DEF SetReq, TypeOK
<1>2. Counted' = Counted \ {r} /\ r \in Counted
  BY <1>1 DEF Counted
<1>3. Cardinality(Counted') = Cardinality(Counted) - 1
  BY <1>2, CountedFinite, FS_RemoveElement
<1>4. Cardinality(Counted) # 0
  BY <1>2, CountedFinite, FS_EmptySet
<1> QED
  BY <1>3, <1>4, CountedFinite

-----------------------------------------------------------------------------
(* IInv is inductive.                                                       *)

\* The settings are numbers.
LEMMA SettingsAreNat ==
  ASSUME config \in [keepAlive: KeepAlives, headerTimeout: HeaderTimeouts]
  PROVE  KeepAlive \in Nat /\ HeaderTimeout \in Nat
<1>1. config.keepAlive \in KeepAlives /\ config.headerTimeout \in HeaderTimeouts
  OBVIOUS
<1> QED
  BY <1>1, TimesAreNat DEF KeepAlive, HeaderTimeout

\* A connection starts with the invariant.
LEMMA InitIInv == Init => IInv
<1> SUFFICES ASSUME Init PROVE IInv
  OBVIOUS
<1>1. KeepAlive \in Nat /\ HeaderTimeout \in Nat
  BY SettingsAreNat DEF Init
<1>2. TypeOK
  <2>1. negArmed \in BOOLEAN
    BY DEF Init
  <2>2. req \in [Request -> Stages]
    BY DEF Init, Stages
  <2>3. idleT \in Nat /\ lingerT \in Nat /\ negT \in Nat /\ matched \in 0..PrefaceLen
    BY <1>1, TimesAreNat, PrefaceNonEmpty DEF Init
  <2> QED
    BY <2>1, <2>2, <2>3 DEF Init, TypeOK
<1>3. Counted = {}
  BY DEF Init, Counted, Guarded
<1>4. CountExact
  BY <1>3, FS_EmptySet DEF Init, CountExact
<1> QED
  BY <1>2, <1>4 DEF Init, IInv, FlagTellsPhase, LingerAsked

\* The steps of the requests: the only ones that touch the counter.
LEMMA RequestStepIInv ==
  ASSUME IInv, NEW r \in Request, RequestStep(r)
  PROVE  IInv'
<1> USE DEF IInv
<1>1. ASSUME H1Request(r) PROVE IInv'
  <2>1. req[r] \notin Guarded /\ SetReq(r, "handling")
    BY <1>1 DEF H1Request, Live, Guarded
  <2>2. Cardinality(Counted') = Cardinality(Counted) + 1
    BY <2>1, GuardTaken DEF Guarded
  <2>3. inFlight' = inFlight + 1
    BY <1>1 DEF H1Request, CountRequest
  <2>4. TypeOK'
    BY <1>1, <2>3 DEF H1Request, CountRequest, SetReq, TypeOK, Stages,
                      loopVars, hyperVars, peerVars
  <2>5. CountExact'
    BY <2>2, <2>3 DEF CountExact
  <2> QED
    BY <1>1, <2>4, <2>5 DEF H1Request, FlagTellsPhase, LingerAsked, loopVars, hyperVars
<1>2. ASSUME H2Begin(r) PROVE IInv'
  <2>1. req[r] \notin Guarded /\ SetReq(r, "handling")
    BY <1>2 DEF H2Begin, Guarded
  <2>2. Cardinality(Counted') = Cardinality(Counted) + 1
    BY <2>1, GuardTaken DEF Guarded
  <2>3. inFlight' = inFlight + 1
    BY <1>2 DEF H2Begin, CountRequest
  <2>4. TypeOK'
    BY <1>2, <2>3 DEF H2Begin, CountRequest, SetReq, TypeOK, Stages,
                      loopVars, hyperVars, peerVars
  <2>5. CountExact'
    BY <2>2, <2>3 DEF CountExact
  <2> QED
    BY <1>2, <2>4, <2>5 DEF H2Begin, FlagTellsPhase, LingerAsked, loopVars, hyperVars
<1>3. ASSUME DropCount(r) PROVE IInv'
  <2>1. req[r] \in Guarded /\ SetReq(r, "dropNotify")
    BY <1>3 DEF DropCount, Guarded
  <2>2. Cardinality(Counted') = Cardinality(Counted) - 1 /\ Cardinality(Counted) > 0
    BY <2>1, GuardGiven DEF Guarded, Stages, Dropping
  <2>3. inFlight' = inFlight - 1
    BY <1>3 DEF DropCount
  <2>4. inFlight' \in Nat
    BY <2>2, <2>3 DEF CountExact, TypeOK
  <2>5. TypeOK'
    BY <1>3, <2>4 DEF DropCount, SetReq, TypeOK, Stages, Dropping,
                      loopVars, hyperVars, peerVars
  <2>6. CountExact'
    BY <2>2, <2>3 DEF CountExact
  <2> QED
    BY <1>3, <2>5, <2>6 DEF DropCount, FlagTellsPhase, LingerAsked, loopVars, hyperVars
<1>4. ASSUME NEW s \in Stages, SetReq(r, s), req[r] \in Guarded <=> s \in Guarded,
             served' \in BOOLEAN, quiet' \in Nat, permit' \in BOOLEAN,
             UNCHANGED <<config, loopVars, hyperVars, peerVars, inFlight>>
      PROVE  IInv'
  <2>1. Counted' = Counted
    BY <1>4, StageKept
  <2>2. TypeOK'
    BY <1>4 DEF SetReq, TypeOK, loopVars, hyperVars, peerVars
  <2>3. CountExact'
    BY <1>4, <2>1 DEF CountExact
  <2> QED
    BY <1>4, <2>2, <2>3 DEF FlagTellsPhase, LingerAsked, loopVars, hyperVars
<1>5. ASSUME H2Accept(r) \/ NeverPolled(r) \/ HandlerReturns(r) \/ RequestOver(r)
      PROVE  IInv'
  BY <1>4, <1>5 DEF H2Accept, NeverPolled, HandlerReturns, RequestOver, TypeOK,
                    Stages, Dropping, Guarded, activity
<1>6. ASSUME DropLast(r) \/ DropServed(r) \/ DropNotify(r)
      PROVE  IInv'
  <2>1. UNCHANGED <<config, loopVars, hyperVars, peerVars, inFlight>>
    BY <1>6 DEF DropLast, DropServed, DropNotify
  <2>2. served' \in BOOLEAN
    BY <1>6 DEF DropLast, DropServed, DropNotify, TypeOK
  <2>3. quiet' = quiet \/ quiet' = 0
    BY <1>6 DEF DropLast, DropServed, DropNotify
  <2>4. quiet' \in Nat
    BY <2>3 DEF TypeOK
  <2>5. permit' \in BOOLEAN
    BY <1>6 DEF DropLast, DropServed, DropNotify, TypeOK
  <2>6. PICK s \in {"dropServed", "dropCount", "none"} :
           SetReq(r, s) /\ (req[r] \in Guarded <=> s \in Guarded)
    BY <1>6 DEF DropLast, DropServed, DropNotify, Guarded
  <2> QED
    BY <1>4, <2>1, <2>2, <2>4, <2>5, <2>6 DEF Stages, Dropping
<1> QED
  BY <1>1, <1>2, <1>3, <1>5, <1>6 DEF RequestStep, Drop

\* The steps that touch neither a request nor the counter.
LEMMA QuietIInv ==
  ASSUME IInv, TypeOK', FlagTellsPhase', LingerAsked', UNCHANGED <<req, inFlight>>
  PROVE  IInv'
<1>1. Counted' = Counted
  BY DEF Counted
<1> QED
  BY <1>1 DEF IInv, CountExact

\* What hyper reads of the preface.
LEMMA ReadIInv ==
  ASSUME IInv, (\E k \in 1..PrefaceLen : ReadPreface(k)) \/ ReadDiverging
  PROVE  IInv'
<1> USE DEF IInv
<1>1. UNCHANGED <<req, inFlight, config, refusing, loopVars, activity, peerVars>>
  BY DEF ReadPreface, ReadDiverging, activity
<1>2. CASE \E k \in 1..PrefaceLen : ReadPreface(k)
  <2>1. PICK k \in 1..PrefaceLen : ReadPreface(k)
    BY <1>2
  <2>2. matched' \in 0..PrefaceLen /\ connDone' \in BOOLEAN
    BY <2>1, PrefaceNonEmpty DEF ReadPreface, TypeOK
  <2>3. /\ negotiated' \in BOOLEAN /\ phase' \in {"sniff", "h1", "h2"}
        /\ FlagTellsPhase'
    BY <2>1 DEF ReadPreface, FlagTellsPhase
  <2> QED
    BY <1>1, <2>2, <2>3, QuietIInv DEF TypeOK, LingerAsked, loopVars, activity, peerVars
<1>3. CASE ReadDiverging
  <2>1. /\ connDone' \in BOOLEAN /\ matched' = matched
        /\ negotiated' = TRUE /\ phase' = "h1"
    BY <1>3 DEF ReadDiverging
  <2> QED
    BY <1>1, <2>1, QuietIInv
       DEF TypeOK, FlagTellsPhase, LingerAsked, loopVars, activity, peerVars
<1> QED
  BY <1>2, <1>3

\* The select! loop.
LEMMA LoopIInv ==
  ASSUME IInv, Loop
  PROVE  IInv'
<1> USE DEF IInv
<1>1. GoawayLinger \in Nat /\ idleFor \in Nat
  <2>1. KeepAlive \in Nat /\ quiet \in Nat
    BY SettingsAreNat DEF TypeOK
  <2> QED
    BY <2>1, TimesAreNat DEF idleFor
<1>2. UNCHANGED <<req, inFlight>>
  BY DEF Loop, LoopConn, LoopShutdown, LoopLinger, LoopNegotiation, LoopFinished,
         LoopIdle, activity
<1>3. UNCHANGED <<config, peerVars, matched, phase, negotiated, connDone, served, quiet>>
  BY DEF Loop, LoopConn, LoopShutdown, LoopLinger, LoopNegotiation, LoopFinished,
         LoopIdle, GracefulShutdown, hyperVars, activity
<1>4. open' \in BOOLEAN /\ winding' \in BOOLEAN /\ lingering' \in BOOLEAN
      /\ negArmed' \in BOOLEAN /\ refusing' \in BOOLEAN /\ permit' \in BOOLEAN
  BY DEF Loop, LoopConn, LoopShutdown, LoopLinger, LoopNegotiation, LoopFinished,
         LoopIdle, GracefulShutdown, ArmLinger, Reenter, hyperVars, activity, TypeOK
<1>5. idleT' \in Nat /\ lingerT' \in Nat /\ negT' \in Nat
  BY <1>1 DEF Loop, LoopConn, LoopShutdown, LoopLinger, LoopNegotiation, LoopFinished,
         LoopIdle, ArmLinger, TypeOK
<1>6. LingerAsked'
  BY DEF Loop, LoopConn, LoopShutdown, LoopLinger, LoopNegotiation, LoopFinished,
         LoopIdle, GracefulShutdown, ArmLinger, LingerAsked
<1>7. TypeOK'
  BY <1>2, <1>3, <1>4, <1>5 DEF TypeOK, peerVars
<1>8. FlagTellsPhase'
  BY <1>3 DEF FlagTellsPhase
<1> QED
  BY <1>2, <1>6, <1>7, <1>8, QuietIInv

\* hyper, the peer and the clock.
LEMMA EnvironmentIInv ==
  ASSUME IInv, Environment
  PROVE  IInv'
<1> USE DEF IInv
<1>1. UNCHANGED <<req, inFlight, config, phase, matched, negotiated, winding, lingering>>
  BY DEF Environment, PeerCloses, HyperFinishes, HeadTimesOut, PingTimesOut, Resolve,
         FinalGoaway, PeerGoesMute, ShutdownSignal, Tick,
         loopVars, activity, hyperVars, peerVars
<1>2. UNCHANGED <<open, negArmed, served, permit>>
  BY DEF Environment, PeerCloses, HyperFinishes, HeadTimesOut, PingTimesOut, Resolve,
         FinalGoaway, PeerGoesMute, ShutdownSignal, Tick,
         loopVars, activity, hyperVars, peerVars
<1>3. connDone' \in BOOLEAN /\ refusing' \in BOOLEAN /\ mute' \in BOOLEAN /\ signal' \in BOOLEAN
  BY DEF Environment, PeerCloses, HyperFinishes, HeadTimesOut, PingTimesOut, Resolve,
         FinalGoaway, PeerGoesMute, ShutdownSignal, Tick, TypeOK,
         loopVars, activity, hyperVars, peerVars
<1>4. idleT' \in Nat /\ lingerT' \in Nat /\ negT' \in Nat /\ quiet' \in Nat
  BY DEF Environment, PeerCloses, HyperFinishes, HeadTimesOut, PingTimesOut, Resolve,
         FinalGoaway, PeerGoesMute, ShutdownSignal, Tick, Less, TypeOK,
         loopVars, activity
<1>5. TypeOK'
  BY <1>1, <1>2, <1>3, <1>4 DEF TypeOK
<1>6. FlagTellsPhase' /\ LingerAsked'
  BY <1>1 DEF FlagTellsPhase, LingerAsked
<1> QED
  BY <1>1, <1>5, <1>6, QuietIInv

\* Nothing happens, nothing is lost.
LEMMA StutterIInv ==
  ASSUME IInv, UNCHANGED vars
  PROVE  IInv'
<1>1. TypeOK' /\ FlagTellsPhase' /\ LingerAsked' /\ UNCHANGED <<req, inFlight>>
  BY DEF IInv, TypeOK, FlagTellsPhase, LingerAsked, vars, loopVars, activity,
         hyperVars, peerVars
<1> QED
  BY <1>1, QuietIInv

\* The invariant is inductive.
LEMMA NextIInv == IInv /\ [Next]_vars => IInv'
<1> SUFFICES ASSUME IInv, [Next]_vars PROVE IInv'
  OBVIOUS
<1> QED
  BY RequestStepIInv, ReadIInv, LoopIInv, EnvironmentIInv, StutterIInv DEF Next

\* The inductive invariant, and with it the types, holds of every behaviour.
THEOREM Invariance == Spec => []IInv
BY InitIInv, NextIInv, PTL DEF Spec

\* in_flight is exact at every moment: no cancelled, reset or abandoned request
\* is ever left counted, and none is given back twice.
THEOREM CounterIsExact == Spec => []CountExact
<1>1. IInv => CountExact
  BY DEF IInv
<1> QED
  BY <1>1, Invariance, PTL

-----------------------------------------------------------------------------
(* The contract of ConnLease, and the reasons to wind down.                 *)

\* A counted request is one the loop sees: not busy means nothing is answered.
LEMMA NotBusy ==
  ASSUME IInv, ~busy
  PROVE  Counted = {} /\ Answering = {} /\ Unrecorded = {}
<1>1. Cardinality(Counted) = 0
  BY CountedFinite DEF IInv, CountExact, TypeOK, busy
<1>2. Counted = {}
  BY <1>1, CountedFinite, FS_EmptySet
<1> QED
  BY <1>2 DEF Counted, Guarded, Answering, Unrecorded

\* Every step of the connection is a step of its lease, or leaves it alone.
LEMMA NextLease ==
  ASSUME IInv, [Next]_vars
  PROVE  [Lease!Next]_(Lease!leaseVars)
<1> USE DEF Lease!leaseVars, Lease!Next, Lease!Answer, Lease!Ask, Lease!Resolve,
            Lease!Release
<1>1. CASE \E r \in Request : RequestStep(r)
  BY <1>1 DEF RequestStep, H1Request, H2Accept, H2Begin, HandlerReturns, RequestOver,
     NeverPolled, Drop, DropLast, DropServed, DropCount, DropNotify,
     loopVars, hyperVars
<1>2. CASE (\E k \in 1..PrefaceLen : ReadPreface(k)) \/ ReadDiverging
  <2>1. UNCHANGED <<open, winding, req>> /\ open
    BY <1>2 DEF ReadPreface, ReadDiverging, Reading, loopVars
  <2>2. connDone' = connDone \/ (~connDone /\ connDone' = TRUE)
    <3>1. connDone = FALSE /\ connDone' \in {connDone, TRUE, FALSE}
      BY <1>2 DEF ReadPreface, ReadDiverging, Reading, IInv, TypeOK
    <3> QED
      BY <3>1
  <2> QED
    BY <2>1, <2>2 DEF Answering
<1>3. CASE Loop
  <2>1. UNCHANGED <<connDone, req>> /\ open
    BY <1>3 DEF Loop, LoopConn, LoopShutdown, LoopLinger, LoopNegotiation,
       LoopFinished, LoopIdle, GracefulShutdown, Polling, hyperVars
  <2>2. Answering' = Answering
    BY <2>1 DEF Answering
  <2>3. CASE LoopConn
    BY <1>3, <2>1, <2>2, <2>3 DEF LoopConn, ConnReady, IInv, TypeOK
  <2>4. CASE LoopLinger
    <3>1. CASE busy
      BY <2>1, <2>2, <2>4, <3>1 DEF LoopLinger, IInv, TypeOK
    <3>2. CASE ~busy
      <4>1. winding /\ Answering = {}
        BY <2>4, <3>2, NotBusy DEF LoopLinger, LingerReady, IInv, LingerAsked
      <4> QED
        BY <2>1, <2>2, <2>4, <3>2, <4>1 DEF LoopLinger
    <3> QED
      BY <3>1, <3>2
  <2>5. CASE LoopShutdown \/ LoopNegotiation \/ LoopFinished \/ LoopIdle
    <3>1. open' = open
      BY <2>5 DEF LoopShutdown, LoopNegotiation, LoopFinished, LoopIdle
    <3>2. winding' = winding \/ (~winding /\ winding' = TRUE)
      BY <2>5 DEF LoopShutdown, LoopNegotiation, LoopFinished, LoopIdle,
         SignalReady, NegReady, FinishedReady, IdleReady, GracefulShutdown
    <3> QED
      BY <2>1, <2>2, <3>1, <3>2
  <2> QED
    BY <1>3, <2>3, <2>4, <2>5 DEF Loop
<1>4. CASE Environment
  <2>1. UNCHANGED <<open, winding, req>>
    BY <1>4 DEF Environment, PeerCloses, HyperFinishes, HeadTimesOut, PingTimesOut,
       Resolve, FinalGoaway, PeerGoesMute, ShutdownSignal, Tick, loopVars
  <2>2. connDone' = connDone \/ (open /\ ~connDone /\ connDone' = TRUE)
    BY <1>4 DEF Environment, PeerCloses, HyperFinishes, HeadTimesOut, PingTimesOut,
       Resolve, FinalGoaway, PeerGoesMute, ShutdownSignal, Tick, hyperVars
  <2> QED
    BY <2>1, <2>2 DEF Answering
<1>5. CASE UNCHANGED vars
  BY <1>5 DEF vars, loopVars, hyperVars, Answering
<1> QED
  BY <1>1, <1>2, <1>3, <1>4, <1>5 DEF Next

\* The connection implements its contract: the server lets go of it once, and
\* on its own initiative only after asking it to finish and with no request
\* being answered.
THEOREM LeaseKept == Spec => LeaseSpec
<1>1. Init => Lease!Init
  BY DEF Init, Lease!Init, Answering
<1>2. IInv /\ [Next]_vars => [Lease!Next]_(Lease!leaseVars)
  BY NextLease
<1> QED
  BY <1>1, <1>2, Invariance, PTL DEF Spec, LeaseSpec, Lease!Spec

\* graceful_shutdown has one of the four reasons: no HTTP/2 client is closed by
\* the negotiation deadline, and no idle period is measured from a stale clock.
THEOREM WindDownJustified == Spec => WindDownHasReason
<1>1. ASSUME IInv, Next, ~winding, winding' PROVE WindDownReason
  <2>1. LoopShutdown \/ LoopNegotiation \/ LoopFinished \/ LoopIdle
    BY <1>1 DEF Next, RequestStep, H1Request, H2Accept, H2Begin, HandlerReturns,
       RequestOver, NeverPolled, Drop, DropLast, DropServed, DropCount, DropNotify,
       ReadPreface, ReadDiverging, Loop, LoopConn, LoopLinger, Environment, PeerCloses,
       HyperFinishes, HeadTimesOut, PingTimesOut, Resolve, FinalGoaway, PeerGoesMute,
       ShutdownSignal, Tick, loopVars
  <2>2. CASE LoopShutdown
    BY <2>2 DEF LoopShutdown, SignalReady, WindDownReason
  <2>3. CASE LoopNegotiation
    BY <1>1, <2>3 DEF LoopNegotiation, IInv, FlagTellsPhase, WindDownReason
  <2>4. CASE LoopFinished
    <3>1. KeepAlive = 0 /\ served /\ ~busy
      BY <1>1, <2>4 DEF LoopFinished, FinishedReady
    <3> QED
      BY <1>1, <3>1, NotBusy DEF WindDownReason
  <2>5. CASE LoopIdle
    <3>1. KeepAlive > 0 /\ idleFor = 0
      BY <1>1, <2>5 DEF LoopIdle, IdleReady
    <3>2. KeepAlive \in Nat /\ quiet \in Nat
      BY <1>1, SettingsAreNat DEF IInv, TypeOK
    <3>3. ~busy /\ quiet >= KeepAlive
      BY <3>1, <3>2 DEF idleFor
    <3> QED
      BY <1>1, <3>1, <3>3, NotBusy DEF WindDownReason
  <2> QED
    BY <2>1, <2>2, <2>3, <2>4, <2>5
<1>2. IInv /\ [Next]_vars => [~winding /\ winding' => WindDownReason]_vars
  BY <1>1
<1> QED
  BY <1>2, Invariance, PTL DEF Spec, WindDownHasReason
=============================================================================
