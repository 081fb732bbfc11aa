-------------------------------- MODULE Serve --------------------------------
(***************************************************************************)
(* The accept loops (serve_listener), the budgets they draw on              *)
(* (AcceptLimits), the TLS step of an accepted connection, the share of     *)
(* both budgets a connection and its upgraded WebSocket hold (ConnGuard),   *)
(* and the graceful drain of each loop (Drain).                             *)
(*                                                                         *)
(* One listener is serve or serve_on; several listeners sharing one budget  *)
(* are serve_many, or the workers of serve_sharded on Linux.  What happens  *)
(* inside a served connection is module Connection; here it obeys           *)
(* ConnLease: asked to finish, it goes when nothing is being answered.      *)
(***************************************************************************)
EXTENDS Integers, FiniteSets

CONSTANTS
  Listener,          \* the accept loops
  Conn,              \* client connections
  Caps,              \* values of max_connections, 0: unlimited
  MaxHandshakes,     \* max_tls_handshakes, 0: unlimited
  HandshakeTimeout,  \* tls_handshake_timeout_ms in ticks, 0: none
  Workers            \* of serve_sharded; 0 for the other entry points

ASSUME ListenersFinite == IsFiniteSet(Listener)
ASSUME ConnsFinite     == IsFiniteSet(Conn)
ASSUME Disjoint        == Listener \cap Conn = {}
ASSUME CapsAreNat      == Caps \subseteq Nat /\ MaxHandshakes \in Nat
ASSUME WorkersAreNat   == Workers \in Nat
ASSUME TimeoutIsNat    == HandshakeTimeout \in Nat
\* A cap too small to divide goes to the central acceptor instead.
ASSUME CapsDivide == \A cap \in Caps : Workers > 0 => cap = 0 \/ cap >= Workers

VARIABLES
  config,    \* what the builder was given, which no step changes
  pc,        \* where each accept loop is
  free,      \* free permits of the connection semaphore
  conn,      \* where each connection is
  home,      \* the listener, hence the Drain, of each connection
  loopHolds, \* the connection task holds its ConnGuard (or slot and token)
  wsHolds,   \* the detached WebSocket task holds its clone
  busy,      \* a request is being answered
  hsFree,    \* free permits of the handshake semaphore
  stop,      \* the caller's shutdown future has resolved
  timer,     \* what is left of the timeout around each queue_and_shake
  waited     \* history: ticks since the task of a connection took its slot

guards == <<loopHolds, wsHolds>>
clock  == <<timer, waited>>
vars   == <<config, pc, free, conn, home, guards, busy, hsFree, stop, clock>>

Configs == [maxConnections: Caps,       \* max_connections
            tls: BOOLEAN,               \* the app is configured for TLS
            grace: BOOLEAN]             \* shutdown_timeout_ms > 0

MaxConnections  == config.maxConnections
Tls             == config.tls
ShutdownTimeout == config.grace

\* serve_sharded divides the cap; the result seeds one semaphore, and every
\* worker gets a clone of the Arc that holds it.
Budget == IF Workers = 0 THEN MaxConnections ELSE MaxConnections \div Workers

LoopStates == {"waiting", "accepting", "backoff", "draining", "returned"}

\* "backlog": in the kernel's queue; "queued": for a handshake permit;
\* "winding": asked to finish, and hyper may still let in what was on its way;
\* "closing": it no longer does; "upgraded": the 101 is going out.
ConnStates == {"out", "backlog", "queued", "shaking", "serving", "winding",
               "closing", "upgraded", "gone"}

\* Who holds a permit: a loop parked in accept (or sleeping after a failed
\* one), and a connection until the last clone of its guard is dropped.
Admitted == {c \in Conn : loopHolds[c] \/ wsHolds[c]}
Parking  == {"accepting", "backoff"}
Parked   == {l \in Listener : pc[l] \in Parking}

\* Mutant: only the connection task, not the upgraded socket, holds the token.
Token_loopOnly(l) == {c \in Conn : loopHolds[c] /\ home[c] = l}

Token(l) == {c \in Admitted : home[c] = l}

TypeOK ==
  /\ config \in Configs
  /\ pc \in [Listener -> LoopStates]
  /\ free \in Nat /\ hsFree \in Nat
  /\ conn \in [Conn -> ConnStates]
  /\ home \in [Conn -> Listener]
  /\ loopHolds \in [Conn -> BOOLEAN] /\ wsHolds \in [Conn -> BOOLEAN]
  /\ busy \in [Conn -> BOOLEAN] /\ stop \in BOOLEAN
  \* what the clock holds is in TimersMatch

Init ==
  /\ config \in Configs
  /\ pc = [l \in Listener |-> "waiting"]
  /\ free = Budget
  /\ conn = [c \in Conn |-> "out"]
  /\ home \in [Conn -> Listener]
  /\ loopHolds = [c \in Conn |-> FALSE] /\ wsHolds = [c \in Conn |-> FALSE]
  /\ busy = [c \in Conn |-> FALSE]
  /\ hsFree = MaxHandshakes
  /\ stop = FALSE
  /\ timer = [c \in Conn |-> 0] /\ waited = [c \in Conn |-> 0]

-----------------------------------------------------------------------------
(* The connection budget.                                                   *)

TakeSlot == IF Budget = 0 THEN UNCHANGED free ELSE free > 0 /\ free' = free - 1
ReturnSlot == IF Budget = 0 THEN UNCHANGED free ELSE free' = free + 1

\* Mutant: the slot is returned with the socket only.
DropLoopGuard_keepsSlot(c) ==
  /\ loopHolds' = [loopHolds EXCEPT ![c] = FALSE]
  /\ UNCHANGED <<wsHolds, free>>

\* Dropping one clone of the guard returns the slot if it was the last.
DropLoopGuard(c) ==
  /\ loopHolds' = [loopHolds EXCEPT ![c] = FALSE]
  /\ UNCHANGED wsHolds
  /\ IF wsHolds[c] THEN UNCHANGED free ELSE ReturnSlot

\* Mutant: each clone of the guard returns the slot.
DropWsGuard_twice(c) ==
  /\ wsHolds' = [wsHolds EXCEPT ![c] = FALSE]
  /\ UNCHANGED loopHolds /\ ReturnSlot

DropWsGuard(c) ==
  /\ wsHolds' = [wsHolds EXCEPT ![c] = FALSE]
  /\ UNCHANGED loopHolds
  /\ IF loopHolds[c] THEN UNCHANGED free ELSE ReturnSlot

-----------------------------------------------------------------------------
(* serve_listener.  Waiting for a slot and accepting are one future, raced  *)
(* against shutdown, and shutdown wins a tie.                               *)

\* The kernel completes the connection while the listening socket is open,
\* which it is until serve_listener returns.
Connect(c) ==
  /\ conn[c] = "out" /\ pc[home[c]] # "returned"
  /\ conn' = [conn EXCEPT ![c] = "backlog"]
  /\ UNCHANGED <<pc, free, home, guards, busy, hsFree, stop, config, clock>>

AcquireSlot(l) ==
  /\ ~stop /\ pc[l] = "waiting"
  /\ TakeSlot
  /\ pc' = [pc EXCEPT ![l] = "accepting"]
  /\ UNCHANGED <<conn, home, guards, busy, hsFree, stop, config, clock>>

\* The slot and a drain token move into the task before it is spawned, so a
\* connection still shaking hands is already counted by the drain.
Accept(l) ==
  /\ ~stop /\ pc[l] = "accepting"
  /\ \E c \in Conn :
       /\ conn[c] = "backlog" /\ home[c] = l
       /\ loopHolds' = [loopHolds EXCEPT ![c] = TRUE]
       /\ conn' = [conn EXCEPT ![c] = IF Tls THEN "queued" ELSE "serving"]
       /\ timer' = [timer EXCEPT ![c] = IF Tls THEN HandshakeTimeout ELSE 0]
  /\ pc' = [pc EXCEPT ![l] = "waiting"]
  /\ UNCHANGED <<free, home, wsHolds, busy, hsFree, stop, config, waited>>

\* A failing accept sleeps with the slot still bound, and outside the select.
AcceptFails(l) ==
  /\ ~stop /\ pc[l] = "accepting"
  /\ pc' = [pc EXCEPT ![l] = "backoff"]
  /\ UNCHANGED <<free, conn, home, guards, busy, hsFree, stop, config, clock>>

BackoffOver(l) ==
  /\ pc[l] = "backoff"
  /\ ReturnSlot
  /\ pc' = [pc EXCEPT ![l] = "waiting"]
  /\ UNCHANGED <<conn, home, guards, busy, hsFree, stop, config, clock>>

Shutdown ==
  /\ ~stop /\ stop' = TRUE
  /\ UNCHANGED <<pc, free, conn, home, guards, busy, hsFree, config, clock>>

\* The shutdown arm cancels the other future: a queued acquire leaves the
\* queue, an acquired permit is returned.  Then Drain::wait sends the signal.
LoopStops(l) ==
  /\ stop /\ pc[l] \in {"waiting", "accepting"}
  /\ pc' = [pc EXCEPT ![l] = "draining"]
  /\ IF pc[l] = "accepting" THEN ReturnSlot ELSE UNCHANGED free
  /\ UNCHANGED <<conn, home, guards, busy, hsFree, stop, config, clock>>

Drained(l)  == pc[l] = "draining" /\ Token(l) = {}
GraceOver(l) == pc[l] = "draining" /\ ShutdownTimeout

Return(l) ==
  /\ Drained(l) \/ GraceOver(l)
  /\ pc' = [pc EXCEPT ![l] = "returned"]
  /\ UNCHANGED <<free, conn, home, guards, busy, hsFree, stop, config, clock>>

draining(c) == pc[home[c]] \in {"draining", "returned"}

-----------------------------------------------------------------------------
(* The TLS step.  One timeout covers the wait for the handshake budget and  *)
(* the handshake; it fires when its time has come.                          *)

Unproven == {"queued", "shaking"}

TakeHandshake == IF MaxHandshakes = 0 THEN UNCHANGED hsFree
                                      ELSE hsFree > 0 /\ hsFree' = hsFree - 1

\* Mutant: only the handshake is timed, not the wait for its budget.
HandshakePermit_timed(c) ==
  /\ conn[c] = "queued"
  /\ TakeHandshake
  /\ conn' = [conn EXCEPT ![c] = "shaking"]
  /\ timer' = [timer EXCEPT ![c] = HandshakeTimeout]
  /\ UNCHANGED <<pc, free, home, guards, busy, stop, config, waited>>

HandshakePermit(c) ==
  /\ conn[c] = "queued"
  /\ TakeHandshake
  /\ conn' = [conn EXCEPT ![c] = "shaking"]
  /\ UNCHANGED <<pc, free, home, guards, busy, stop, config, clock>>

ReturnHandshake(c) ==
  hsFree' = IF conn[c] = "shaking" /\ MaxHandshakes > 0 THEN hsFree + 1 ELSE hsFree

\* The timed future is over, and its timer with it.
Disarm(c) == timer' = [timer EXCEPT ![c] = 0] /\ waited' = [waited EXCEPT ![c] = 0]

HandshakeDone(c) ==
  /\ conn[c] = "shaking"
  /\ ReturnHandshake(c) /\ Disarm(c)
  /\ conn' = [conn EXCEPT ![c] = "serving"]
  /\ UNCHANGED <<pc, free, home, guards, busy, stop, config>>

\* The task ends, and everything it owned is dropped with it.
HandshakeAbandoned(c) ==
  /\ ReturnHandshake(c) /\ Disarm(c)
  /\ conn' = [conn EXCEPT ![c] = "gone"]
  /\ DropLoopGuard(c)
  /\ UNCHANGED <<pc, home, busy, stop, config>>

HandshakeFails(c) == conn[c] = "shaking" /\ HandshakeAbandoned(c)

Due(c) == HandshakeTimeout > 0 /\ conn[c] \in Unproven /\ timer[c] = 0
HandshakeTimesOut(c) == Due(c) /\ HandshakeAbandoned(c)

\* Time passes for everybody at once, and not beyond a timer that is due.
Tick ==
  /\ HandshakeTimeout > 0 /\ \A c \in Conn : ~Due(c)
  /\ \E c \in Conn : conn[c] \in Unproven
  /\ timer' = [c \in Conn |-> IF conn[c] \in Unproven THEN timer[c] - 1 ELSE timer[c]]
  /\ waited' = [c \in Conn |-> IF conn[c] \in Unproven THEN waited[c] + 1 ELSE waited[c]]
  /\ UNCHANGED <<config, pc, free, conn, home, guards, busy, hsFree, stop>>

-----------------------------------------------------------------------------
(* A served connection, by its contract ConnLease, and its upgraded socket. *)

Served(c) == conn[c] \in {"serving", "winding", "closing", "upgraded"}

BeginRequest(c) ==
  /\ conn[c] \in {"serving", "winding"} /\ ~busy[c]
  /\ busy' = [busy EXCEPT ![c] = TRUE]
  /\ UNCHANGED <<pc, free, conn, home, guards, hsFree, stop, config, clock>>

EndRequest(c) ==
  /\ busy[c] /\ busy' = [busy EXCEPT ![c] = FALSE]
  /\ UNCHANGED <<pc, free, conn, home, guards, hsFree, stop, config, clock>>

\* The loop asks hyper to finish: the drain signal, or a reason of its own.
WindDown(c) ==
  /\ conn[c] = "serving"
  /\ conn' = [conn EXCEPT ![c] = "winding"]
  /\ UNCHANGED <<pc, free, home, guards, busy, hsFree, stop, config, clock>>

Refuse(c) ==
  /\ conn[c] = "winding"
  /\ conn' = [conn EXCEPT ![c] = "closing"]
  /\ UNCHANGED <<pc, free, home, guards, busy, hsFree, stop, config, clock>>

\* The connection task ends and drops its clone of the guard.
ConnEnds(c) ==
  /\ conn' = [conn EXCEPT ![c] = "gone"]
  /\ busy' = [busy EXCEPT ![c] = FALSE]
  /\ DropLoopGuard(c)
  /\ UNCHANGED <<pc, home, hsFree, stop, config, clock>>

PeerEnds(c) == Served(c) /\ ConnEnds(c)
Released(c) == conn[c] \in {"winding", "closing", "upgraded"} /\ ~busy[c] /\ ConnEnds(c)

\* on_upgrade: the handler spawns the socket task with a clone of the guard;
\* hyper resolves the connection when the 101 goes out.
Upgrade(c) ==
  /\ Served(c) /\ busy[c] /\ conn[c] # "upgraded"
  /\ wsHolds' = [wsHolds EXCEPT ![c] = TRUE]
  /\ conn' = [conn EXCEPT ![c] = "upgraded"]
  /\ UNCHANGED <<pc, free, home, loopHolds, busy, hsFree, stop, config, clock>>

WsEnds(c) ==
  /\ wsHolds[c] /\ DropWsGuard(c)
  /\ UNCHANGED <<pc, conn, home, busy, hsFree, stop, config, clock>>

\* Mutant: the socket task holds its token but watches nothing.
WsDrained_never(c) == draining(c) /\ loopHolds[c] /\ WsEnds(c)

\* ConnGuard::draining: the socket task watches the signal itself.
WsDrained(c) == draining(c) /\ WsEnds(c)

-----------------------------------------------------------------------------
LoopStep(l) == \/ AcquireSlot(l) \/ Accept(l) \/ AcceptFails(l) \/ BackoffOver(l)
               \/ LoopStops(l) \/ Return(l)

TlsStep(c) == \/ HandshakePermit(c) \/ HandshakeDone(c)
              \/ HandshakeFails(c) \/ HandshakeTimesOut(c)

ConnStep(c) == \/ BeginRequest(c) \/ EndRequest(c) \/ WindDown(c) \/ Refuse(c)
               \/ PeerEnds(c) \/ Released(c) \/ Upgrade(c) \/ WsEnds(c)

Next == \/ \E l \in Listener : LoopStep(l)
        \/ \E c \in Conn : Connect(c) \/ TlsStep(c) \/ ConnStep(c)
        \/ Shutdown \/ Tick

Spec == Init /\ [][Next]_vars

(***************************************************************************)
(* Fairness: a loop that can stop, sleep on or return does; time passes and *)
(* a due handshake deadline fires; a request ends (request_timeout_ms, and  *)
(* a body that is read); a connection told by the drain to finish is wound  *)
(* down and let go, and a socket task sees the signal (ConnGuard::draining).*)
(***************************************************************************)
Fairness ==
  /\ WF_vars(Tick)
  /\ \A l \in Listener :
       WF_vars(BackoffOver(l)) /\ WF_vars(LoopStops(l)) /\ WF_vars(Return(l))
  /\ \A c \in Conn :
       /\ WF_vars(HandshakeTimesOut(c)) /\ WF_vars(EndRequest(c))
       /\ WF_vars(draining(c) /\ WindDown(c)) /\ WF_vars(Refuse(c))
       /\ WF_vars(Released(c)) /\ WF_vars(WsDrained(c))

FairSpec == Spec /\ Fairness

-----------------------------------------------------------------------------
(* Safety.                                                                  *)

\* No permit is lost or minted, whichever of cancellation, failed accept,
\* failed handshake, upgrade or close gives it back; and no handshake permit,
\* whether the handshake succeeds, fails or times out.
Shaking == {c \in Conn : conn[c] = "shaking"}
PermitsExact ==
  /\ Budget > 0 => free + Cardinality(Parked) + Cardinality(Admitted) = Budget
  /\ MaxHandshakes > 0 => hsFree + Cardinality(Shaking) = MaxHandshakes

\* What makes these inductive: who holds a clone of the guard follows from where
\* the connection is.
Active == {"queued", "shaking", "serving", "winding", "closing", "upgraded"}
GuardsMatch ==
  \A c \in Conn : /\ loopHolds[c] <=> conn[c] \in Active
                  /\ wsHolds[c] => conn[c] \in {"upgraded", "gone"}

\* max_connections bounds what the process serves at once: handshakes, HTTP
\* connections and live WebSockets, over all the listeners together.
CapRespected == MaxConnections > 0 => Cardinality(Admitted) <= MaxConnections

\* The two budgets, to the permit, and what they are there for.
BudgetKept == PermitsExact /\ CapRespected

\* A drain without a grace period returns only when none of its connections
\* is left in any form, handshakes and upgraded sockets included.
ReturnedMeansDrained ==
  ~ShutdownTimeout =>
    \A c \in Conn : pc[home[c]] = "returned" =>
      conn[c] \in {"out", "backlog", "gone"} /\ ~wsHolds[c]

\* A peer that has not proved it can speak TLS holds a permit of the connection
\* budget for tls_handshake_timeout_ms and no longer, however many queue with it
\* for the handshake budget and whenever its turn there comes.
HandshakeBounded ==
  HandshakeTimeout > 0 =>
    \A c \in Conn : conn[c] \in Unproven => waited[c] <= HandshakeTimeout

\* What makes this inductive: what a timer has lost the connection has waited.
TimersMatch ==
  /\ timer \in [Conn -> Nat] /\ waited \in [Conn -> Nat]
  /\ \A c \in Conn : conn[c] \notin Unproven => waited[c] = 0
  /\ HandshakeTimeout > 0 =>
       \A c \in Conn : conn[c] \in Unproven => timer[c] + waited[c] = HandshakeTimeout

IInv == TypeOK /\ GuardsMatch /\ PermitsExact /\ ReturnedMeansDrained

-----------------------------------------------------------------------------
(* Liveness.                                                                *)

\* Shutdown returns: with a grace period whatever the connections do, and
\* without one because the requests in flight end and every connection, every
\* handshake and every upgraded socket then lets go.
ShutdownReturns == stop ~> \A l \in Listener : pc[l] = "returned"

\* The clients that are served eventually leave; the semaphore hands its
\* permits to the waiting loops in turn, and an accept that keeps being tried
\* does not fail for ever.
ClientsLeave ==
  /\ \A l \in Listener : SF_vars(AcquireSlot(l)) /\ SF_vars(Accept(l))
  /\ \A c \in Conn : WF_vars(PeerEnds(c)) /\ WF_vars(WsEnds(c))

\* If clients leave, one that connected is served unless the server stops: a
\* cap no smaller than the number of listeners leaves none of them without a
\* slot to accept with, so no listener starves beside a parked one.
SlotForEach == MaxConnections = 0 \/ MaxConnections >= Cardinality(Listener)
BacklogServed ==
  ClientsLeave /\ SlotForEach =>
    \A c \in Conn : conn[c] = "backlog" ~> (conn[c] # "backlog" \/ stop)
=============================================================================
