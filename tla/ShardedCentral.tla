---------------------------- MODULE ShardedCentral ----------------------------
(***************************************************************************)
(* serve_sharded_central: accept loops (one per address) on a runtime of    *)
(* their own hand connections round-robin to single-threaded workers, each  *)
(* with its queue, its runtime and its Drain.                               *)
(*                                                                         *)
(* A connection a worker took over is "live" until its task ends: the TLS   *)
(* step and the serving are modules Serve and Connection.                   *)
(***************************************************************************)
EXTENDS Integers, FiniteSets, Sequences

CONSTANTS
  Listener,        \* the accept loops
  NumWorkers,      \* the workers are 0..NumWorkers-1
  Conn,            \* client connections
  Caps             \* values of max_connections, 0: unlimited

Worker == 0..(NumWorkers - 1)

ASSUME Finite == IsFiniteSet(Listener) /\ IsFiniteSet(Conn)
ASSUME Sizes  == NumWorkers \in Nat \ {0} /\ Caps \subseteq Nat

VARIABLES
  config,  \* what the builder was given, which no step changes
  pc,      \* where each accept loop is
  next,    \* its round-robin position
  free,    \* free permits of the connection semaphore
  queue,   \* each worker's handoff queue
  worker,  \* where each worker is
  conn,    \* where each connection is
  at,      \* the worker a live connection is on
  given,   \* history: connections handed to each worker
  stop,    \* the caller's shutdown future has resolved
  main     \* the calling thread: "accepting", "joining" or "returned"

loops   == <<pc, next>>
workers == <<queue, worker, at, given>>
vars    == <<config, loops, free, workers, conn, stop, main>>

Configs == [maxConnections: Caps,  \* max_connections
            grace: BOOLEAN]        \* shutdown_timeout_ms > 0

MaxConnections  == config.maxConnections
ShutdownTimeout == config.grace

TypeOK ==
  /\ config \in Configs
  /\ pc \in [Listener -> {"waiting", "accepting", "backoff", "stopped"}]
  /\ next \in [Listener -> Nat]
  /\ free \in Nat
  /\ queue \in [Worker -> Seq(Conn)]
  /\ worker \in [Worker -> {"starting", "serving", "draining", "gone"}]
  /\ conn \in [Conn -> {"out", "backlog", "queued", "live", "dropped", "gone"}]
  /\ at \in [Conn -> Worker]
  /\ given \in [Worker -> Nat]
  /\ stop \in BOOLEAN
  /\ main \in {"accepting", "joining", "returned"}

Init ==
  /\ config \in Configs
  /\ pc = [l \in Listener |-> "waiting"] /\ next = [l \in Listener |-> 0]
  /\ free = MaxConnections
  /\ queue = [w \in Worker |-> <<>>]
  /\ worker = [w \in Worker |-> "starting"]
  /\ conn = [c \in Conn |-> "out"] /\ at = [c \in Conn |-> 0]
  /\ given = [w \in Worker |-> 0]
  /\ stop = FALSE /\ main = "accepting"

Capped == MaxConnections > 0

\* Mutant: a slot that goes down with a dropped connection is not returned.
Release_one(n) == free' = IF Capped /\ n > 0 THEN free + 1 ELSE free

Release(n) == free' = IF Capped THEN free + n ELSE free

Elements(q) == {q[i] : i \in DOMAIN q}

On(w) == {c \in Conn : conn[c] = "live" /\ at[c] = w}

-----------------------------------------------------------------------------
(* shard_accept_loop                                                        *)

Connect(c) ==
  /\ conn[c] = "out" /\ main = "accepting"
  /\ conn' = [conn EXCEPT ![c] = "backlog"]
  /\ UNCHANGED <<loops, free, workers, stop, main, config>>

AcquireSlot(l) ==
  /\ ~stop /\ pc[l] = "waiting"
  /\ IF Capped THEN free > 0 /\ free' = free - 1 ELSE UNCHANGED free
  /\ pc' = [pc EXCEPT ![l] = "accepting"]
  /\ UNCHANGED <<next, workers, conn, stop, main, config>>

\* A send fails only when the receiver is dropped with its worker; the payload
\* comes back and is offered to the next one.
Up == {w \in Worker : worker[w] # "gone"}

Offered(l, k) == (next[l] + k) % NumWorkers

Chosen(l) ==
  LET k == CHOOSE k \in Worker : /\ Offered(l, k) \in Up
                                 /\ \A j \in 0..(k - 1) : Offered(l, j) \notin Up
  IN Offered(l, k)

\* Mutant: no fallback, the connections of a dead worker are dropped.
Deliver_noFallback(l, c) ==
  LET w == next[l] % NumWorkers IN
  IF w \notin Up
  THEN /\ conn' = [conn EXCEPT ![c] = "dropped"]
       /\ Release(1) /\ UNCHANGED workers
  ELSE /\ conn' = [conn EXCEPT ![c] = "queued"]
       /\ queue' = [queue EXCEPT ![w] = Append(@, c)]
       /\ given' = [given EXCEPT ![w] = @ + 1]
       /\ UNCHANGED <<free, worker, at>>

Deliver(l, c) ==
  IF Up = {}
  THEN /\ conn' = [conn EXCEPT ![c] = "dropped"]
       /\ Release(1) /\ UNCHANGED workers
  ELSE LET w == Chosen(l) IN
       /\ conn' = [conn EXCEPT ![c] = "queued"]
       /\ queue' = [queue EXCEPT ![w] = Append(@, c)]
       /\ given' = [given EXCEPT ![w] = @ + 1]
       /\ UNCHANGED <<free, worker, at>>

Accept(l) ==
  /\ ~stop /\ pc[l] = "accepting"
  /\ \E c \in Conn : conn[c] = "backlog" /\ Deliver(l, c)
  /\ next' = [next EXCEPT ![l] = @ + 1]
  /\ pc' = [pc EXCEPT ![l] = "waiting"]
  /\ UNCHANGED <<stop, main, config>>

\* into_std fails: the connection is dropped and its worker's turn is kept.
DetachFails(l) ==
  /\ ~stop /\ pc[l] = "accepting"
  /\ \E c \in Conn : conn[c] = "backlog" /\ conn' = [conn EXCEPT ![c] = "gone"]
  /\ Release(1)
  /\ pc' = [pc EXCEPT ![l] = "waiting"]
  /\ UNCHANGED <<next, workers, stop, main, config>>

AcceptFails(l) ==
  /\ ~stop /\ pc[l] = "accepting"
  /\ pc' = [pc EXCEPT ![l] = "backoff"]
  /\ UNCHANGED <<next, free, workers, conn, stop, main, config>>

BackoffOver(l) ==
  /\ pc[l] = "backoff"
  /\ Release(1)
  /\ pc' = [pc EXCEPT ![l] = "waiting"]
  /\ UNCHANGED <<next, workers, conn, stop, main, config>>

\* Mutant: the slot is awaited outside the select, where nothing cancels it.
LoopStops_whileAccepting(l) ==
  /\ stop /\ pc[l] = "accepting"
  /\ Release(1)
  /\ pc' = [pc EXCEPT ![l] = "stopped"]
  /\ UNCHANGED <<next, workers, conn, stop, main, config>>

LoopStops(l) ==
  /\ stop /\ pc[l] \in {"waiting", "accepting"}
  /\ Release(IF pc[l] = "accepting" THEN 1 ELSE 0)
  /\ pc' = [pc EXCEPT ![l] = "stopped"]
  /\ UNCHANGED <<next, workers, conn, stop, main, config>>

Loop(l) == \/ AcquireSlot(l) \/ Accept(l) \/ DetachFails(l) \/ AcceptFails(l)
           \/ BackoffOver(l) \/ LoopStops(l)

-----------------------------------------------------------------------------
(* worker_loop                                                              *)

RuntimeBuilt(w) ==
  /\ worker[w] = "starting"
  /\ worker' = [worker EXCEPT ![w] = "serving"]
  /\ UNCHANGED <<loops, free, queue, at, given, conn, stop, main, config>>

\* The worker's thread ends: its runtime and its queue are dropped, and the
\* slots of everything it had with them.
Ends(w, lost) ==
  /\ worker' = [worker EXCEPT ![w] = "gone"]
  /\ queue' = [queue EXCEPT ![w] = <<>>]
  /\ conn' = [c \in Conn |-> IF c \in lost THEN "gone" ELSE conn[c]]
  /\ Release(Cardinality(lost))
  /\ UNCHANGED <<loops, at, given, stop, main, config>>

\* The runtime could not be built; connections may have been queued already.
RuntimeFails(w) == worker[w] = "starting" /\ Ends(w, Elements(queue[w]))

Adopt(w) ==
  /\ worker[w] = "serving" /\ queue[w] # <<>>
  /\ queue' = [queue EXCEPT ![w] = Tail(@)]
  /\ LET c == Head(queue[w]) IN
       \/ /\ conn' = [conn EXCEPT ![c] = "live"]
          /\ at' = [at EXCEPT ![c] = w]
          /\ UNCHANGED free
       \/ \* set_nonblocking or from_std fails
          /\ conn' = [conn EXCEPT ![c] = "gone"]
          /\ Release(1) /\ UNCHANGED at
  /\ UNCHANGED <<loops, worker, given, stop, main, config>>

\* recv answers None once the queue is empty and every sender is gone; the
\* senders go with the accept runtime's main future.
SendersGone == main # "accepting"

WorkerDrains(w) ==
  /\ worker[w] = "serving" /\ queue[w] = <<>> /\ SendersGone
  /\ worker' = [worker EXCEPT ![w] = "draining"]
  /\ UNCHANGED <<loops, free, queue, at, given, conn, stop, main, config>>

\* Drain::wait is over; what the grace period cut short goes with the runtime.
WorkerReturns(w) ==
  /\ worker[w] = "draining"
  /\ On(w) = {} \/ ShutdownTimeout
  /\ Ends(w, On(w))

ConnEnds(c) ==
  /\ conn[c] = "live"
  /\ conn' = [conn EXCEPT ![c] = "gone"]
  /\ Release(1)
  /\ UNCHANGED <<loops, workers, stop, main, config>>

WorkerStep(w) == \/ RuntimeBuilt(w) \/ RuntimeFails(w) \/ Adopt(w)
                 \/ WorkerDrains(w) \/ WorkerReturns(w)

-----------------------------------------------------------------------------
(* The calling thread: the broadcast, the join of the loops, and the join   *)
(* of the workers.                                                          *)

Shutdown ==
  /\ ~stop /\ stop' = TRUE
  /\ UNCHANGED <<loops, free, workers, conn, main, config>>

LoopsJoined ==
  /\ main = "accepting" /\ stop /\ \A l \in Listener : pc[l] = "stopped"
  /\ main' = "joining"
  /\ UNCHANGED <<loops, free, workers, conn, stop, config>>

\* Mutant: only the first worker is joined.
WorkersJoined_first ==
  /\ main = "joining" /\ worker[0] = "gone"
  /\ main' = "returned"
  /\ UNCHANGED <<loops, free, workers, conn, stop, config>>

WorkersJoined ==
  /\ main = "joining" /\ Up = {}
  /\ main' = "returned"
  /\ UNCHANGED <<loops, free, workers, conn, stop, config>>

Next == \/ \E l \in Listener : Loop(l)
        \/ \E w \in Worker : WorkerStep(w)
        \/ \E c \in Conn : Connect(c) \/ ConnEnds(c)
        \/ Shutdown \/ LoopsJoined \/ WorkersJoined

Spec == Init /\ [][Next]_vars

(***************************************************************************)
(* Fairness: the loops and the workers run, and so does the main thread; a  *)
(* connection that was taken over ends (a drained one by ConnLease, another *)
(* when its client leaves).                                                 *)
(***************************************************************************)
FairSpec ==
  /\ Spec /\ WF_vars(LoopsJoined) /\ WF_vars(WorkersJoined)
  /\ \A l \in Listener : WF_vars(BackoffOver(l)) /\ WF_vars(LoopStops(l))
  /\ \A w \in Worker : WF_vars(WorkerStep(w))
  /\ \A c \in Conn : WF_vars(ConnEnds(c))

-----------------------------------------------------------------------------
(* Safety.                                                                  *)

Admitted == {c \in Conn : conn[c] \in {"queued", "live"}}
Parked   == {l \in Listener : pc[l] \in {"accepting", "backoff"}}

\* The slot travels with the connection through the queue: it is given back
\* exactly once whichever of the eight ways out the connection takes.
SlotsExact ==
  /\ TypeOK
  /\ Capped => free + Cardinality(Parked) + Cardinality(Admitted) = MaxConnections

\* The hand-off. A worker that is gone costs only what it had: an accepted
\* connection is dropped for want of a worker only when every worker is gone.
\* And while all are up, none gets more than one connection per accept loop ahead
\* of another.
SurvivorsServe == (\E c \in Conn : conn[c] = "dropped") => \A w \in Worker : worker[w] = "gone"
Balanced ==
  Up = Worker => \A v, w \in Worker : given[v] - given[w] <= Cardinality(Listener)
HandedOnFairly == SurvivorsServe /\ Balanced

\* serve_sharded's return means that everything has stopped: nothing is queued
\* or live and the whole budget is back, also when the grace period ran out.
ReturnMeansStopped ==
  main = "returned" => Admitted = {} /\ (Capped => free = MaxConnections)

\* Liveness: the shutdown returns.
ShutdownReturns == stop ~> main = "returned"
=============================================================================
