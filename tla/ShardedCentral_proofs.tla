------------------------- MODULE ShardedCentral_proofs -------------------------
(***************************************************************************)
(* The slots, the hand-off and the return of the central acceptor, for any  *)
(* accept loops, connections, caps and number of workers.                   *)
(*                                                                         *)
(* The inductive invariant adds to the properties what they rest on: every  *)
(* queued connection is in one queue and once, what is live is on a worker  *)
(* that is up, a queue is empty before its worker drains, and how far the   *)
(* turns of the loops account for who was given how much.                   *)
(***************************************************************************)
EXTENDS ShardedCentral, Counting, SequenceTheorems

Once(q) == \A i, j \in DOMAIN q : q[i] = q[j] => i = j

QueuesExact ==
  /\ \A w \in Worker : Once(queue[w])
  /\ \A w \in Worker : \A c \in Elements(queue[w]) : conn[c] = "queued"
  /\ \A v, w \in Worker : v # w => Elements(queue[v]) \cap Elements(queue[w]) = {}
  /\ \A c \in Conn : conn[c] = "queued" => \E w \in Worker : c \in Elements(queue[w])

WorkersHold ==
  /\ \A c \in Conn : conn[c] = "live" => worker[at[c]] \in {"serving", "draining"}
  /\ \A w \in Worker : worker[w] \in {"draining", "gone"} => queue[w] = <<>>
  /\ \A w \in Worker : worker[w] = "draining" => main # "accepting"

MainFollows ==
  /\ main # "accepting" => stop /\ \A l \in Listener : pc[l] = "stopped"
  /\ main = "returned" => Up = {}

\* The loops whose next turn lies between the two workers.
Between(v, w) == {l \in Listener : v < next[l] % NumWorkers /\ next[l] % NumWorkers <= w}

TurnsCount ==
  Up = Worker => \A v, w \in Worker :
    v < w => given[v] - given[w] = Cardinality(Between(v, w))

IInv == SlotsExact /\ QueuesExact /\ WorkersHold /\ MainFollows /\ SurvivorsServe /\ TurnsCount

-----------------------------------------------------------------------------
(* Queues, sets and turns.                                                  *)

\* What a queue has after a connection was put at its back.
LEMMA AtTheBack ==
  ASSUME NEW S, NEW q \in Seq(S), NEW e \in S
  PROVE  /\ Append(q, e) \in Seq(S)
         /\ Elements(Append(q, e)) = Elements(q) \cup {e}
         /\ Once(q) /\ e \notin Elements(q) => Once(Append(q, e))
<1>1. /\ Append(q, e) \in Seq(S) /\ DOMAIN q = 1..Len(q) /\ Len(q) \in Nat
      /\ DOMAIN Append(q, e) = 1..(Len(q) + 1)
      /\ \A i \in 1..Len(q) : Append(q, e)[i] = q[i]
      /\ Append(q, e)[Len(q) + 1] = e
  BY AppendProperties, LenProperties
<1>2. \A i \in 1..(Len(q) + 1) : i \in 1..Len(q) \/ i = Len(q) + 1
  BY <1>1
<1>3. Elements(Append(q, e)) = Elements(q) \cup {e}
  BY <1>1, <1>2 DEF Elements
<1>4. ASSUME Once(q), e \notin Elements(q) PROVE Once(Append(q, e))
  BY <1>1, <1>2, <1>4 DEF Once, Elements
<1> QED
  BY <1>1, <1>3, <1>4

\* What it has after the one at its front was taken.
LEMMA FromTheFront ==
  ASSUME NEW S, NEW q \in Seq(S), q # <<>>
  PROVE  /\ Head(q) \in S /\ Head(q) \in Elements(q) /\ Tail(q) \in Seq(S)
         /\ Once(q) => Once(Tail(q)) /\ Elements(Tail(q)) = Elements(q) \ {Head(q)}
<1>1. /\ Head(q) \in S /\ Tail(q) \in Seq(S) /\ Head(q) = q[1]
      /\ DOMAIN q = 1..Len(q) /\ Len(q) \in Nat \ {0} /\ Len(Tail(q)) = Len(q) - 1
      /\ DOMAIN Tail(q) = 1..(Len(q) - 1)
      /\ \A i \in 1..(Len(q) - 1) : Tail(q)[i] = q[i + 1]
  BY HeadTailProperties, LenProperties, EmptySeq
<1>2. Head(q) \in Elements(q)
  BY <1>1 DEF Elements
<1>3. ASSUME Once(q) PROVE Once(Tail(q)) /\ Elements(Tail(q)) = Elements(q) \ {Head(q)}
  <2>1. \A i \in 1..(Len(q) - 1) : i + 1 \in 1..Len(q) /\ i + 1 # 1
    BY <1>1
  <2>2. Once(Tail(q))
    BY <1>1, <1>3, <2>1 DEF Once
  <2>3. Elements(Tail(q)) \subseteq Elements(q) \ {Head(q)}
    BY <1>1, <1>3, <2>1 DEF Once, Elements
  <2>4. \A i \in 1..Len(q) : i = 1 \/ (i - 1 \in 1..(Len(q) - 1) /\ Tail(q)[i - 1] = q[i])
    BY <1>1
  <2>5. ASSUME NEW e \in Elements(q), e # Head(q) PROVE e \in Elements(Tail(q))
    <3>1. PICK i \in 1..Len(q) : q[i] = e
      BY <1>1 DEF Elements
    <3>2. i - 1 \in 1..(Len(q) - 1) /\ Tail(q)[i - 1] = e
      BY <1>1, <2>4, <2>5, <3>1
    <3> QED
      BY <1>1, <3>2 DEF Elements
  <2> QED
    BY <2>2, <2>3, <2>5
<1> QED
  BY <1>1, <1>2, <1>3

\* There is a worker, and a cap is a number.
LEMMA Settings == 0 \in Worker /\ (config \in Configs => MaxConnections \in Nat)
<1>1. 0 \in Worker
  BY Sizes DEF Worker
<1>2. ASSUME config \in Configs PROVE MaxConnections \in Caps
  BY <1>2 DEF Configs, MaxConnections
<1> QED
  BY <1>1, <1>2, Sizes

\* The sets that are counted are finite.
LEMMA AllFinite ==
  /\ IsFiniteSet(Parked) /\ IsFiniteSet(Admitted)
  /\ Cardinality(Parked) \in Nat /\ Cardinality(Admitted) \in Nat
  /\ \A v, w \in Worker : IsFiniteSet(Between(v, w)) /\ Cardinality(Between(v, w)) \in Nat
                            /\ Cardinality(Between(v, w)) <= Cardinality(Listener)
<1>1. Parked \subseteq Listener /\ Admitted \subseteq Conn
  BY DEF Parked, Admitted
<1>2. \A v, w \in Worker : Between(v, w) \subseteq Listener
  BY DEF Between
<1> QED
  BY <1>1, <1>2, FS_Subset, FS_CardinalityType, Finite

\* One accept loop moves: the parked loops differ by it at most.
LEMMA ParkedStep ==
  ASSUME TypeOK, NEW l \in Listener, NEW s, pc' = [pc EXCEPT ![l] = s]
  PROVE  Cardinality(Parked') = Cardinality(Parked)
           + One(s \in {"accepting", "backoff"}) - One(pc[l] \in {"accepting", "backoff"})
<1>1. \A k : k # l => (k \in Parked <=> k \in Parked')
  BY DEF TypeOK, Parked
<1>2. /\ l \in Parked <=> pc[l] \in {"accepting", "backoff"}
      /\ l \in Parked' <=> s \in {"accepting", "backoff"}
  BY DEF TypeOK, Parked
<1>3. Cardinality(Parked') = Cardinality(Parked) + One(l \in Parked') - One(l \in Parked)
  BY <1>1, AllFinite, OneElement
<1> QED
  BY <1>2, <1>3 DEF One

\* One connection moves: the admitted ones differ by it at most.
LEMMA AdmittedStep ==
  ASSUME TypeOK, NEW c \in Conn, NEW s, conn' = [conn EXCEPT ![c] = s]
  PROVE  Cardinality(Admitted') = Cardinality(Admitted)
           + One(s \in {"queued", "live"}) - One(conn[c] \in {"queued", "live"})
<1>1. \A k : k # c => (k \in Admitted <=> k \in Admitted')
  BY DEF TypeOK, Admitted
<1>2. /\ c \in Admitted <=> conn[c] \in {"queued", "live"}
      /\ c \in Admitted' <=> s \in {"queued", "live"}
  BY DEF TypeOK, Admitted
<1>3. Cardinality(Admitted') = Cardinality(Admitted) + One(c \in Admitted') - One(c \in Admitted)
  BY <1>1, AllFinite, OneElement
<1> QED
  BY <1>2, <1>3 DEF One

\* Nothing but a delivery moves a turn, and no worker that is gone comes back.
LEMMA TurnsKept ==
  ASSUME TurnsCount, UNCHANGED <<next, given>>, Up' \subseteq Up
  PROVE  TurnsCount'
<1>1. Up \subseteq Worker
  BY DEF Up
<1>2. \A v, w \in Worker : Between(v, w)' = Between(v, w)
  BY DEF Between
<1> QED
  BY <1>1, <1>2 DEF TurnsCount

\* The worker a connection goes to is up, and the one whose turn it is when all
\* of them are.
LEMMA ChosenIsUp ==
  ASSUME TypeOK, NEW l \in Listener, Up # {}
  PROVE  /\ Chosen(l) \in Up
         /\ next[l] % NumWorkers \in Worker
         /\ Up = Worker => Chosen(l) = next[l] % NumWorkers
<1> DEFINE r == next[l] % NumWorkers
           Taking == {k \in Worker : Offered(l, k) \in Up}
           First(k) == Offered(l, k) \in Up /\ \A j \in 0..(k - 1) : Offered(l, j) \notin Up
<1>1. /\ r \in Worker /\ NumWorkers \in Nat \ {0} /\ Up \subseteq Worker
      /\ \A k \in Worker : Offered(l, k) = IF r + k < NumWorkers THEN r + k
                                                               ELSE r + k - NumWorkers
  BY CountingOn, Sizes DEF TypeOK, Offered, Worker, Up
<1>2. Taking # {}
  <2>1. PICK u \in Up : TRUE
    OBVIOUS
  <2>2. CASE u >= r
    <3>1. u - r \in Worker /\ Offered(l, u - r) = u
      BY <1>1, <2>2 DEF Worker
    <3> QED
      BY <2>1, <3>1
  <2>3. CASE u < r
    <3>1. u - r + NumWorkers \in Worker /\ Offered(l, u - r + NumWorkers) = u
      BY <1>1, <2>3 DEF Worker
    <3> QED
      BY <2>1, <3>1
  <2> QED
    BY <1>1, <2>2, <2>3 DEF Worker
<1>3. \E k \in Worker : First(k)
  <2>1. Taking \subseteq Nat
    BY DEF Worker
  <2>2. \E k \in Taking : \A j \in Taking : k <= j
    <3> HIDE DEF Taking
    <3> QED
      BY <1>2, <2>1, LeastElement
  <2>3. PICK k \in Taking : \A j \in Taking : k <= j
    BY <2>2
  <2>4. ASSUME NEW j \in 0..(k - 1) PROVE j \notin Taking /\ j \in Worker
    BY <1>1, <2>1, <2>3 DEF Worker
  <2> QED
    BY <2>3, <2>4
<1> DEFINE k == CHOOSE j \in Worker : First(j)
<1>4. k \in Worker /\ First(k)
  BY <1>3
<1>5. Chosen(l) = Offered(l, k)
  BY DEF Chosen
<1>6. ASSUME Up = Worker PROVE Chosen(l) = r
  <2>1. Offered(l, 0) = r /\ 0 \in Worker
    BY <1>1 DEF Worker
  <2>2. k = 0
    <3> SUFFICES ASSUME k # 0 PROVE FALSE
      OBVIOUS
    <3>1. 0 \in 0..(k - 1)
      BY <1>1, <1>4 DEF Worker
    <3> QED
      BY <1>1, <1>4, <1>6, <2>1, <3>1
  <2> QED
    BY <1>5, <2>1, <2>2
<1> QED
  BY <1>1, <1>4, <1>5, <1>6

\* A delivery while all workers are up: the turn that is taken and the connection
\* that is given weigh the same.
LEMMA TurnTaken ==
  ASSUME TypeOK, TurnsCount, NEW l \in Listener, Up # {}, UNCHANGED worker,
         given' = [given EXCEPT ![Chosen(l)] = @ + 1], next' = [next EXCEPT ![l] = @ + 1]
  PROVE  TurnsCount'
<1>1. Up' = Up
  BY DEF Up
<1> SUFFICES ASSUME Up = Worker, NEW v \in Worker, NEW w \in Worker, v < w
             PROVE  (given[v] - given[w])' = Cardinality(Between(v, w)')
  BY <1>1 DEF TurnsCount
<1> DEFINE r == next[l] % NumWorkers
           n == (next[l] + 1) % NumWorkers
<1>2. r \in Worker /\ Chosen(l) = r
  BY ChosenIsUp
<1>3. NumWorkers \in Nat /\ 1 \in 0..(NumWorkers - 1) /\ v \in Int /\ w \in Int
  BY Sizes DEF Worker
<1>4. n = IF r + 1 < NumWorkers THEN r + 1 ELSE r + 1 - NumWorkers
  BY <1>3, CountingOn, Sizes DEF TypeOK
<1>5. next'[l] = next[l] + 1 /\ \A k \in Listener : k # l => next'[k] = next[k]
  BY DEF TypeOK
<1>6. \A k : k # l => (k \in Between(v, w) <=> k \in Between(v, w)')
  BY <1>5 DEF Between
<1>7. /\ l \in Between(v, w) <=> v < r /\ r <= w
      /\ l \in Between(v, w)' <=> v < n /\ n <= w
  BY <1>5 DEF Between
<1>8. /\ Cardinality(Between(v, w)') \in Nat /\ Cardinality(Between(v, w)) \in Nat
      /\ Cardinality(Between(v, w)') = Cardinality(Between(v, w))
           + One(l \in Between(v, w)') - One(l \in Between(v, w))
  BY <1>6, AllFinite, OneElement
<1>9. One(l \in Between(v, w)') - One(l \in Between(v, w)) = One(v = r) - One(w = r)
  <2> HIDE DEF r, n
  <2>1. r \in 0..(NumWorkers - 1) /\ v \in 0..(NumWorkers - 1) /\ w \in 0..(NumWorkers - 1)
    BY <1>2 DEF Worker
  <2>2. /\ v < n /\ n <= w <=> v <= r /\ r < w
    BY <1>3, <1>4, <2>1
  <2>3. \/ r = v \/ r = w \/ r < v \/ r > w \/ (v < r /\ r < w)
    BY <2>1
  <2> QED
    BY <1>3, <1>7, <2>1, <2>2, <2>3 DEF One
<1>10. /\ given \in [Worker -> Nat]
       /\ given'[v] = given[v] + One(v = r) /\ given'[w] = given[w] + One(w = r)
  BY <1>2 DEF TypeOK, One
<1>11. given[v] - given[w] = Cardinality(Between(v, w))
  BY DEF TurnsCount
<1>12. given[v] \in Int /\ given[w] \in Int /\ One(v = r) \in Int /\ One(w = r) \in Int
       /\ One(l \in Between(v, w)') \in Int /\ One(l \in Between(v, w)) \in Int
  BY <1>10 DEF One
<1> QED
  <2> HIDE DEF r, n
  <2> QED
    BY <1>8, <1>9, <1>10, <1>11, <1>12

-----------------------------------------------------------------------------
(* IInv is inductive: the accept loops.                                     *)

Holds == QueuesExact /\ WorkersHold /\ SurvivorsServe

\* Where nothing of a connection or a worker moves, nothing of them is lost.
LEMMA HoldsKept ==
  ASSUME Holds, UNCHANGED <<queue, worker, at, conn>>, main' = main \/ main' # "accepting"
  PROVE  Holds'
<1>1. QueuesExact'
  BY DEF Holds, QueuesExact
<1>2. WorkersHold'
  BY DEF Holds, WorkersHold
<1>3. SurvivorsServe'
  BY DEF Holds, SurvivorsServe
<1> QED
  BY <1>1, <1>2, <1>3 DEF Holds

\* Every server starts with the invariant.
LEMMA InitIInv == Init => IInv
<1> SUFFICES ASSUME Init PROVE IInv
  OBVIOUS
<1>1. MaxConnections \in Nat /\ 0 \in Worker
  BY Settings DEF Init
<1>2. TypeOK
  BY <1>1, EmptySeq DEF Init, TypeOK
<1>3. Parked = {} /\ Admitted = {} /\ Elements(<<>>) = {}
  BY EmptySeq DEF Init, Parked, Admitted, Elements
<1>4. SlotsExact
  BY <1>1, <1>2, <1>3, FS_EmptySet DEF Init, SlotsExact
<1>5. QueuesExact
  BY <1>3, EmptySeq DEF Init, QueuesExact, Once
<1>6. WorkersHold /\ MainFollows /\ SurvivorsServe
  BY DEF Init, WorkersHold, MainFollows, SurvivorsServe
<1>7. TurnsCount
  <2>1. 0 % NumWorkers = 0
    BY CountingOn, Sizes
  <2>2. ASSUME NEW v \in Worker, NEW w \in Worker PROVE Between(v, w) = {}
    BY <2>1 DEF Init, Between, Worker
  <2>3. \A v, w \in Worker : given[v] - given[w] = 0
    BY DEF Init
  <2> QED
    BY <2>2, <2>3, FS_EmptySet DEF TurnsCount
<1> QED
  BY <1>4, <1>5, <1>6, <1>7 DEF IInv

\* A loop takes a slot, backs off, has backed off or stops.
LEMMA LoopMovesIInv ==
  ASSUME IInv, NEW l \in Listener,
         AcquireSlot(l) \/ AcceptFails(l) \/ BackoffOver(l) \/ LoopStops(l)
  PROVE  IInv'
<1> DEFINE Moves(s) == pc' = [pc EXCEPT ![l] = s]
<1>1. TypeOK /\ MaxConnections \in Nat
  BY Settings DEF IInv, SlotsExact, TypeOK
<1>2. UNCHANGED <<next, queue, worker, at, given, conn, stop, main, config>>
  BY DEF AcquireSlot, AcceptFails, BackoffOver, LoopStops, workers
<1>3. /\ Up' = Up /\ Admitted' = Admitted
      /\ MaxConnections' = MaxConnections /\ (Capped' <=> Capped)
  BY <1>2 DEF Up, Admitted, MaxConnections, Capped
<1>4. PICK s \in {"waiting", "accepting", "backoff", "stopped"} :
        /\ Moves(s) /\ free' \in Nat
        /\ pc[l] # "stopped" /\ (stop => s = "stopped" \/ pc[l] = "backoff")
        /\ Capped => free' = free + One(pc[l] \in {"accepting", "backoff"})
                                  - One(s \in {"accepting", "backoff"})
  BY <1>1 DEF AcquireSlot, AcceptFails, BackoffOver, LoopStops, Release, TypeOK, One
<1>5. TypeOK'
  BY <1>1, <1>2, <1>4 DEF TypeOK
<1>6. SlotsExact'
  <2>1. Cardinality(Parked') = Cardinality(Parked)
          + One(s \in {"accepting", "backoff"}) - One(pc[l] \in {"accepting", "backoff"})
    BY <1>1, <1>4, ParkedStep
  <2>2. One(s \in {"accepting", "backoff"}) \in Int /\ One(pc[l] \in {"accepting", "backoff"}) \in Int
    BY DEF One
  <2>3. /\ Cardinality(Parked) \in Nat /\ Cardinality(Admitted) \in Nat /\ free \in Nat
        /\ Capped => free + Cardinality(Parked) + Cardinality(Admitted) = MaxConnections
    BY <1>1, AllFinite DEF IInv, SlotsExact, TypeOK
  <2> QED
    BY <1>1, <1>3, <1>4, <1>5, <2>1, <2>2, <2>3 DEF SlotsExact
<1>7. Holds'
  BY <1>2, HoldsKept DEF IInv, Holds
<1>8. MainFollows'
  BY <1>1, <1>2, <1>3, <1>4 DEF IInv, MainFollows, TypeOK
<1>9. TurnsCount'
  BY <1>2, <1>3, TurnsKept DEF IInv
<1> QED
  BY <1>6, <1>7, <1>8, <1>9 DEF IInv, Holds

\* A connection is put into the queue of a worker.
LEMMA QueuedHolds ==
  ASSUME IInv, NEW c \in Conn, conn[c] = "backlog", NEW w \in Up,
         conn' = [conn EXCEPT ![c] = "queued"],
         queue' = [queue EXCEPT ![w] = Append(@, c)], UNCHANGED <<worker, at>>,
         main = "accepting", UNCHANGED main
  PROVE  Holds' /\ queue' \in [Worker -> Seq(Conn)]
<1>1. TypeOK /\ w \in Worker /\ worker[w] \notin {"gone", "draining"}
  BY DEF IInv, SlotsExact, Up, WorkersHold
<1>2. /\ \A v \in Worker : queue[v] \in Seq(Conn) /\ c \notin Elements(queue[v])
      /\ \A v \in Worker : v # w => queue'[v] = queue[v]
      /\ queue'[w] = Append(queue[w], c)
      /\ queue' \in [Worker -> Seq(Conn)]
  BY <1>1, AppendProperties DEF IInv, QueuesExact, TypeOK
<1>3. /\ Elements(queue'[w]) = Elements(queue[w]) \cup {c} /\ Once(queue'[w])
  BY <1>1, <1>2, AtTheBack DEF IInv, QueuesExact
<1>4. conn'[c] = "queued" /\ \A k \in Conn : k # c => conn'[k] = conn[k]
  BY <1>1 DEF TypeOK
<1>5. \A v \in Worker : \A k \in Elements(queue[v]) : k \in Conn
  BY <1>1, <1>2, LenProperties, ElementOfSeq DEF Elements
<1>6. QueuesExact'
  <2>1. \A v \in Worker : Once(queue'[v])
    BY <1>2, <1>3 DEF IInv, QueuesExact
  <2>2. \A v \in Worker : \A k \in Elements(queue'[v]) : conn'[k] = "queued"
    BY <1>2, <1>3, <1>4, <1>5 DEF IInv, QueuesExact
  <2>3. \A u, v \in Worker : u # v => Elements(queue'[u]) \cap Elements(queue'[v]) = {}
    BY <1>2, <1>3 DEF IInv, QueuesExact
  <2>4. \A k \in Conn : conn'[k] = "queued" => \E v \in Worker : k \in Elements(queue'[v])
    BY <1>1, <1>2, <1>3, <1>4 DEF IInv, QueuesExact
  <2>5. \A v \in Worker : Elements(queue[v])' = Elements(queue'[v])
    BY DEF Elements
  <2> QED
    BY <2>1, <2>2, <2>3, <2>4, <2>5 DEF QueuesExact, Once
<1>7. WorkersHold'
  BY <1>1, <1>2, <1>4 DEF IInv, WorkersHold
<1>8. SurvivorsServe'
  BY <1>4 DEF IInv, SurvivorsServe
<1> QED
  BY <1>2, <1>6, <1>7, <1>8 DEF Holds

\* A connection leaves its place for one where no worker has it; what it is said
\* of what is dropped for want of a worker stays true.
LEMMA GoneHolds ==
  ASSUME IInv, NEW c \in Conn, conn[c] \in {"out", "backlog", "live"},
         NEW s \in {"backlog", "dropped", "gone"}, conn' = [conn EXCEPT ![c] = s],
         s = "dropped" => Up = {}, UNCHANGED <<queue, worker, at, main>>
  PROVE  Holds'
<1>1. TypeOK
  BY DEF IInv, SlotsExact
<1>2. conn'[c] = s /\ \A k \in Conn : k # c => conn'[k] = conn[k]
  BY <1>1 DEF TypeOK
<1>3. \A w \in Worker : \A k \in Elements(queue[w]) : k \in Conn /\ k # c
  <2>1. \A w \in Worker : \A k \in Elements(queue[w]) : conn[k] = "queued"
    BY DEF IInv, QueuesExact
  <2>2. \A w \in Worker : queue[w] \in Seq(Conn)
    BY <1>1 DEF TypeOK
  <2> QED
    BY <2>1, <2>2, LenProperties, ElementOfSeq DEF Elements
<1>4. QueuesExact'
  <2>1. \A w \in Worker : Elements(queue[w])' = Elements(queue[w])
    BY DEF Elements
  <2> QED
    BY <1>2, <1>3, <2>1 DEF IInv, QueuesExact, Once
<1>5. WorkersHold'
  BY <1>2 DEF IInv, WorkersHold
<1>6. SurvivorsServe'
  BY <1>2 DEF IInv, SurvivorsServe, Up
<1> QED
  BY <1>4, <1>5, <1>6 DEF Holds

\* A connection is accepted: handed to a worker that is up, or dropped.
LEMMA AcceptIInv ==
  ASSUME IInv, NEW l \in Listener, Accept(l)
  PROVE  IInv'
<1>1. TypeOK /\ MaxConnections \in Nat
  BY Settings DEF IInv, SlotsExact, TypeOK
<1>2. PICK c \in Conn : conn[c] = "backlog" /\ Deliver(l, c)
  BY DEF Accept
<1>3. /\ pc[l] = "accepting" /\ ~stop /\ main = "accepting" /\ UNCHANGED <<stop, main, config>>
      /\ pc' = [pc EXCEPT ![l] = "waiting"] /\ next' = [next EXCEPT ![l] = @ + 1]
  BY <1>1 DEF Accept, IInv, MainFollows, TypeOK
<1>4. UNCHANGED <<worker, at>> /\ MaxConnections' = MaxConnections /\ (Capped' <=> Capped)
  BY <1>2, <1>3 DEF Deliver, workers, MaxConnections, Capped
<1>5. Up' = Up
  BY <1>4 DEF Up
<1>6. Cardinality(Parked') = Cardinality(Parked) - 1
  <2>1. Cardinality(Parked') = Cardinality(Parked)
          + One("waiting" \in {"accepting", "backoff"}) - One(pc[l] \in {"accepting", "backoff"})
    BY <1>1, <1>3, ParkedStep
  <2> QED
    BY <1>3, <2>1, AllFinite DEF One
<1>7. MainFollows'
  BY <1>3 DEF MainFollows
<1>8. /\ free \in Nat /\ Cardinality(Parked) \in Nat /\ Cardinality(Admitted) \in Nat
      /\ Capped => free + Cardinality(Parked) + Cardinality(Admitted) = MaxConnections
  BY <1>1, AllFinite DEF IInv, SlotsExact, TypeOK
<1>9. CASE Up = {}
  <2>1. /\ conn' = [conn EXCEPT ![c] = "dropped"] /\ Release(1)
        /\ UNCHANGED <<queue, given>>
    BY <1>2, <1>9 DEF Deliver, workers
  <2>2. TypeOK'
    BY <1>1, <1>3, <1>4, <2>1 DEF TypeOK, Release
  <2>3. Cardinality(Admitted') = Cardinality(Admitted)
    <3>1. Cardinality(Admitted') = Cardinality(Admitted)
            + One("dropped" \in {"queued", "live"}) - One(conn[c] \in {"queued", "live"})
      BY <1>1, <2>1, AdmittedStep
    <3> QED
      BY <1>2, <3>1, AllFinite DEF One
  <2>4. SlotsExact'
    BY <1>4, <1>6, <1>8, <2>1, <2>2, <2>3 DEF SlotsExact, Release
  <2>5. Holds'
    BY <1>2, <1>3, <1>4, <1>9, <2>1, GoneHolds
  <2>6. TurnsCount'
    BY <1>5, <1>9, Settings DEF TurnsCount
  <2> QED
    BY <1>7, <2>4, <2>5, <2>6 DEF IInv, Holds
<1>10. CASE Up # {}
  <2> DEFINE w == Chosen(l)
  <2>1. /\ conn' = [conn EXCEPT ![c] = "queued"] /\ UNCHANGED free
        /\ queue' = [queue EXCEPT ![w] = Append(@, c)]
        /\ given' = [given EXCEPT ![w] = @ + 1]
    BY <1>2, <1>10 DEF Deliver
  <2>2. w \in Up /\ Up \subseteq Worker
    BY <1>1, <1>10, ChosenIsUp DEF Up
  <2> HIDE DEF w
  <2>3. Holds' /\ queue' \in [Worker -> Seq(Conn)]
    BY <1>2, <1>3, <1>4, <2>1, <2>2, QueuedHolds
  <2>4. TypeOK'
    BY <1>1, <1>3, <1>4, <2>1, <2>2, <2>3 DEF TypeOK
  <2>5. Cardinality(Admitted') = Cardinality(Admitted) + 1
    <3>1. Cardinality(Admitted') = Cardinality(Admitted)
            + One("queued" \in {"queued", "live"}) - One(conn[c] \in {"queued", "live"})
      BY <1>1, <2>1, AdmittedStep
    <3> QED
      BY <1>2, <3>1, AllFinite DEF One
  <2>6. SlotsExact'
    BY <1>4, <1>6, <1>8, <2>1, <2>4, <2>5 DEF SlotsExact
  <2>7. TurnsCount'
    BY <1>1, <1>3, <1>4, <1>10, <2>1, TurnTaken DEF IInv, w
  <2> QED
    BY <1>7, <2>3, <2>6, <2>7 DEF IInv, Holds
<1> QED
  BY <1>9, <1>10

\* A connection comes, fails to be detached, or ends where it is served.
LEMMA ConnMovesIInv ==
  ASSUME IInv, NEW c \in Conn,
         \/ Connect(c)
         \/ ConnEnds(c)
         \/ /\ \E l \in Listener : DetachFails(l)
            /\ conn[c] = "backlog" /\ conn' = [conn EXCEPT ![c] = "gone"]
  PROVE  IInv'
<1>1. TypeOK /\ MaxConnections \in Nat
  BY Settings DEF IInv, SlotsExact, TypeOK
<1>2. UNCHANGED <<next, queue, worker, at, given, stop, main, config>>
  BY DEF Connect, ConnEnds, DetachFails, loops, workers
<1>3. Up' = Up /\ MaxConnections' = MaxConnections /\ (Capped' <=> Capped)
  BY <1>2 DEF Up, MaxConnections, Capped
<1>4. PICK s \in {"backlog", "gone"} :
        /\ conn' = [conn EXCEPT ![c] = s] /\ conn[c] \in {"out", "backlog", "live"}
        /\ free' \in Nat
        /\ \A k \in Listener : pc'[k] # pc[k] => ~stop
        /\ pc' \in [Listener -> {"waiting", "accepting", "backoff", "stopped"}]
        /\ Capped => free' = free + One(conn[c] = "live") + Cardinality(Parked) - Cardinality(Parked')
  <2>1. CASE Connect(c) \/ ConnEnds(c)
    <3>1. UNCHANGED pc /\ Parked' = Parked
      BY <2>1 DEF Connect, ConnEnds, loops, Parked
    <3> QED
      BY <1>1, <2>1, <3>1, AllFinite DEF Connect, ConnEnds, Release, TypeOK, One
  <2>2. CASE /\ \E l \in Listener : DetachFails(l)
             /\ conn[c] = "backlog" /\ conn' = [conn EXCEPT ![c] = "gone"]
    <3> PICK l \in Listener : DetachFails(l)
      BY <2>2
    <3>1. /\ pc[l] = "accepting" /\ ~stop /\ Release(1)
          /\ pc' = [pc EXCEPT ![l] = "waiting"]
      BY DEF DetachFails
    <3>2. Cardinality(Parked') = Cardinality(Parked)
            + One("waiting" \in {"accepting", "backoff"}) - One(pc[l] \in {"accepting", "backoff"})
      BY <1>1, <3>1, ParkedStep
    <3>3. Cardinality(Parked') = Cardinality(Parked) - 1
      BY <3>1, <3>2, AllFinite DEF One
    <3>4. /\ free' \in Nat /\ pc' \in [Listener -> {"waiting", "accepting", "backoff", "stopped"}]
          /\ Capped => free' = free + 1
      BY <1>1, <3>1 DEF TypeOK, Release
    <3> QED
      BY <1>1, <2>2, <3>1, <3>3, <3>4, AllFinite DEF One, TypeOK
  <2> QED
    BY <2>1, <2>2
<1>5. TypeOK'
  BY <1>1, <1>2, <1>4 DEF TypeOK
<1>6. SlotsExact'
  <2>1. Cardinality(Admitted') = Cardinality(Admitted)
          + One(s \in {"queued", "live"}) - One(conn[c] \in {"queued", "live"})
    BY <1>1, <1>4, AdmittedStep
  <2>2. Cardinality(Admitted') = Cardinality(Admitted) - One(conn[c] = "live")
    BY <1>4, <2>1, AllFinite DEF One
  <2>3. /\ Cardinality(Parked) \in Nat /\ Cardinality(Admitted) \in Nat /\ free \in Nat
        /\ Capped => free + Cardinality(Parked) + Cardinality(Admitted) = MaxConnections
        /\ One(conn[c] = "live") \in Int
    BY <1>1, AllFinite DEF IInv, SlotsExact, TypeOK, One
  <2>4. Cardinality(Parked') \in Nat
    <3>1. Parked' \subseteq Listener
      BY DEF Parked
    <3> QED
      BY <3>1, Finite, FS_Subset, FS_CardinalityType
  <2> QED
    BY <1>1, <1>3, <1>4, <1>5, <2>2, <2>3, <2>4 DEF SlotsExact
<1>7. Holds'
  BY <1>2, <1>4, GoneHolds
<1>8. MainFollows'
  BY <1>1, <1>2, <1>3, <1>4 DEF IInv, MainFollows, TypeOK
<1>9. TurnsCount'
  BY <1>2, <1>3, TurnsKept DEF IInv
<1> QED
  BY <1>6, <1>7, <1>8, <1>9 DEF IInv, Holds

-----------------------------------------------------------------------------
(* IInv is inductive: the workers.                                          *)

\* A worker has its runtime, or begins to drain.
LEMMA WorkerMovesIInv ==
  ASSUME IInv, NEW w \in Worker, RuntimeBuilt(w) \/ WorkerDrains(w)
  PROVE  IInv'
<1>1. TypeOK
  BY DEF IInv, SlotsExact
<1>2. UNCHANGED <<pc, next, free, queue, at, given, conn, stop, main, config>>
  BY DEF RuntimeBuilt, WorkerDrains, loops
<1>3. PICK s \in {"serving", "draining"} :
        /\ worker' = [worker EXCEPT ![w] = s] /\ worker[w] \in {"starting", "serving"}
        /\ s = "draining" => queue[w] = <<>> /\ main # "accepting"
  BY DEF RuntimeBuilt, WorkerDrains, SendersGone
<1>4. /\ Up' = Up /\ Parked' = Parked /\ Admitted' = Admitted
      /\ MaxConnections' = MaxConnections /\ (Capped' <=> Capped)
  BY <1>1, <1>2, <1>3 DEF Up, Parked, Admitted, MaxConnections, Capped, TypeOK
<1>5. TypeOK'
  BY <1>1, <1>2, <1>3 DEF TypeOK
<1>6. SlotsExact'
  BY <1>2, <1>4, <1>5 DEF IInv, SlotsExact
<1>7. QueuesExact'
  BY <1>2 DEF IInv, QueuesExact
<1>8. WorkersHold'
  BY <1>1, <1>2, <1>3 DEF IInv, WorkersHold, TypeOK
<1>9. SurvivorsServe'
  BY <1>1, <1>2, <1>3 DEF IInv, SurvivorsServe, TypeOK
<1>10. MainFollows' /\ TurnsCount'
  BY <1>2, <1>4, TurnsKept DEF IInv, MainFollows
<1> QED
  BY <1>6, <1>7, <1>8, <1>9, <1>10 DEF IInv

\* A worker takes over the connection at the front of its queue.
LEMMA AdoptIInv ==
  ASSUME IInv, NEW w \in Worker, Adopt(w)
  PROVE  IInv'
<1> DEFINE c == Head(queue[w])
<1>1. TypeOK /\ MaxConnections \in Nat
  BY Settings DEF IInv, SlotsExact, TypeOK
<1>2. /\ UNCHANGED <<pc, next, worker, given, stop, main, config>>
      /\ worker[w] = "serving" /\ queue[w] # <<>> /\ queue' = [queue EXCEPT ![w] = Tail(@)]
  BY DEF Adopt, loops
<1>3. PICK s \in {"live", "gone"} :
        /\ conn' = [conn EXCEPT ![c] = s]
        /\ at' = IF s = "live" THEN [at EXCEPT ![c] = w] ELSE at
        /\ free' = IF s = "gone" /\ Capped THEN free + 1 ELSE free
  BY DEF Adopt, Release
<1>4. /\ c \in Conn /\ c \in Elements(queue[w]) /\ Tail(queue[w]) \in Seq(Conn)
      /\ Once(Tail(queue[w])) /\ Elements(Tail(queue[w])) = Elements(queue[w]) \ {c}
  BY <1>1, <1>2, FromTheFront DEF IInv, QueuesExact, TypeOK
<1> HIDE DEF c
<1>5. conn[c] = "queued"
  BY <1>4 DEF IInv, QueuesExact
<1>6. /\ Up' = Up /\ Parked' = Parked
      /\ MaxConnections' = MaxConnections /\ (Capped' <=> Capped)
  BY <1>2 DEF Up, Parked, MaxConnections, Capped
<1>7. TypeOK'
  <2>1. queue' \in [Worker -> Seq(Conn)]
    BY <1>1, <1>2, <1>4 DEF TypeOK
  <2>2. conn' \in [Conn -> {"out", "backlog", "queued", "live", "dropped", "gone"}]
    BY <1>1, <1>3 DEF TypeOK
  <2>3. at' \in [Conn -> Worker] /\ free' \in Nat
    BY <1>1, <1>3, <1>4 DEF TypeOK
  <2> QED
    BY <1>1, <1>2, <2>1, <2>2, <2>3 DEF TypeOK
<1>8. SlotsExact'
  <2>1. Cardinality(Admitted') = Cardinality(Admitted)
          + One(s \in {"queued", "live"}) - One(conn[c] \in {"queued", "live"})
    BY <1>1, <1>3, <1>4, AdmittedStep
  <2>2. Cardinality(Admitted') = Cardinality(Admitted) - One(s = "gone")
    BY <1>5, <2>1, AllFinite DEF One
  <2>3. /\ Cardinality(Parked) \in Nat /\ Cardinality(Admitted) \in Nat /\ free \in Nat
        /\ Capped => free + Cardinality(Parked) + Cardinality(Admitted) = MaxConnections
    BY <1>1, AllFinite DEF IInv, SlotsExact, TypeOK
  <2> QED
    BY <1>1, <1>3, <1>6, <1>7, <2>2, <2>3 DEF SlotsExact, One
<1>9. /\ conn'[c] = s /\ \A k \in Conn : k # c => conn'[k] = conn[k]
      /\ queue'[w] = Tail(queue[w]) /\ \A v \in Worker : v # w => queue'[v] = queue[v]
  BY <1>1, <1>2, <1>3, <1>4 DEF TypeOK
<1>10. /\ Elements(queue'[w]) = Elements(queue[w]) \ {c}
       /\ \A v \in Worker : v # w => c \notin Elements(queue[v])
       /\ \A v \in Worker : \A k \in Elements(queue'[v]) : k \in Elements(queue[v]) /\ k # c
  <2>1. Elements(queue'[w]) = Elements(queue[w]) \ {c}
    BY <1>4, <1>9
  <2>2. \A v \in Worker : v # w => c \notin Elements(queue[v])
    BY <1>4 DEF IInv, QueuesExact
  <2>3. \A v \in Worker : v # w => Elements(queue'[v]) = Elements(queue[v])
    BY <1>9
  <2> QED
    BY <2>1, <2>2, <2>3
<1>11. \A v \in Worker : \A k \in Elements(queue[v]) : k \in Conn
  <2>1. \A v \in Worker : queue[v] \in Seq(Conn)
    BY <1>1 DEF TypeOK
  <2> QED
    BY <2>1, LenProperties, ElementOfSeq DEF Elements
<1>12. QueuesExact'
  <2>1. \A v \in Worker : Once(queue'[v])
    BY <1>4, <1>9 DEF IInv, QueuesExact
  <2>2. \A v \in Worker : \A k \in Elements(queue'[v]) : conn'[k] = "queued"
    BY <1>9, <1>10, <1>11 DEF IInv, QueuesExact
  <2>3. \A u, v \in Worker : u # v => Elements(queue'[u]) \cap Elements(queue'[v]) = {}
    BY <1>10 DEF IInv, QueuesExact
  <2>4. \A k \in Conn : conn'[k] = "queued" => \E v \in Worker : k \in Elements(queue'[v])
    BY <1>4, <1>9, <1>10 DEF IInv, QueuesExact
  <2>5. \A v \in Worker : Elements(queue[v])' = Elements(queue'[v])
    BY DEF Elements
  <2> QED
    BY <2>1, <2>2, <2>3, <2>4, <2>5 DEF QueuesExact, Once
<1>13. WorkersHold'
  <2>1. \A k \in Conn : conn'[k] = "live" => worker[at'[k]] \in {"serving", "draining"}
    BY <1>1, <1>2, <1>3, <1>4, <1>9 DEF IInv, WorkersHold, TypeOK
  <2>2. \A v \in Worker : worker[v] \in {"draining", "gone"} => queue'[v] = <<>>
    BY <1>2, <1>9 DEF IInv, WorkersHold
  <2> QED
    BY <1>2, <2>1, <2>2 DEF IInv, WorkersHold
<1>14. SurvivorsServe'
  BY <1>2, <1>4, <1>9 DEF IInv, SurvivorsServe
<1>15. MainFollows' /\ TurnsCount'
  BY <1>2, <1>6, TurnsKept DEF IInv, MainFollows
<1> QED
  BY <1>8, <1>12, <1>13, <1>14, <1>15 DEF IInv

\* The thread of a worker ends, and all it had goes with it.
LEMMA EndsIInv ==
  ASSUME IInv, NEW w \in Worker, NEW lost, Ends(w, lost), worker[w] # "gone",
         lost = Elements(queue[w]) \cup On(w)
  PROVE  IInv'
<1>1. TypeOK /\ MaxConnections \in Nat
  BY Settings DEF IInv, SlotsExact, TypeOK
<1>2. /\ UNCHANGED <<pc, next, at, given, stop, main, config>>
      /\ worker' = [worker EXCEPT ![w] = "gone"] /\ queue' = [queue EXCEPT ![w] = <<>>]
      /\ conn' = [c \in Conn |-> IF c \in lost THEN "gone" ELSE conn[c]]
      /\ free' = IF Capped THEN free + Cardinality(lost) ELSE free
  BY DEF Ends, loops, Release
<1>3. \A v \in Worker : \A k \in Elements(queue[v]) : k \in Conn /\ conn[k] = "queued"
  <2>1. \A v \in Worker : queue[v] \in Seq(Conn)
    BY <1>1 DEF TypeOK
  <2> QED
    BY <2>1, LenProperties, ElementOfSeq DEF Elements, IInv, QueuesExact
<1>4. lost \subseteq Admitted /\ Admitted' = Admitted \ lost
  BY <1>2, <1>3 DEF On, Admitted
<1>5. /\ Cardinality(lost) \in Nat
      /\ Cardinality(Admitted') = Cardinality(Admitted) - Cardinality(lost)
  BY <1>4, AllFinite, PartTaken
<1>6. /\ Up' \subseteq Up /\ Parked' = Parked
      /\ MaxConnections' = MaxConnections /\ (Capped' <=> Capped)
  BY <1>1, <1>2 DEF Up, Parked, MaxConnections, Capped, TypeOK
<1>7. /\ worker'[w] = "gone" /\ \A v \in Worker : v # w => worker'[v] = worker[v]
      /\ queue'[w] = <<>> /\ \A v \in Worker : v # w => queue'[v] = queue[v]
      /\ Elements(queue'[w]) = {} /\ Once(queue'[w])
  BY <1>1, <1>2, EmptySeq DEF TypeOK, Elements, Once
<1>8. TypeOK'
  <2>1. queue' \in [Worker -> Seq(Conn)]
    BY <1>1, <1>2, EmptySeq DEF TypeOK
  <2> QED
    BY <1>1, <1>2, <1>5, <2>1 DEF TypeOK
<1>9. SlotsExact'
  <2>1. /\ Cardinality(Parked) \in Nat /\ Cardinality(Admitted) \in Nat /\ free \in Nat
        /\ Capped => free + Cardinality(Parked) + Cardinality(Admitted) = MaxConnections
    BY <1>1, AllFinite DEF IInv, SlotsExact, TypeOK
  <2> QED
    BY <1>1, <1>2, <1>5, <1>6, <1>8, <2>1 DEF SlotsExact
<1>10. QueuesExact'
  <2>1. \A v \in Worker : Once(queue'[v])
    BY <1>7 DEF IInv, QueuesExact
  <2>2. \A v \in Worker : \A k \in Elements(queue'[v]) : conn'[k] = "queued"
    BY <1>2, <1>3, <1>7 DEF IInv, QueuesExact, On
  <2>3. \A u, v \in Worker : u # v => Elements(queue'[u]) \cap Elements(queue'[v]) = {}
    BY <1>7 DEF IInv, QueuesExact
  <2>4. \A k \in Conn : conn'[k] = "queued" => \E v \in Worker : k \in Elements(queue'[v])
    BY <1>2, <1>7 DEF IInv, QueuesExact
  <2>5. \A v \in Worker : Elements(queue[v])' = Elements(queue'[v])
    BY DEF Elements
  <2> QED
    BY <2>1, <2>2, <2>3, <2>4, <2>5 DEF QueuesExact, Once
<1>11. WorkersHold'
  <2>1. ASSUME NEW k \in Conn, conn'[k] = "live"
        PROVE  worker'[at[k]] \in {"serving", "draining"}
    <3>1. conn[k] = "live" /\ k \notin lost
      BY <1>2, <2>1
    <3>2. at[k] # w /\ at[k] \in Worker
      BY <1>1, <3>1 DEF On, TypeOK
    <3> QED
      BY <1>7, <3>1, <3>2 DEF IInv, WorkersHold
  <2>2. \A v \in Worker : worker'[v] \in {"draining", "gone"} => queue'[v] = <<>>
    BY <1>7 DEF IInv, WorkersHold
  <2>3. \A v \in Worker : worker'[v] = "draining" => main # "accepting"
    BY <1>7 DEF IInv, WorkersHold
  <2> QED
    BY <1>2, <2>1, <2>2, <2>3 DEF WorkersHold
<1>12. SurvivorsServe'
  BY <1>2, <1>7 DEF IInv, SurvivorsServe
<1>13. MainFollows' /\ TurnsCount'
  BY <1>2, <1>6, TurnsKept DEF IInv, MainFollows
<1> QED
  BY <1>9, <1>10, <1>11, <1>12, <1>13 DEF IInv

\* The thread of a worker ends without a runtime, or when it has drained.
LEMMA WorkerEndsIInv ==
  ASSUME IInv, NEW w \in Worker, RuntimeFails(w) \/ WorkerReturns(w)
  PROVE  IInv'
<1>1. Elements(<<>>) = {}
  BY EmptySeq DEF Elements
<1>2. CASE RuntimeFails(w)
  <2>1. On(w) = {}
    BY <1>2 DEF RuntimeFails, On, IInv, WorkersHold
  <2> QED
    BY <1>2, <2>1, EndsIInv DEF RuntimeFails
<1>3. CASE WorkerReturns(w)
  <2>1. queue[w] = <<>>
    BY <1>3 DEF WorkerReturns, IInv, WorkersHold
  <2> QED
    BY <1>1, <1>3, <2>1, EndsIInv DEF WorkerReturns
<1> QED
  BY <1>2, <1>3

-----------------------------------------------------------------------------
(* IInv is inductive: the calling thread, and all together.                 *)

\* The shutdown is announced, or the threads are joined.
LEMMA MainIInv ==
  ASSUME IInv, Shutdown \/ LoopsJoined \/ WorkersJoined
  PROVE  IInv'
<1>1. UNCHANGED <<pc, next, free, queue, worker, at, given, conn, config>>
  BY DEF Shutdown, LoopsJoined, WorkersJoined, loops, workers
<1>2. /\ Up' = Up /\ Parked' = Parked /\ Admitted' = Admitted
      /\ MaxConnections' = MaxConnections /\ (Capped' <=> Capped)
  BY <1>1 DEF Up, Parked, Admitted, MaxConnections, Capped
<1>3. SlotsExact'
  <2>1. TypeOK'
    BY <1>1 DEF Shutdown, LoopsJoined, WorkersJoined, IInv, SlotsExact, TypeOK
  <2> QED
    BY <1>1, <1>2, <2>1 DEF IInv, SlotsExact
<1>4. Holds'
  BY <1>1, HoldsKept DEF Shutdown, LoopsJoined, WorkersJoined, IInv, Holds
<1>5. MainFollows'
  BY <1>1, <1>2 DEF Shutdown, LoopsJoined, WorkersJoined, IInv, MainFollows
<1>6. TurnsCount'
  BY <1>1, <1>2, TurnsKept DEF IInv
<1> QED
  BY <1>3, <1>4, <1>5, <1>6 DEF IInv, Holds

\* Every step of the server keeps the invariant.
LEMMA NextIInv == IInv /\ [Next]_vars => IInv'
<1> SUFFICES ASSUME IInv, [Next]_vars PROVE IInv'
  OBVIOUS
<1>1. CASE \E l \in Listener : Loop(l)
  <2> PICK l \in Listener : Loop(l)
    BY <1>1
  <2>1. CASE AcquireSlot(l) \/ AcceptFails(l) \/ BackoffOver(l) \/ LoopStops(l)
    BY <2>1, LoopMovesIInv
  <2>2. CASE Accept(l)
    BY <2>2, AcceptIInv
  <2>3. CASE DetachFails(l)
    <3>1. PICK c \in Conn : conn[c] = "backlog" /\ conn' = [conn EXCEPT ![c] = "gone"]
      BY <2>3 DEF DetachFails
    <3> QED
      BY <2>3, <3>1, ConnMovesIInv
  <2> QED
    BY <2>1, <2>2, <2>3 DEF Loop
<1>2. CASE \E w \in Worker : WorkerStep(w)
  BY <1>2, WorkerMovesIInv, AdoptIInv, WorkerEndsIInv DEF WorkerStep
<1>3. CASE \E c \in Conn : Connect(c) \/ ConnEnds(c)
  BY <1>3, ConnMovesIInv
<1>4. CASE Shutdown \/ LoopsJoined \/ WorkersJoined
  BY <1>4, MainIInv
<1>5. CASE UNCHANGED vars
  <2>1. UNCHANGED <<config, pc, next, free, queue, worker, at, given, conn, stop, main>>
    BY <1>5 DEF vars, loops, workers
  <2>2. /\ Up' = Up /\ Parked' = Parked /\ Admitted' = Admitted
        /\ MaxConnections' = MaxConnections /\ (Capped' <=> Capped)
    BY <2>1 DEF Up, Parked, Admitted, MaxConnections, Capped
  <2>3. SlotsExact'
    BY <2>1, <2>2 DEF IInv, SlotsExact, TypeOK
  <2>4. Holds' /\ MainFollows' /\ TurnsCount'
    BY <2>1, <2>2, HoldsKept, TurnsKept DEF IInv, Holds, MainFollows
  <2> QED
    BY <2>3, <2>4 DEF IInv, Holds
<1> QED
  BY <1>1, <1>2, <1>3, <1>4, <1>5 DEF Next

\* What holds at first and is kept by every step always holds: the invariant the
\* other theorems rest on.
THEOREM Invariance == Spec => []IInv
<1> QED
  BY InitIInv, NextIInv, PTL DEF Spec

-----------------------------------------------------------------------------
(* What it says.                                                            *)

\* For any number of loops, workers and connections, the slot of max_connections
\* travels with its connection through the queue and comes back once.
THEOREM SlotsAreExact == Spec => []SlotsExact
<1>1. IInv => SlotsExact
  BY DEF IInv
<1> QED
  BY <1>1, Invariance, PTL

\* No connection is dropped for want of a worker while one is up, and while all
\* are, round robin from every address at once keeps them within one connection
\* per address of one another.
THEOREM HandOffIsFair == Spec => []HandedOnFairly
<1>1. IInv => HandedOnFairly
  <2> SUFFICES ASSUME IInv, Up = Worker, NEW v \in Worker, NEW w \in Worker
               PROVE  given[v] - given[w] <= Cardinality(Listener)
    BY DEF IInv, HandedOnFairly, Balanced
  <2>1. given[v] \in Nat /\ given[w] \in Nat /\ v \in Int /\ w \in Int
    BY Sizes DEF IInv, SlotsExact, TypeOK, Worker
  <2>2. Cardinality(Listener) \in Nat
    BY Finite, FS_CardinalityType
  <2>3. CASE v = w
    BY <2>1, <2>2, <2>3
  <2>4. CASE v < w
    <3>1. given[v] - given[w] = Cardinality(Between(v, w))
      BY <2>4 DEF IInv, TurnsCount
    <3> QED
      BY <3>1, AllFinite
  <2>5. CASE w < v
    <3>1. given[w] - given[v] = Cardinality(Between(w, v)) /\ Cardinality(Between(w, v)) \in Nat
      BY <2>5, AllFinite DEF IInv, TurnsCount
    <3> QED
      BY <2>1, <2>2, <3>1
  <2> QED
    BY <2>1, <2>3, <2>4, <2>5
<1> QED
  BY <1>1, Invariance, PTL

\* Once serve_sharded has returned nothing is queued or served and every slot is
\* back, however many workers were joined and whoever was cut off.
THEOREM ReturnedMeansStopped == Spec => []ReturnMeansStopped
<1>1. IInv => ReturnMeansStopped
  <2> SUFFICES ASSUME IInv, main = "returned"
               PROVE  Admitted = {} /\ (Capped => free = MaxConnections)
    BY DEF ReturnMeansStopped
  <2>1. TypeOK /\ Up = {} /\ \A l \in Listener : pc[l] = "stopped"
    BY DEF IInv, SlotsExact, MainFollows
  <2>2. \A w \in Worker : worker[w] = "gone" /\ Elements(queue[w]) = {}
    BY <2>1, EmptySeq DEF Up, IInv, WorkersHold, Elements
  <2>3. \A c \in Conn : conn[c] # "queued" /\ conn[c] # "live"
    BY <2>1, <2>2 DEF IInv, QueuesExact, WorkersHold, TypeOK
  <2>4. Admitted = {} /\ Parked = {}
    BY <2>1, <2>3 DEF Admitted, Parked
  <2> QED
    BY <2>1, <2>4, FS_EmptySet DEF IInv, SlotsExact, TypeOK
<1> QED
  BY <1>1, Invariance, PTL
=============================================================================
