--------------------------- MODULE Components_proofs ---------------------------
(***************************************************************************)
(* What the components that share nothing promise, each under the           *)
(* specification of its own steps: for any number of peers, commands and    *)
(* requests, and any limits.  MCComponents checks the same invariants on    *)
(* small instances, where a step is a step of one of these specifications   *)
(* that leaves the others alone.                                            *)
(***************************************************************************)
EXTENDS WebSocket, Http3, Http3Request, RequestBody, CookieSessions, RedisConnection,
        Startup, Client, Auth, TowerBridge, Compression, Pipeline, Download, RateLimit,
        RedisSessions, ApiDocument, Counting, SequenceTheorems

-----------------------------------------------------------------------------
(* WebSocket: the idle reaper.                                              *)

WsSpec == WsInit /\ [][WsNext]_socket

WsTyped ==
  socket \in [phase: {"none", "call", "extracted", "upgrading", "open", "closed"},
              handle: {"none", "pending", "absent", "taken"}, idle: Nat, guarded: BOOLEAN,
              clock: Nat, last: Nat, timer: Nat,
              end: {"none", "426", "400", "500", "forgotten", "failed", "callback", "drain",
                    "reaper"}]

\* What bounds the silence of an open socket is when its timer is due, which is
\* never later than a period after the last frame that the reaper knows of.
WsTimed ==
  /\ socket.phase \in {"none", "call", "extracted", "upgrading"} =>
       socket.clock = 0 /\ socket.last = 0
  /\ socket.phase # "closed" => socket.end = "none"
  /\ Open /\ socket.idle > 0 =>
       /\ socket.last <= socket.clock /\ socket.clock <= socket.timer
       /\ socket.timer <= socket.last + socket.idle

WsIInv == WsTyped /\ WsTimed /\ IdleBoundExact

\* A server with no socket yet satisfies the invariant.
LEMMA WsStarts == WsInit => WsIInv
BY DEF WsInit, WsIInv, WsTyped, WsTimed, IdleBoundExact, Open, Quiet

\* Every step of the upgrade, the handler, the peer and the reaper keeps it.
LEMMA WsSteps == WsIInv /\ [WsNext]_socket => WsIInv'
<1> SUFFICES ASSUME WsIInv, [WsNext]_socket PROVE WsIInv'
  OBVIOUS
<1> USE DEF WsIInv, WsTyped, WsTimed, IdleBoundExact, Open, Quiet
<1>1. ASSUME NEW idle \in WsIdleTimeouts, NEW engine \in BOOLEAN, WsCall(idle, engine)
      PROVE  WsIInv'
  BY <1>1, WsTimes DEF WsCall
<1>2. ASSUME NEW asks \in BOOLEAN, NEW version \in BOOLEAN, NEW key \in BOOLEAN,
             WsExtract(asks, version, key)
      PROVE  WsIInv'
  BY <1>2 DEF WsExtract, Verdict, Closed
<1>3. CASE WsForgotten \/ OnUpgrade \/ UpgradeFails
  BY <1>3 DEF WsForgotten, OnUpgrade, UpgradeFails, Closed
<1>4. CASE Upgraded
  <2>1. socket' = [socket EXCEPT !.phase = "open", !.timer = socket.idle]
    BY <1>4 DEF Upgraded
  <2>2. /\ socket.phase = "upgrading" /\ socket.clock = 0 /\ socket.last = 0
        /\ socket.end = "none"
    BY <1>4 DEF Upgraded
  <2>3. WsTyped'
    BY <2>1
  <2> QED
    BY <2>1, <2>2, <2>3
<1>5. CASE Touch
  BY <1>5 DEF Touch
<1>6. CASE CallbackReturns \/ WsDraining
  BY <1>6 DEF CallbackReturns, WsDraining, Closed
<1>7. CASE Reaper
  <2>1. socket.phase = "open" /\ socket.idle > 0 /\ socket.clock = socket.timer
    BY <1>7 DEF Reaper, TimerFires
  <2>2. CASE IdleFor = 0
    <3>1. Quiet = socket.idle
      BY <2>1, <2>2 DEF IdleFor
    <3>2. socket' = Closed(socket, "reaper")
      BY <1>7, <2>2 DEF Reaper
    <3> QED
      BY <2>1, <3>1, <3>2 DEF Closed
  <2>3. CASE IdleFor # 0
    <3>1. IdleFor \in Nat /\ socket.clock + IdleFor = socket.last + socket.idle
      BY <2>1, <2>3 DEF IdleFor
    <3>2. socket' = [socket EXCEPT !.timer = socket.clock + IdleFor]
      BY <1>7, <2>3 DEF Reaper
    <3> HIDE DEF Quiet
    <3>3. WsTyped'
      BY <3>1, <3>2
    <3> QED
      BY <2>1, <3>1, <3>2, <3>3 DEF Quiet
  <2> QED
    BY <2>2, <2>3
<1>8. CASE WsTick
  BY <1>8 DEF WsTick, TimerFires
<1>9. CASE UNCHANGED socket
  BY <1>9
<1> QED
  BY <1>1, <1>2, <1>3, <1>4, <1>5, <1>6, <1>7, <1>8, <1>9 DEF WsNext

\* However frames, the callback, the drain and the reaper interleave, and whatever
\* the period, the reaper of websocket.rs closes a socket only when it has been
\* silent for a whole period and lets none be silent for longer; and a socket that
\* is over, whichever way, holds no permit.
THEOREM IdleBound == WsSpec => []IdleBoundExact
<1>1. WsIInv => IdleBoundExact
  BY DEF WsIInv
<1> QED
  BY <1>1, WsStarts, WsSteps, PTL DEF WsSpec

-----------------------------------------------------------------------------
(* Http3: the QUIC budgets.                                                 *)

H3Spec == H3Init /\ [][H3Next]_quic

QuicSetup == [connections: Nat, handshakes: Nat, shakeLimit: Nat, keepAlive: Nat, streams: Nat]
QuicPlaces == {"away", "queued", "incoming", "waiting", "shaking", "served", "gone"}
Counters == [QuicPeer -> Nat]

H3Typed ==
  /\ quic \in [loop: {"unbound", "refused", "accepting", "acquiring", "closed"},
               cfg: QuicSetup, slots: Int, shakes: Int, incoming: QuicPeer \cup {NoPeer},
               at: [QuicPeer -> QuicPlaces], age: Counters, quiet: Counters, tasks: Counters]

\* Before the endpoint is there nobody is; the connection that waits for a slot
\* is one that has none.
H3Placed ==
  /\ quic.loop \in {"unbound", "refused"} => \A c \in QuicPeer : quic.at[c] = "away"
  /\ quic.loop = "acquiring" =>
       quic.incoming \in QuicPeer /\ quic.at[quic.incoming] = "incoming"

H3IInv == H3Typed /\ H3Placed /\ QuicBudgetsExact

Alive == {"waiting", "shaking", "served"}

\* A count of connections by place, when one connection moves.
LEMMA OneMoves ==
  ASSUME NEW c \in QuicPeer, NEW places,
         \A d \in QuicPeer : d # c => quic'.at[d] = quic.at[d]
  PROVE  /\ At(places) \in Nat
         /\ At(places)' = At(places) + One(quic'.at[c] \in places) - One(quic.at[c] \in places)
<1> DEFINE S == {d \in QuicPeer : quic.at[d] \in places}
           T == {d \in QuicPeer : quic'.at[d] \in places}
<1>1. IsFiniteSet(S)
  BY QuicNumbers, FS_Subset
<1>2. \A d : d # c => (d \in S <=> d \in T)
  OBVIOUS
<1>3. /\ Cardinality(S) \in Nat
      /\ Cardinality(T) = Cardinality(S) + One(c \in T) - One(c \in S)
  BY <1>1, <1>2, OneElement
<1>4. (c \in S <=> quic.at[c] \in places) /\ (c \in T <=> quic'.at[c] \in places)
  OBVIOUS
<1> QED
  BY <1>3, <1>4 DEF At, One

\* ... and when nobody moves into those places or out of them.
LEMMA NobodyMoves ==
  ASSUME NEW places, \A d \in QuicPeer : quic'.at[d] \in places <=> quic.at[d] \in places
  PROVE  At(places)' = At(places)
<1>1. {d \in QuicPeer : quic'.at[d] \in places} = {d \in QuicPeer : quic.at[d] \in places}
  OBVIOUS
<1> QED
  BY <1>1 DEF At

\* Before the endpoint is bound the invariant holds.
LEMMA H3Starts == H3Init => H3IInv
<1> SUFFICES ASSUME H3Init PROVE H3IInv
  OBVIOUS
<1>1. H3Typed
  BY QuicNumbers DEF H3Init, H3Typed, Counters, QuicPlaces, QuicSetup, NoSettings
<1>2. quic.loop = "unbound" /\ \A c \in QuicPeer : quic.at[c] = "away"
  BY DEF H3Init
<1> QED
  BY <1>1, <1>2 DEF H3IInv, H3Placed, QuicBudgetsExact

\* One connection moves to place p, and the permits follow it.
LEMMA Lands ==
  ASSUME H3IInv, H3Typed', H3Placed', NEW c \in QuicPeer, NEW p \in QuicPlaces,
         quic.loop \notin {"unbound", "refused"}, quic'.cfg = quic.cfg,
         quic'.at = [quic.at EXCEPT ![c] = p],
         Limited(quic.cfg.connections) =>
           /\ quic'.slots >= 0
           /\ quic'.slots = quic.slots + One(quic.at[c] \in Alive) - One(p \in Alive),
         Limited(quic.cfg.handshakes) =>
           /\ quic'.shakes >= 0
           /\ quic'.shakes = quic.shakes + One(quic.at[c] = "shaking") - One(p = "shaking"),
         \A d \in QuicPeer : d # c => quic'.age[d] = quic.age[d],
         p \in {"waiting", "shaking"} /\ Limited(quic.cfg.shakeLimit) =>
           quic'.age[c] <= quic.cfg.shakeLimit
  PROVE  H3IInv'
<1>1. QuicBudgetsExact /\ H3Typed
  BY DEF H3IInv
<1>2. /\ quic.at \in [QuicPeer -> QuicPlaces]
      /\ quic.slots \in Int /\ quic.shakes \in Int /\ quic'.slots \in Int /\ quic'.shakes \in Int
      /\ quic.cfg.connections \in Nat /\ quic.cfg.handshakes \in Nat
  BY <1>1 DEF H3Typed, QuicSetup
<1>3. quic'.at[c] = p /\ \A d \in QuicPeer : d # c => quic'.at[d] = quic.at[d]
  BY <1>2
<1>4. /\ At(Alive) \in Nat
      /\ At(Alive)' = At(Alive) + One(p \in Alive) - One(quic.at[c] \in Alive)
  BY <1>3, OneMoves
<1>5. /\ At({"shaking"}) \in Nat
      /\ At({"shaking"})' =
           At({"shaking"}) + One(p \in {"shaking"}) - One(quic.at[c] \in {"shaking"})
  BY <1>3, OneMoves
<1>6. /\ One(p \in {"shaking"}) = One(p = "shaking")
      /\ One(quic.at[c] \in {"shaking"}) = One(quic.at[c] = "shaking")
      /\ One(p \in Alive) \in Nat /\ One(quic.at[c] \in Alive) \in Nat
      /\ One(p = "shaking") \in Nat /\ One(quic.at[c] = "shaking") \in Nat
  BY DEF One
<1>7. Limited(quic.cfg.connections) =>
        quic'.slots >= 0 /\ quic'.slots + At(Alive)' = quic.cfg.connections
  <2>1. Limited(quic.cfg.connections) => quic.slots + At(Alive) = quic.cfg.connections
    BY <1>1 DEF QuicBudgetsExact, Alive
  <2> QED
    BY <1>2, <1>4, <1>6, <2>1
<1>8. Limited(quic.cfg.handshakes) =>
        quic'.shakes >= 0 /\ quic'.shakes + At({"shaking"})' = quic.cfg.handshakes
  <2>1. Limited(quic.cfg.handshakes) => quic.shakes + At({"shaking"}) = quic.cfg.handshakes
    BY <1>1 DEF QuicBudgetsExact
  <2> QED
    BY <1>2, <1>5, <1>6, <2>1
<1>9. Limited(quic.cfg.shakeLimit) =>
        \A d \in QuicPeer : Unproven(d)' => quic'.age[d] <= quic.cfg.shakeLimit
  BY <1>1, <1>3 DEF QuicBudgetsExact, Unproven
<1> QED
  BY <1>7, <1>8, <1>9 DEF H3IInv, QuicBudgetsExact, Alive

\* No task begins or ends, and no peer is let to shake for longer than it may.
LEMMA Stays ==
  ASSUME H3IInv, H3Typed', H3Placed',
         quic'.loop \notin {"unbound", "refused"} => quic.loop \notin {"unbound", "refused"},
         quic'.cfg = quic.cfg, quic'.slots = quic.slots, quic'.shakes = quic.shakes,
         \A c \in QuicPeer :
           quic'.at[c] = quic.at[c] \/ (quic'.at[c] \notin Alive /\ quic.at[c] \notin Alive),
         Limited(quic.cfg.shakeLimit) =>
           \A c \in QuicPeer : Unproven(c)' => quic'.age[c] <= quic.cfg.shakeLimit
  PROVE  H3IInv'
<1>1. \A c \in QuicPeer : /\ quic'.at[c] \in Alive <=> quic.at[c] \in Alive
                          /\ quic'.at[c] \in {"shaking"} <=> quic.at[c] \in {"shaking"}
  BY DEF Alive
<1>2. At(Alive)' = At(Alive) /\ At({"shaking"})' = At({"shaking"})
  BY <1>1, NobodyMoves
<1> QED
  BY <1>2 DEF H3IInv, QuicBudgetsExact, Alive

\* Every step of the accept loop, the handshakes and the streams keeps it.
LEMMA H3Steps == H3IInv /\ [H3Next]_quic => H3IInv'
<1> SUFFICES ASSUME H3IInv, [H3Next]_quic PROVE H3IInv'
  OBVIOUS
<1>t. H3Typed /\ H3Placed /\ QuicBudgetsExact
  BY DEF H3IInv
<1>n. /\ quic.slots \in Int /\ quic.shakes \in Int /\ quic.at \in [QuicPeer -> QuicPlaces]
      /\ quic.age \in Counters /\ quic.quiet \in Counters /\ quic.tasks \in Counters
      /\ quic.cfg.connections \in Nat /\ quic.cfg.handshakes \in Nat
      /\ quic.cfg.shakeLimit \in Nat
  BY <1>t DEF H3Typed, QuicSetup
<1>p. ASSUME NEW c \in QuicPeer, quic.at[c] # "away" PROVE quic.loop \notin {"unbound", "refused"}
  BY <1>t, <1>p DEF H3Placed
<1>1. ASSUME NEW s \in QuicSettings, Bind(s) PROVE H3IInv'
  <2>1. CASE IdleMsFor(s.keepAlive) > QuicIdleMax
    <3>1. quic' = [quic EXCEPT !.loop = "refused"] /\ quic.loop = "unbound"
      BY <1>1, <2>1 DEF Bind
    <3>2. H3Typed'
      BY <1>t, <3>1 DEF H3Typed
    <3>3. quic'.loop = "refused" /\ quic'.at = quic.at
      BY <1>t, <3>1 DEF H3Typed
    <3> QED
      BY <1>t, <3>1, <3>2, <3>3 DEF H3IInv, H3Placed, QuicBudgetsExact
  <2>2. CASE ~(IdleMsFor(s.keepAlive) > QuicIdleMax)
    <3>1. /\ quic.loop = "unbound"
          /\ quic' = [quic EXCEPT !.loop = "accepting", !.cfg = s, !.slots = s.connections,
                                  !.shakes = s.handshakes]
      BY <1>1, <2>2 DEF Bind
    <3>2. s \in QuicSetup /\ s.connections \in Int /\ s.handshakes \in Int
          /\ s.connections >= 0 /\ s.handshakes >= 0
      BY QuicNumbers DEF QuicSetup
    <3>3. H3Typed'
      BY <1>t, <3>1, <3>2 DEF H3Typed
    <3>4. /\ quic'.loop = "accepting" /\ quic'.cfg = s /\ quic'.slots = s.connections
          /\ quic'.shakes = s.handshakes /\ quic'.at = quic.at
      BY <1>t, <3>1 DEF H3Typed
    <3>5. \A c \in QuicPeer : quic'.at[c] = "away"
      BY <1>t, <3>1, <3>4 DEF H3Placed
    <3>6. At(Alive)' = 0 /\ At({"shaking"})' = 0
      <4>1. {c \in QuicPeer : quic'.at[c] \in Alive} = {}
        BY <3>5 DEF Alive
      <4>2. {c \in QuicPeer : quic'.at[c] \in {"shaking"}} = {}
        BY <3>5
      <4> QED
        BY <4>1, <4>2, FS_EmptySet DEF At
    <3>7. H3Placed'
      BY <3>4 DEF H3Placed
    <3>8. \A c \in QuicPeer : ~Unproven(c)'
      BY <3>5 DEF Unproven
    <3> QED
      BY <3>2, <3>3, <3>4, <3>6, <3>7, <3>8 DEF H3IInv, QuicBudgetsExact, Alive
  <2> QED
    BY <2>1, <2>2
<1>2. CASE Spawn
  <2> DEFINE c == quic.incoming
             z == IF Limited(quic.cfg.connections) THEN quic.slots - 1 ELSE quic.slots
  <2>1. c \in QuicPeer /\ quic.at[c] = "incoming" /\ quic.loop = "acquiring"
    BY <1>2, <1>t DEF Spawn, H3Placed
  <2>2. /\ Limited(quic.cfg.connections) => quic.slots > 0
        /\ quic' = [quic EXCEPT !.at[c] = "waiting", !.loop = "accepting",
                                !.incoming = NoPeer, !.age[c] = 0, !.slots = z]
    BY <1>2, <1>t DEF Spawn, Move, H3Typed
  <2>3. z \in Int
    BY <1>n
  <2>4. Limited(quic.cfg.connections) => z >= 0 /\ z = quic.slots + 0 - 1
    BY <1>n, <2>2
  <2>5. ~Limited(quic.cfg.connections) => z = quic.slots
    OBVIOUS
  <2> HIDE DEF c, z
  <2>6. H3Typed'
    BY <1>t, <2>1, <2>2, <2>3 DEF H3Typed, QuicPlaces, Counters
  <2>7. /\ quic'.loop = "accepting" /\ quic'.cfg = quic.cfg /\ quic'.slots = z
        /\ quic'.shakes = quic.shakes /\ quic'.at = [quic.at EXCEPT ![c] = "waiting"]
        /\ quic'.age = [quic.age EXCEPT ![c] = 0]
    BY <1>t, <2>1, <2>2 DEF H3Typed
  <2>8. /\ \A d \in QuicPeer : d # c => quic'.age[d] = quic.age[d]
        /\ Limited(quic.cfg.shakeLimit) => quic'.age[c] <= quic.cfg.shakeLimit
    BY <1>n, <2>1, <2>7 DEF Counters
  <2>9. H3Placed'
    BY <2>7 DEF H3Placed
  <2>10. /\ Limited(quic.cfg.connections) =>
              /\ quic'.slots >= 0
              /\ quic'.slots = quic.slots + One(quic.at[c] \in Alive) - One("waiting" \in Alive)
         /\ Limited(quic.cfg.handshakes) =>
              /\ quic'.shakes >= 0
              /\ quic'.shakes = quic.shakes + One(quic.at[c] = "shaking") - One("waiting" = "shaking")
    BY <1>n, <1>t, <2>1, <2>4, <2>7 DEF One, Alive, QuicBudgetsExact
  <2>11. quic.loop \notin {"unbound", "refused"} /\ "waiting" \in QuicPlaces
    BY <2>1 DEF QuicPlaces
  <2> QED
    BY <2>1, <2>6, <2>7, <2>8, <2>9, <2>10, <2>11, Lands
<1>3. CASE EndpointCloses
  <2> DEFINE new == [c \in QuicPeer |-> IF quic.at[c] = "queued" THEN "away" ELSE quic.at[c]]
  <2>1. quic.loop = "accepting" /\ quic' = [quic EXCEPT !.loop = "closed", !.at = new]
    BY <1>3, <1>t DEF EndpointCloses, H3Typed
  <2>2. new \in [QuicPeer -> QuicPlaces]
    BY <1>n DEF QuicPlaces
  <2>3. \A c \in QuicPeer :
          new[c] = quic.at[c] \/ (new[c] \notin Alive /\ quic.at[c] \notin Alive)
    BY DEF Alive
  <2> HIDE DEF new
  <2>4. H3Typed'
    BY <1>t, <2>1, <2>2 DEF H3Typed
  <2>5. /\ quic'.loop = "closed" /\ quic'.cfg = quic.cfg /\ quic'.slots = quic.slots
        /\ quic'.shakes = quic.shakes /\ quic'.at = new /\ quic'.age = quic.age
    BY <1>t, <2>1 DEF H3Typed
  <2>6. H3Placed'
    BY <2>5 DEF H3Placed
  <2>7. Limited(quic.cfg.shakeLimit) =>
          \A c \in QuicPeer : Unproven(c)' => quic'.age[c] <= quic.cfg.shakeLimit
    BY <1>t, <2>1, <2>3, <2>5 DEF QuicBudgetsExact, Unproven, Alive
  <2> QED
    BY <2>1, <2>3, <2>4, <2>5, <2>6, <2>7, Stays
<1>4. CASE H3Tick
  <2> DEFINE older == [c \in QuicPeer |-> IF Unproven(c) /\ Limited(quic.cfg.shakeLimit)
                                          THEN quic.age[c] + 1 ELSE quic.age[c]]
             quieter == [c \in QuicPeer |-> IF quic.at[c] = "served"
                                            THEN quic.quiet[c] + 1 ELSE quic.quiet[c]]
  <2>1. /\ \A c \in QuicPeer : ~ShakeOverdue(c)
        /\ quic' = [quic EXCEPT !.age = older, !.quiet = quieter]
    BY <1>4, <1>t DEF H3Tick, H3Typed
  <2>2. older \in Counters /\ quieter \in Counters
    BY <1>n DEF Counters
  <2>3. Limited(quic.cfg.shakeLimit) =>
          \A c \in QuicPeer : Unproven(c) => older[c] <= quic.cfg.shakeLimit
    BY <1>n, <2>1 DEF ShakeOverdue, Late, Counters
  <2> HIDE DEF older, quieter
  <2>4. H3Typed'
    BY <1>t, <2>1, <2>2 DEF H3Typed
  <2>5. /\ quic'.loop = quic.loop /\ quic'.cfg = quic.cfg /\ quic'.slots = quic.slots
        /\ quic'.incoming = quic.incoming
        /\ quic'.shakes = quic.shakes /\ quic'.at = quic.at /\ quic'.age = older
    BY <1>t, <2>1 DEF H3Typed
  <2>6. H3Placed'
    BY <1>t, <2>5 DEF H3Placed
  <2>7. Limited(quic.cfg.shakeLimit) =>
          \A c \in QuicPeer : Unproven(c)' => quic'.age[c] <= quic.cfg.shakeLimit
    BY <2>3, <2>5 DEF Unproven
  <2> QED
    BY <2>4, <2>5, <2>6, <2>7, Stays
<1>5. ASSUME NEW c \in QuicPeer, AcceptStream(c) \/ RequestEnds(c) PROVE H3IInv'
  <2>1. PICK k \in Nat : quic' = [quic EXCEPT !.tasks[c] = k, !.quiet[c] = 0]
    <3>1. quic.tasks[c] \in Nat
      BY <1>n DEF Counters
    <3>2. CASE AcceptStream(c)
      <4>1. quic.tasks[c] + 1 \in Nat
        BY <3>1
      <4> QED
        BY <3>2, <4>1, <1>t DEF AcceptStream, H3Typed
    <3>3. CASE RequestEnds(c)
      <4>1. quic.tasks[c] - 1 \in Nat
        BY <3>1, <3>3 DEF RequestEnds
      <4> QED
        BY <3>3, <4>1, <1>t DEF RequestEnds, H3Typed
    <3> QED
      BY <1>5, <3>2, <3>3
  <2>2. H3Typed'
    BY <1>t, <2>1 DEF H3Typed, Counters
  <2>3. /\ quic'.loop = quic.loop /\ quic'.cfg = quic.cfg /\ quic'.slots = quic.slots
        /\ quic'.incoming = quic.incoming
        /\ quic'.shakes = quic.shakes /\ quic'.at = quic.at /\ quic'.age = quic.age
    BY <1>t, <2>1 DEF H3Typed
  <2> QED
    BY <1>t, <2>2, <2>3, Stays DEF H3Placed, QuicBudgetsExact, Unproven
<1>6. ASSUME NEW c \in QuicPeer, Arrive(c) PROVE H3IInv'
  <2>1. /\ quic.at[c] = "away" /\ quic.loop \in {"accepting", "acquiring"}
        /\ quic' = [quic EXCEPT !.at[c] = "queued"]
    BY <1>6 DEF Arrive, Move
  <2>2. H3Typed'
    BY <1>t, <2>1 DEF H3Typed, QuicPlaces
  <2>3. /\ quic'.loop = quic.loop /\ quic'.cfg = quic.cfg /\ quic'.slots = quic.slots
        /\ quic'.incoming = quic.incoming /\ quic'.age = quic.age
        /\ quic'.shakes = quic.shakes /\ quic'.at = [quic.at EXCEPT ![c] = "queued"]
    BY <1>t, <2>1 DEF H3Typed
  <2>4. H3Placed'
    BY <1>t, <1>n, <2>1, <2>3 DEF H3Placed
  <2>5. \A d \in QuicPeer :
          quic'.at[d] = quic.at[d] \/ (quic'.at[d] \notin Alive /\ quic.at[d] \notin Alive)
    BY <1>n, <2>1, <2>3 DEF Alive
  <2> QED
    BY <1>t, <2>1, <2>2, <2>3, <2>4, <2>5, Stays DEF QuicBudgetsExact, Unproven, Alive
<1>7. ASSUME NEW c \in QuicPeer, EndpointAccept(c) PROVE H3IInv'
  <2>1. /\ quic.at[c] = "queued" /\ quic.loop = "accepting"
        /\ quic' = [quic EXCEPT !.at[c] = "incoming", !.loop = "acquiring", !.incoming = c]
    BY <1>7, <1>t DEF EndpointAccept, Move, H3Typed
  <2>2. H3Typed'
    BY <1>t, <2>1 DEF H3Typed, QuicPlaces
  <2>3. /\ quic'.loop = "acquiring" /\ quic'.cfg = quic.cfg /\ quic'.slots = quic.slots
        /\ quic'.incoming = c /\ quic'.age = quic.age
        /\ quic'.shakes = quic.shakes /\ quic'.at = [quic.at EXCEPT ![c] = "incoming"]
    BY <1>t, <2>1 DEF H3Typed
  <2>4. H3Placed'
    BY <1>n, <2>3 DEF H3Placed
  <2>5. \A d \in QuicPeer :
          quic'.at[d] = quic.at[d] \/ (quic'.at[d] \notin Alive /\ quic.at[d] \notin Alive)
    BY <1>n, <2>1, <2>3 DEF Alive
  <2> QED
    BY <1>t, <2>1, <2>2, <2>3, <2>4, <2>5, Stays DEF QuicBudgetsExact, Unproven, Alive
<1>8. ASSUME NEW c \in QuicPeer, Reconnect(c) PROVE H3IInv'
  <2>1. /\ quic.at[c] = "gone" /\ quic' = [quic EXCEPT !.at[c] = "away"]
    BY <1>8 DEF Reconnect, Move
  <2>2. H3Typed'
    BY <1>t, <2>1 DEF H3Typed, QuicPlaces
  <2>3. /\ quic'.loop = quic.loop /\ quic'.cfg = quic.cfg /\ quic'.slots = quic.slots
        /\ quic'.incoming = quic.incoming /\ quic'.age = quic.age
        /\ quic'.shakes = quic.shakes /\ quic'.at = [quic.at EXCEPT ![c] = "away"]
    BY <1>t, <2>1 DEF H3Typed
  <2>4. H3Placed'
    BY <1>t, <1>n, <2>1, <2>3 DEF H3Placed
  <2>5. \A d \in QuicPeer :
          quic'.at[d] = quic.at[d] \/ (quic'.at[d] \notin Alive /\ quic.at[d] \notin Alive)
    BY <1>n, <2>1, <2>3 DEF Alive
  <2>6. Limited(quic.cfg.shakeLimit) =>
          \A d \in QuicPeer : Unproven(d)' => quic'.age[d] <= quic.cfg.shakeLimit
    BY <1>t, <1>p, <2>1, <2>3, <2>5 DEF QuicBudgetsExact, Unproven, Alive
  <2> QED
    BY <2>2, <2>3, <2>4, <2>5, <2>6, Stays
<1>9. ASSUME NEW c \in QuicPeer, ShakePermit(c) PROVE H3IInv'
  <2> DEFINE k == IF Limited(quic.cfg.handshakes) THEN quic.shakes - 1 ELSE quic.shakes
  <2>1. /\ quic.at[c] = "waiting" /\ (Limited(quic.cfg.handshakes) => quic.shakes > 0)
        /\ quic' = [quic EXCEPT !.at[c] = "shaking", !.shakes = k]
    BY <1>9, <1>t DEF ShakePermit, Move, H3Typed
  <2>2. k \in Int /\ (Limited(quic.cfg.handshakes) => k >= 0 /\ k = quic.shakes + 0 - 1)
    BY <1>n, <2>1
  <2> HIDE DEF k
  <2>3. H3Typed'
    BY <1>t, <2>1, <2>2 DEF H3Typed, QuicPlaces
  <2>4. /\ quic'.loop = quic.loop /\ quic'.cfg = quic.cfg /\ quic'.slots = quic.slots
        /\ quic'.incoming = quic.incoming /\ quic'.age = quic.age
        /\ quic'.shakes = k /\ quic'.at = [quic.at EXCEPT ![c] = "shaking"]
    BY <1>t, <2>1 DEF H3Typed
  <2>5. H3Placed'
    BY <1>t, <1>n, <1>p, <2>1, <2>4 DEF H3Placed
  <2>6. quic.loop \notin {"unbound", "refused"} /\ "shaking" \in QuicPlaces
    BY <1>p, <2>1 DEF QuicPlaces
  <2>7. Limited(quic.cfg.connections) =>
          /\ quic'.slots >= 0
          /\ quic'.slots = quic.slots + One(quic.at[c] \in Alive) - One("shaking" \in Alive)
    BY <1>n, <1>t, <2>1, <2>4, <2>6 DEF One, Alive, QuicBudgetsExact
  <2>8. Limited(quic.cfg.handshakes) =>
          /\ quic'.shakes >= 0
          /\ quic'.shakes = quic.shakes + One(quic.at[c] = "shaking") - One("shaking" = "shaking")
    BY <2>1, <2>2, <2>4 DEF One
  <2>9. Limited(quic.cfg.shakeLimit) => quic'.age[c] <= quic.cfg.shakeLimit
    BY <1>t, <2>1, <2>4, <2>6 DEF QuicBudgetsExact, Unproven
  <2> QED
    BY <2>3, <2>4, <2>5, <2>6, <2>7, <2>8, <2>9, Lands
<1>10. ASSUME NEW c \in QuicPeer, Shaken(c) PROVE H3IInv'
  <2> DEFINE k == ShakeOver(c)
  <2>1. /\ quic.at[c] = "shaking"
        /\ quic' = [quic EXCEPT !.at[c] = "served", !.shakes = k, !.quiet[c] = 0]
    BY <1>10, <1>t DEF Shaken, Move, H3Typed
  <2>2. k \in Int /\ (Limited(quic.cfg.handshakes) => k = quic.shakes + 1)
    BY <1>n, <2>1 DEF ShakeOver
  <2> HIDE DEF k
  <2>3. H3Typed'
    BY <1>t, <2>1, <2>2 DEF H3Typed, QuicPlaces, Counters
  <2>4. /\ quic'.loop = quic.loop /\ quic'.cfg = quic.cfg /\ quic'.slots = quic.slots
        /\ quic'.incoming = quic.incoming /\ quic'.age = quic.age
        /\ quic'.shakes = k /\ quic'.at = [quic.at EXCEPT ![c] = "served"]
    BY <1>t, <2>1 DEF H3Typed
  <2>5. H3Placed'
    BY <1>t, <1>n, <1>p, <2>1, <2>4 DEF H3Placed
  <2>6. quic.loop \notin {"unbound", "refused"} /\ "served" \in QuicPlaces
    BY <1>p, <2>1 DEF QuicPlaces
  <2>7. Limited(quic.cfg.connections) =>
          /\ quic'.slots >= 0
          /\ quic'.slots = quic.slots + One(quic.at[c] \in Alive) - One("served" \in Alive)
    BY <1>n, <1>t, <2>1, <2>4, <2>6 DEF One, Alive, QuicBudgetsExact
  <2>8. Limited(quic.cfg.handshakes) =>
          /\ quic'.shakes >= 0
          /\ quic'.shakes = quic.shakes + One(quic.at[c] = "shaking") - One("served" = "shaking")
    BY <1>n, <1>t, <2>1, <2>2, <2>4, <2>6 DEF One, QuicBudgetsExact
  <2> QED
    BY <2>3, <2>4, <2>5, <2>6, <2>7, <2>8, Lands
<1>11. ASSUME NEW c \in QuicPeer,
              ShakeFails(c) \/ ShakeTimesOut(c) \/ ConnectionOver(c) \/ IdleTimesOut(c)
       PROVE  H3IInv'
  <2> DEFINE k == IF quic.at[c] = "shaking" /\ Limited(quic.cfg.handshakes)
                  THEN quic.shakes + 1 ELSE quic.shakes
             z == IF Limited(quic.cfg.connections) THEN quic.slots + 1 ELSE quic.slots
  <2>1. /\ quic.at[c] \in Alive
        /\ quic' = [quic EXCEPT !.at[c] = "gone", !.shakes = k, !.slots = z]
    <3>1. CASE ShakeFails(c) \/ ShakeTimesOut(c)
      BY <3>1, <1>t DEF ShakeFails, ShakeTimesOut, ShakeAbandoned, ShakeOverdue, Unproven,
         ShakeOver, SlotBack, Move, H3Typed, Alive
    <3>2. CASE ConnectionOver(c) \/ IdleTimesOut(c)
      <4>1. quic.at[c] = "served" /\ quic' = [quic EXCEPT !.at[c] = "gone", !.slots = z]
        BY <3>2, <1>t DEF ConnectionOver, IdleTimesOut, SlotBack, Move, H3Typed
      <4>2. k = quic.shakes
        BY <4>1
      <4> QED
        BY <1>t, <4>1, <4>2 DEF H3Typed, Alive
    <3> QED
      BY <1>11, <3>1, <3>2
  <2>2. /\ k \in Int /\ z \in Int /\ (Limited(quic.cfg.connections) => z = quic.slots + 1)
        /\ Limited(quic.cfg.handshakes) => k = quic.shakes + One(quic.at[c] = "shaking")
    BY <1>n DEF One
  <2> HIDE DEF k, z
  <2>3. H3Typed'
    BY <1>t, <2>1, <2>2 DEF H3Typed, QuicPlaces
  <2>4. /\ quic'.loop = quic.loop /\ quic'.cfg = quic.cfg /\ quic'.slots = z
        /\ quic'.incoming = quic.incoming /\ quic'.age = quic.age
        /\ quic'.shakes = k /\ quic'.at = [quic.at EXCEPT ![c] = "gone"]
    BY <1>t, <2>1 DEF H3Typed
  <2>5. quic.loop \notin {"unbound", "refused"} /\ "gone" \in QuicPlaces
    BY <1>p, <2>1 DEF QuicPlaces, Alive
  <2>6. H3Placed'
    BY <1>t, <1>n, <2>1, <2>4, <2>5 DEF H3Placed, Alive
  <2>7. Limited(quic.cfg.connections) =>
          /\ quic'.slots >= 0
          /\ quic'.slots = quic.slots + One(quic.at[c] \in Alive) - One("gone" \in Alive)
    BY <1>n, <1>t, <2>1, <2>2, <2>4, <2>5 DEF One, Alive, QuicBudgetsExact
  <2>8. Limited(quic.cfg.handshakes) =>
          /\ quic'.shakes >= 0
          /\ quic'.shakes = quic.shakes + One(quic.at[c] = "shaking") - One("gone" = "shaking")
    BY <1>n, <1>t, <2>1, <2>2, <2>4, <2>5 DEF One, QuicBudgetsExact
  <2> QED
    BY <2>3, <2>4, <2>5, <2>6, <2>7, <2>8, Lands
<1>12. CASE UNCHANGED quic
  BY <1>t, <1>12 DEF H3IInv, H3Typed, H3Placed, QuicBudgetsExact, Unproven, At
<1> QED
  BY <1>1, <1>2, <1>3, <1>4, <1>5, <1>6, <1>7, <1>8, <1>9, <1>10, <1>11, <1>12 DEF H3Next

\* For any number of QUIC peers, any cap and any handshake budget, serve_h3 gives
\* back every permit it takes, on every way out of a connection; the caps bound
\* what is alive; and no handshake outlives its deadline.
THEOREM QuicBudgets == H3Spec => []QuicBudgetsExact
<1>1. H3IInv => QuicBudgetsExact
  BY DEF H3IInv
<1> QED
  BY <1>1, H3Starts, H3Steps, PTL DEF H3Spec

-----------------------------------------------------------------------------
(* Http3Request: one HTTP/3 exchange.                                       *)

H3rSpec == H3rInit /\ [][H3rNext]_stream

H3rPhases == {"idle", "reading", "handling", "sending", "done"}
H3rStatuses == {0, 200, 400, 408, 413}
H3rEnds == {"open", "fin", "reset", "lost"}

H3rTyped ==
  stream \in [phase: H3rPhases, declared: Int, head: BOOLEAN, deadline: Nat, clock: Nat,
              sent: Nat, peer: H3rEnds, got: Nat, status: H3rStatuses, body: Nat,
              written: Nat, wire: H3rEnds, panicked: BOOLEAN]

\* What is collected is within the cap at every chunk, and no end is put to the
\* stream before it is done with.
H3rOnTheWay ==
  /\ stream.phase \in {"idle", "reading"} => stream.got <= H3MaxBody
  /\ stream.phase \in {"idle", "reading", "handling"} => stream.written = 0
  /\ stream.phase = "sending" => stream.written <= stream.body
  /\ stream.phase # "done" => stream.wire = "open"

H3rIInv == H3rTyped /\ H3rOnTheWay /\ WholeOrRefused

\* A stream that carries no request yet satisfies the invariant.
LEMMA H3rStarts == H3rInit => H3rIInv
BY H3Sizes DEF H3rInit, H3rPhases, H3rStatuses, H3rEnds, H3rIInv, H3rTyped, H3rOnTheWay,
               WholeOrRefused, Undeclared

\* Every step of the request stream, the handler and the answer keeps it.
LEMMA H3rSteps == H3rIInv /\ [H3rNext]_stream => H3rIInv'
<1> SUFFICES ASSUME H3rIInv, [H3rNext]_stream PROVE H3rIInv'
  OBVIOUS
<1>t. H3rTyped /\ H3rOnTheWay /\ WholeOrRefused
  BY DEF H3rIInv
<1>n. H3rPhases = {"idle", "reading", "handling", "sending", "done"}
      /\ H3rEnds = {"open", "fin", "reset", "lost"} /\ H3rStatuses = {0, 200, 400, 408, 413}
  BY DEF H3rPhases, H3rEnds, H3rStatuses
<1>m. /\ "reading" \in H3rPhases /\ "handling" \in H3rPhases /\ "sending" \in H3rPhases
      /\ "done" \in H3rPhases /\ 0 \in H3rStatuses /\ 200 \in H3rStatuses /\ 400 \in H3rStatuses
      /\ 408 \in H3rStatuses /\ 413 \in H3rStatuses
      /\ "fin" \in H3rEnds /\ "reset" \in H3rEnds /\ "lost" \in H3rEnds
  BY <1>n
<1> DEFINE Ended(s, w) == [stream EXCEPT !.phase = "done", !.status = s, !.wire = w]
\* An end that is not clean, or not of an answer of the handler's.
<1>e. ASSUME NEW s \in H3rStatuses, NEW w \in {"fin", "reset", "lost"}, stream' = Ended(s, w),
             w = "fin" /\ s = 200 => stream.head \/ stream.written = stream.body
      PROVE  H3rIInv'
  <2>1. w \in H3rEnds
    BY <1>m, <1>e
  <2>2. H3rTyped'
    BY <1>t, <1>m, <1>e, <2>1 DEF H3rTyped
  <2>3. /\ stream'.phase = "done" /\ stream'.status = s /\ stream'.wire = w
        /\ stream'.head = stream.head /\ stream'.written = stream.written
        /\ stream'.panicked = stream.panicked
        /\ stream'.body = stream.body
    BY <1>t, <1>e DEF H3rTyped
  <2> QED
    BY <1>e, <2>2, <2>3 DEF H3rIInv, H3rOnTheWay, WholeOrRefused
<1> HIDE DEF Ended
<1>1. ASSUME NEW declared \in {Undeclared} \cup 0..H3MaxSent, NEW forbidden \in BOOLEAN,
             NEW head \in BOOLEAN, NEW deadline \in H3Deadlines,
             ReceiveHead(declared, forbidden, head, deadline)
      PROVE  H3rIInv'
  <2>1. declared \in Int /\ deadline \in Nat
    BY H3Sizes DEF Undeclared
  <2>2. /\ stream.phase = "idle" /\ stream.wire = "open" /\ stream.got <= H3MaxBody
        /\ stream.written = 0
    BY <1>1, <1>t DEF ReceiveHead, H3rOnTheWay
  <2>3. CASE forbidden \/ declared > H3MaxBody
    <3>1. PICK s \in {400, 413} :
            stream' = [stream EXCEPT !.declared = declared, !.head = head, !.phase = "done",
                                     !.status = s, !.wire = "fin"]
      BY <1>1, <2>3, <1>t DEF ReceiveHead, Status, H3rTyped
    <3>2. s \in H3rStatuses
      BY <1>n
    <3>3. H3rTyped'
      <4>1. "done" \in H3rPhases /\ "fin" \in H3rEnds
        BY <1>m
      <4> QED
        BY <1>t, <2>1, <3>1, <3>2, <4>1 DEF H3rTyped
    <3>4. stream'.phase = "done" /\ stream'.status = s
      BY <1>t, <3>1 DEF H3rTyped
    <3> QED
      BY <3>3, <3>4 DEF H3rIInv, H3rOnTheWay, WholeOrRefused
  <2>4. CASE ~(forbidden \/ declared > H3MaxBody)
    <3>1. stream' = [stream EXCEPT !.declared = declared, !.head = head, !.phase = "reading",
                                   !.deadline = deadline]
      BY <1>1, <2>4, <1>t DEF ReceiveHead, H3rTyped
    <3>2. H3rTyped'
      <4>1. "reading" \in H3rPhases
        BY <1>m
      <4> QED
        BY <1>t, <2>1, <3>1, <4>1 DEF H3rTyped
    <3>3. /\ stream'.phase = "reading" /\ stream'.got = stream.got /\ stream'.wire = "open"
          /\ stream'.written = 0
      BY <1>t, <2>2, <3>1 DEF H3rTyped
    <3> QED
      BY <2>2, <3>2, <3>3 DEF H3rIInv, H3rOnTheWay, WholeOrRefused
  <2> QED
    BY <2>3, <2>4
<1>2. ASSUME PeerSends \/ \E how \in {"fin", "reset"} : PeerEnds(how) PROVE H3rIInv'
  <2>1. stream.phase = "reading"
    BY <1>2 DEF PeerSends, PeerEnds
  <2>2. H3rTyped'
    BY <1>2, <1>t, <1>m DEF PeerSends, PeerEnds, H3rTyped
  <2>3. /\ stream'.phase = stream.phase /\ stream'.got = stream.got /\ stream'.wire = stream.wire
        /\ stream'.written = stream.written
    BY <1>2, <1>t DEF PeerSends, PeerEnds, H3rTyped
  <2> QED
    BY <1>t, <2>1, <2>2, <2>3 DEF H3rIInv, H3rOnTheWay, WholeOrRefused
<1>3. ASSUME NEW n \in 1..H3MaxSent, ReadChunk(n) PROVE H3rIInv'
  <2>1. n \in Nat /\ stream.phase = "reading"
    BY <1>3, H3Sizes DEF ReadChunk
  <2>2. CASE stream.got + n > H3MaxBody
    <3>1. stream' = Ended(413, "fin")
      BY <1>3, <2>2 DEF ReadChunk, Status, Ended
    <3> QED
      BY <1>e, <1>m, <3>1
  <2>3. CASE ~(stream.got + n > H3MaxBody)
    <3>1. stream' = [stream EXCEPT !.got = stream.got + n]
      BY <1>3, <1>t, <2>3 DEF ReadChunk, H3rTyped
    <3>2. stream.got + n \in Nat /\ stream.got + n <= H3MaxBody
      BY <1>t, <2>1, <2>3, H3Sizes DEF H3rTyped
    <3>3. H3rTyped'
      BY <1>t, <3>1, <3>2 DEF H3rTyped
    <3>4. /\ stream'.phase = stream.phase /\ stream'.got = stream.got + n
          /\ stream'.wire = stream.wire /\ stream'.written = stream.written
      BY <1>t, <3>1 DEF H3rTyped
    <3> QED
      BY <1>t, <2>1, <3>2, <3>3, <3>4 DEF H3rIInv, H3rOnTheWay, WholeOrRefused
  <2> QED
    BY <2>2, <2>3
<1>4. CASE BodyEnds
  <2>1. CASE stream.declared \in {Undeclared, stream.got}
    <3>1. /\ stream' = [stream EXCEPT !.phase = "handling"]
          /\ stream.phase = "reading" /\ stream.peer = "fin" /\ stream.got = stream.sent
      BY <1>4, <2>1 DEF BodyEnds
    <3>2. H3rTyped'
      BY <1>t, <1>m, <3>1 DEF H3rTyped
    <3>3. /\ stream'.phase = "handling" /\ stream'.got = stream.got /\ stream'.peer = "fin"
          /\ stream'.sent = stream.sent /\ stream'.declared = stream.declared
          /\ stream'.wire = stream.wire /\ stream'.written = stream.written
      BY <1>t, <3>1 DEF H3rTyped
    <3> QED
      BY <1>t, <2>1, <3>1, <3>2, <3>3 DEF H3rIInv, H3rOnTheWay, WholeOrRefused
  <2>2. CASE stream.declared \notin {Undeclared, stream.got}
    <3>1. stream' = Ended(400, "fin")
      BY <1>4, <2>2 DEF BodyEnds, Status, Ended
    <3> QED
      BY <1>e, <1>m, <3>1
  <2> QED
    BY <2>1, <2>2
<1>5. CASE BodyFails
  <2>1. stream.status \in H3rStatuses /\ stream' = Ended(stream.status, "reset")
    BY <1>5, <1>t DEF BodyFails, Reset, H3rTyped, Ended
  <2> QED
    BY <1>e, <2>1
<1>6. CASE ReadTimesOut
  <2>1. stream' = Ended(408, "fin")
    BY <1>6 DEF ReadTimesOut, Status, Ended
  <2> QED
    BY <1>e, <1>m, <2>1
<1>7. ASSUME HandlerTimesOut \/ \E length \in 0..2 : HandlerAnswers(length) PROVE H3rIInv'
  <2>1. PICK s \in H3rStatuses, n \in Nat :
          stream' = [stream EXCEPT !.phase = "sending", !.status = s, !.body = n]
    <3>1. CASE HandlerTimesOut
      BY <1>m, <3>1 DEF HandlerTimesOut
    <3>2. CASE \E length \in 0..2 : HandlerAnswers(length)
      <4>1. PICK length \in 0..2 : HandlerAnswers(length)
        BY <3>2
      <4>2. length \in Nat
        OBVIOUS
      <4> QED
        BY <1>m, <4>1, <4>2 DEF HandlerAnswers
    <3> QED
      BY <1>7, <3>1, <3>2
  <2>2. stream.phase = "handling"
    BY <1>7 DEF HandlerTimesOut, HandlerAnswers
  <2>3. H3rTyped'
    BY <1>t, <1>m, <2>1 DEF H3rTyped
  <2>4. /\ stream'.phase = "sending" /\ stream'.body = n
        /\ stream'.wire = stream.wire /\ stream'.written = stream.written
    BY <1>t, <2>1 DEF H3rTyped
  <2> QED
    BY <1>t, <2>2, <2>3, <2>4 DEF H3rIInv, H3rOnTheWay, WholeOrRefused
<1>8. CASE SendData
  <2>1. /\ stream.phase = "sending" /\ stream.written < stream.body
        /\ stream' = [stream EXCEPT !.written = stream.written + 1]
    BY <1>8, <1>t DEF SendData, H3rTyped
  <2>2. /\ stream.written \in Nat /\ stream.body \in Nat /\ stream.written + 1 \in Nat
        /\ stream.written + 1 <= stream.body
    BY <1>t, <2>1 DEF H3rTyped
  <2>3. H3rTyped'
    BY <1>t, <2>1, <2>2 DEF H3rTyped
  <2>4. /\ stream'.phase = "sending" /\ stream'.body = stream.body
        /\ stream'.wire = stream.wire /\ stream'.written = stream.written + 1
    BY <1>t, <2>1 DEF H3rTyped
  <2> QED
    BY <1>t, <2>1, <2>2, <2>3, <2>4 DEF H3rIInv, H3rOnTheWay, WholeOrRefused
<1>9. CASE BodyBreaks \/ TransportFails \/ Finish
  <2>1. PICK w \in {"fin", "reset", "lost"} :
          /\ stream' = Ended(stream.status, w)
          /\ w = "fin" => stream.head \/ stream.written = stream.body
    BY <1>9, <1>t DEF BodyBreaks, TransportFails, Finish, Reset, H3rTyped, Ended
  <2>2. stream.status \in H3rStatuses
    BY <1>t DEF H3rTyped
  <2> QED
    BY <1>e, <2>1, <2>2
<1>10. CASE H3rTick
  <2>1. stream' = [stream EXCEPT !.clock = stream.clock + 1]
        /\ stream.phase \in {"reading", "handling"} /\ stream.clock + 1 \in Nat
    BY <1>10, <1>t DEF H3rTick, H3rTyped
  <2>2. H3rTyped'
    BY <1>t, <2>1 DEF H3rTyped
  <2>3. /\ stream'.phase = stream.phase /\ stream'.got = stream.got /\ stream'.peer = stream.peer
        /\ stream'.sent = stream.sent /\ stream'.declared = stream.declared
        /\ stream'.wire = stream.wire /\ stream'.written = stream.written
    BY <1>t, <2>1 DEF H3rTyped
  <2> QED
    BY <1>t, <2>1, <2>2, <2>3 DEF H3rIInv, H3rOnTheWay, WholeOrRefused
<1>11. CASE BodyPanics
  <2>1. /\ stream' = [stream EXCEPT !.phase = "done", !.wire = "fin", !.panicked = TRUE]
        /\ stream.phase = "sending"
    BY <1>11 DEF BodyPanics
  <2>2. H3rTyped'
    BY <1>t, <1>m, <2>1 DEF H3rTyped
  <2>3. stream'.phase = "done" /\ stream'.panicked
    BY <1>t, <2>1 DEF H3rTyped
  <2> QED
    BY <2>2, <2>3 DEF H3rIInv, H3rOnTheWay, WholeOrRefused
<1>12. CASE UNCHANGED stream
  BY <1>t, <1>12 DEF H3rIInv, H3rTyped, H3rOnTheWay, WholeOrRefused
<1> QED
  BY <1>1, <1>2, <1>3, <1>4, <1>5, <1>6, <1>7, <1>8, <1>9, <1>10, <1>11, <1>12 DEF H3rNext

\* For every limit and every deadline, h3.rs runs a handler only on a body that the
\* peer finished, that is as long as it declared and within the limit; and an
\* answer of a handler's that ends cleanly on the wire is all of the answer, unless
\* the stream that makes it panicked.
THEOREM H3WholeOrRefused == H3rSpec => []WholeOrRefused
<1>1. H3rIInv => WholeOrRefused
  BY DEF H3rIInv
<1> QED
  BY <1>1, H3rStarts, H3rSteps, PTL DEF H3rSpec

-----------------------------------------------------------------------------
(* RequestBody: the limits on a body.                                       *)

UpSpec == UpInit /\ [][UpNext]_upload

UpPlaces == {"rest", "extracting", "collecting", "streaming", "over"}
UpPeers == {"open", "fin", "broken"}
UpReads == UpReaders \cup {<<>>}
UpBodies == UpContents \cup {NoContent}
UpKinds ==
  [at: UpPlaces, reads: UpReads, caps: Seq(Nat), content: UpBodies, total: Nat, sent: Nat,
   peer: UpPeers, left: Nat, buf: Nat, seen: Nat, given: Nat, failed: Nat, holed: BOOLEAN,
   status: Nat]

\* What Limited, the buffer and Payload know of a body, one of the other.
UpCounted(u) ==
  /\ u.sent <= u.total
  /\ u.at # "rest" => u.left = IF u.sent <= UpMaxBody THEN UpMaxBody - u.sent ELSE 0
  /\ u.at \in {"rest", "extracting"} =>
       u.sent = 0 /\ u.buf = 0 /\ u.given = 0 /\ u.seen = 0 /\ u.failed = 0 /\ u.peer = "open"
  /\ u.at = "collecting" =>
       /\ u.reads # <<"payload">> /\ u.peer = "open" /\ u.buf = u.sent
       /\ Len(u.reads) = 1 => RightType(u.reads[1], u.content.media)
  /\ u.at = "streaming" =>
       /\ u.reads = <<"payload">> /\ u.seen <= u.sent
       /\ u.failed = 0 => u.peer = "open" /\ u.seen = u.sent /\ u.given = u.sent
       /\ u.failed # 0 /\ u.peer = "open" => u.left = 0 \/ u.seen > RouteCap(u.caps)
  /\ u.at # "over" => u.status = 0

\* BodyWholeOrRefused, of any exchange.
UpWithin(u) ==
  LET cap == RouteCap(u.caps)
  IN u.buf <= cap /\ u.buf <= UpMaxBody /\ u.given <= cap /\ u.given <= UpMaxBody /\ ~u.holed

UpAnswer(u) ==
  /\ u.status = 200 /\ u.reads \notin {<<"payload">>, <<"receive">>} =>
       u.peer = "fin" /\ u.buf = u.total
  /\ u.status = 200 /\ u.failed = 0 /\ u.reads = <<"payload">> =>
       u.peer = "fin" /\ u.given = u.total
  /\ u.status = 200 /\ u.reads = <<"receive">> => u.buf \in {0, u.total}
  /\ u.status = 413 => u.total > RouteCap(u.caps) \/ u.total > UpMaxBody
  /\ u.status = 415 /\ Len(u.reads) = 1 => u.sent = 0

UpSound(u) == u \in UpKinds /\ UpCounted(u) /\ UpWithin(u) /\ UpAnswer(u)
UpIInv == UpSound(upload)

\* The innermost cap of a route, or no cap, is a number of bytes.
LEMMA CapIsNatural == ASSUME NEW caps \in Seq(Nat) PROVE RouteCap(caps) \in Nat
<1>1. CASE caps = <<>>
  BY <1>1, UpSizes DEF RouteCap, Unlimited
<1>2. CASE caps # <<>>
  BY <1>2 DEF RouteCap
<1> QED
  BY <1>1, <1>2

\* The places and ends that the steps name are places and ends.
LEMMA UpNames ==
  /\ "rest" \in UpPlaces /\ "extracting" \in UpPlaces /\ "collecting" \in UpPlaces
  /\ "streaming" \in UpPlaces /\ "over" \in UpPlaces
  /\ "open" \in UpPeers /\ "fin" \in UpPeers /\ "broken" \in UpPeers
  /\ <<"payload">> # <<"receive">>
BY DEF UpPlaces, UpPeers

\* An exchange that has not begun is sound.
LEMMA UpIdles == UpSound(UpRest)
<1>1. UpRest \in UpKinds
  <2>1. <<>> \in UpReads /\ NoContent \in UpBodies /\ <<>> \in Seq(Nat)
    BY DEF UpReads, UpBodies
  <2> QED
    BY <2>1, UpNames DEF UpRest, UpKinds
<1>2. /\ UpRest.at = "rest" /\ UpRest.sent = 0 /\ UpRest.total = 0 /\ UpRest.buf = 0
      /\ UpRest.given = 0 /\ UpRest.seen = 0 /\ UpRest.failed = 0 /\ UpRest.status = 0
      /\ ~UpRest.holed /\ UpRest.peer = "open"
  BY DEF UpRest
<1>3. RouteCap(UpRest.caps) \in Nat
  BY <1>1, CapIsNatural DEF UpKinds
<1> HIDE DEF UpRest
<1> QED
  BY <1>1, <1>2, <1>3, UpSizes DEF UpSound, UpCounted, UpWithin, UpAnswer

\* The fields of a record of this kind.
LEMMA UpFields ==
  ASSUME NEW u \in UpKinds
  PROVE  /\ u.at \in UpPlaces /\ u.reads \in UpReads /\ u.total \in Nat /\ u.sent \in Nat
         /\ u.peer \in UpPeers
         /\ u.left \in Nat /\ u.buf \in Nat /\ u.seen \in Nat /\ u.given \in Nat
         /\ u.failed \in Nat /\ u.holed \in BOOLEAN /\ u.status \in Nat
         /\ u.caps \in Seq(Nat) /\ RouteCap(u.caps) \in Nat
BY CapIsNatural DEF UpKinds

\* What a piece does to the count of Limited.
LEMMA LimitedCounts ==
  ASSUME UpSound(upload), upload.at \in {"collecting", "streaming"}, NEW n \in 1..UpMaxSent,
         Sends(n)
  PROVE  /\ Arrived(n) = [upload EXCEPT !.sent = upload.sent + n, !.left = Arrived(n).left]
         /\ Arrived(n).left \in Nat /\ upload.sent + n \in Nat /\ n \in Nat \ {0}
         /\ upload.sent + n <= upload.total /\ upload.peer = "open"
         /\ Arrived(n).left = IF upload.sent + n <= UpMaxBody
                              THEN UpMaxBody - (upload.sent + n) ELSE 0
         /\ Fits(n) => upload.sent + n <= UpMaxBody
         /\ ~Fits(n) => upload.total > UpMaxBody /\ Arrived(n).left = 0
<1> DEFINE l == IF n > upload.left THEN 0 ELSE upload.left - n
<1>1. upload \in UpKinds /\ upload.sent \in Nat /\ upload.total \in Nat /\ upload.left \in Nat
  BY UpFields DEF UpSound
<1>2. n \in Nat \ {0} /\ upload.sent + n <= upload.total /\ upload.peer = "open"
  BY <1>1, UpSizes DEF Sends
<1>3. upload.left = IF upload.sent <= UpMaxBody THEN UpMaxBody - upload.sent ELSE 0
  BY DEF UpSound, UpCounted
<1>4. l \in Nat /\ l = IF upload.sent + n <= UpMaxBody THEN UpMaxBody - (upload.sent + n) ELSE 0
  BY <1>1, <1>2, <1>3, UpSizes
<1>5. Arrived(n) = [upload EXCEPT !.sent = upload.sent + n, !.left = l]
  BY DEF Arrived
<1>6. Arrived(n).left = l
  BY <1>1, <1>5 DEF UpKinds
<1>7. Fits(n) <=> n <= upload.left
  BY DEF Fits
<1> HIDE DEF l
<1> QED
  BY <1>1, <1>2, <1>3, <1>4, <1>5, <1>6, <1>7, UpSizes

\* An answer after which nothing more is read keeps a sound exchange sound.
LEMMA UpOver ==
  ASSUME NEW u \in UpKinds, NEW st \in Nat, UpWithin(u), u.sent <= u.total,
         u.left = IF u.sent <= UpMaxBody THEN UpMaxBody - u.sent ELSE 0,
         UpAnswer(AnsweredWith(u, st))
  PROVE  UpSound(AnsweredWith(u, st))
<1> DEFINE v == [u EXCEPT !.at = "over", !.status = st]
<1>1. v \in UpKinds
  BY UpNames DEF UpKinds
<1>2. /\ v.at = "over" /\ v.sent = u.sent /\ v.total = u.total /\ v.left = u.left
      /\ v.buf = u.buf /\ v.given = u.given /\ v.holed = u.holed /\ v.caps = u.caps
  BY DEF UpKinds
<1>3. AnsweredWith(u, st) = v
  BY DEF AnsweredWith
<1> HIDE DEF v
<1>4. UpCounted(v) /\ UpWithin(v)
  BY <1>2 DEF UpCounted, UpWithin
<1>5. UpAnswer(v)
  BY <1>3
<1> QED
  BY <1>1, <1>3, <1>4, <1>5 DEF UpSound

\* So does a buffering extractor that gives up.
LEMMA UpCollectFails ==
  ASSUME NEW u \in UpKinds, NEW st \in {400, 413}, UpWithin(u), u.sent <= u.total,
         u.left = IF u.sent <= UpMaxBody THEN UpMaxBody - u.sent ELSE 0,
         u.reads # <<"payload">>,
         st = 413 => u.total > RouteCap(u.caps) \/ u.total > UpMaxBody
  PROVE  UpSound(CollectFails(u, st))
<1> DEFINE v == [u EXCEPT !.buf = 0]
<1>1. v \in UpKinds
  BY DEF UpKinds
<1>2. /\ v.sent = u.sent /\ v.total = u.total /\ v.left = u.left /\ v.reads = u.reads
      /\ v.buf = 0 /\ v.given = u.given /\ v.holed = u.holed /\ v.caps = u.caps
  BY DEF UpKinds
<1>3. CollectFails(u, st) = AnsweredWith(v, IF u.reads = <<"receive">> THEN 200 ELSE st)
  BY DEF CollectFails
<1> HIDE DEF v
<1>4. UpWithin(v)
  BY <1>2, UpFields, UpSizes DEF UpWithin
<1>5. ASSUME NEW w \in Nat, w = 200 => u.reads = <<"receive">>, w # 200 => w = st
      PROVE  UpAnswer(AnsweredWith(v, w))
  <2> DEFINE x == AnsweredWith(v, w)
  <2>1. /\ x.status = w /\ x.reads = u.reads /\ x.buf = 0 /\ x.total = u.total
        /\ x.caps = u.caps
    BY <1>1, <1>2 DEF UpKinds, AnsweredWith
  <2> HIDE DEF x
  <2>2. UpAnswer(x)
    BY <1>5, <2>1 DEF UpAnswer
  <2> QED
    BY <2>2 DEF x
<1>6. CASE u.reads = <<"receive">>
  BY <1>1, <1>2, <1>3, <1>4, <1>5, <1>6, UpOver
<1>7. CASE u.reads # <<"receive">>
  <2>1. st # 200 /\ st \in Nat
    OBVIOUS
  <2> QED
    BY <1>1, <1>2, <1>3, <1>4, <1>5, <1>7, <2>1, UpOver
<1> QED
  BY <1>6, <1>7

\* Every step of the peer, the extractors and the handler keeps the invariant.
LEMMA UpSteps == UpIInv /\ [UpNext]_upload => UpIInv'
<1> SUFFICES ASSUME UpIInv, [UpNext]_upload PROVE UpSound(upload')
  BY DEF UpIInv, UpSound, UpCounted, UpWithin, UpAnswer
<1>s. UpSound(upload) /\ upload \in UpKinds /\ UpCounted(upload) /\ UpWithin(upload)
  BY DEF UpIInv, UpSound
<1>f. /\ upload.total \in Nat /\ upload.sent \in Nat /\ upload.left \in Nat /\ upload.buf \in Nat
      /\ upload.seen \in Nat /\ upload.given \in Nat /\ upload.failed \in Nat
      /\ upload.holed \in BOOLEAN /\ Cap \in Nat /\ UpMaxBody \in Nat
  BY <1>s, UpFields, UpSizes DEF Cap
<1>1. ASSUME NEW reads \in UpReaders, NEW caps \in UpCaps, NEW content \in UpContents,
             NEW total \in 0..UpMaxSent, NEW declared \in BOOLEAN,
             UpArrive(reads, caps, content, total, declared)
      PROVE  UpSound(upload')
  <2> DEFINE u == [UpRest EXCEPT !.at = "extracting", !.reads = reads, !.caps = caps,
                     !.content = content, !.total = total, !.left = UpMaxBody]
  <2>1. upload' = IF declared /\ total > UpMaxBody THEN AnsweredWith(u, 413) ELSE u
    BY <1>1 DEF UpArrive
  <2>2. UpRest \in UpKinds /\ UpSound(UpRest)
    BY UpIdles DEF UpSound
  <2>3. reads \in UpReads /\ content \in UpBodies /\ caps \in Seq(Nat) /\ total \in Nat
    BY UpSizes DEF UpReads, UpBodies
  <2>4. u \in UpKinds
    BY <1>f, <2>2, <2>3, UpNames DEF UpKinds
  <2>5. /\ u.at = "extracting" /\ u.total = total /\ u.left = UpMaxBody /\ u.caps = caps
        /\ u.sent = 0 /\ u.buf = 0 /\ u.given = 0 /\ u.seen = 0 /\ u.failed = 0
        /\ u.peer = "open" /\ ~u.holed /\ u.status = 0
    BY <2>2 DEF UpRest
  <2> HIDE DEF u
  <2>6. RouteCap(u.caps) \in Nat
    BY <2>4, UpFields
  <2>7. UpWithin(u) /\ UpCounted(u) /\ UpAnswer(u)
    BY <1>f, <2>3, <2>5, <2>6 DEF UpWithin, UpCounted, UpAnswer
  <2>8. CASE declared /\ total > UpMaxBody
    <3> DEFINE x == AnsweredWith(u, 413)
    <3>1. x.status = 413 /\ x.total = u.total
      BY <2>4 DEF UpKinds, AnsweredWith
    <3> HIDE DEF x
    <3>2. UpAnswer(x)
      BY <2>5, <2>8, <3>1 DEF UpAnswer
    <3>3. UpSound(AnsweredWith(u, 413))
      BY <1>f, <2>3, <2>4, <2>5, <2>7, <3>2, UpOver DEF x
    <3> QED
      BY <2>1, <2>8, <3>3
  <2>9. CASE ~(declared /\ total > UpMaxBody)
    BY <2>1, <2>4, <2>7, <2>9 DEF UpSound
  <2> QED
    BY <2>8, <2>9
<1>2. CASE UpExtract
  <2>1. upload.at = "extracting" /\ upload.sent = 0 /\ upload.buf = 0 /\ upload.given = 0
        /\ upload.seen = 0 /\ upload.failed = 0 /\ upload.peer = "open"
    BY <1>2, <1>s DEF UpExtract, UpCounted
  <2>2. CASE Len(upload.reads) = 1 /\ ~RightType(upload.reads[1], upload.content.media)
    <3> DEFINE x == AnsweredWith(upload, 415)
    <3>1. x.status = 415 /\ x.sent = 0
      BY <1>s, <2>1 DEF UpKinds, AnsweredWith
    <3> HIDE DEF x
    <3>2. UpAnswer(x)
      BY <3>1 DEF UpAnswer
    <3>3. upload.sent <= upload.total
          /\ upload.left = IF upload.sent <= UpMaxBody THEN UpMaxBody - upload.sent ELSE 0
      BY <1>s, <2>1 DEF UpCounted
    <3>4. UpSound(AnsweredWith(upload, 415))
      BY <1>s, <3>2, <3>3, UpOver DEF x
    <3> QED
      BY <1>2, <2>2, <3>4 DEF UpExtract
  <2>3. CASE ~(Len(upload.reads) = 1 /\ ~RightType(upload.reads[1], upload.content.media))
    <3> DEFINE p == IF upload.reads = <<"payload">> THEN "streaming" ELSE "collecting"
               x == [upload EXCEPT !.at = p]
    <3>1. upload' = x
      BY <1>2, <2>3 DEF UpExtract
    <3>2. /\ p \in UpPlaces /\ p \in {"streaming", "collecting"}
          /\ p = "streaming" => upload.reads = <<"payload">>
          /\ p = "collecting" => upload.reads # <<"payload">>
      BY UpNames
    <3> HIDE DEF p
    <3>3. x \in UpKinds
      BY <1>s, <3>2 DEF UpKinds
    <3>4. /\ x.at = p /\ x.reads = upload.reads /\ x.caps = upload.caps
          /\ x.content = upload.content /\ x.total = upload.total
          /\ x.sent = upload.sent /\ x.peer = upload.peer /\ x.left = upload.left
          /\ x.buf = upload.buf /\ x.seen = upload.seen /\ x.given = upload.given
          /\ x.failed = upload.failed /\ x.holed = upload.holed /\ x.status = upload.status
      BY <1>s DEF UpKinds
    <3> HIDE DEF x
    <3>5. upload.status = 0
      BY <1>s, <2>1 DEF UpCounted
    <3>6. UpCounted(x)
      BY <1>s, <1>f, <2>1, <2>3, <3>2, <3>4, <3>5 DEF UpCounted
    <3>7. UpWithin(x) /\ UpAnswer(x)
      BY <1>s, <2>1, <3>4, <3>5 DEF UpWithin, UpAnswer
    <3> QED
      BY <3>1, <3>3, <3>6, <3>7 DEF UpSound
  <2> QED
    BY <2>2, <2>3
<1>3. ASSUME NEW n \in 1..UpMaxSent, UpCollect(n) PROVE UpSound(upload')
  <2> DEFINE l == Arrived(n).left
             a == Arrived(n)
  <2>1. upload.at = "collecting" /\ Sends(n)
    BY <1>3 DEF UpCollect
  <2>2. /\ a = [upload EXCEPT !.sent = upload.sent + n, !.left = l]
        /\ l \in Nat /\ upload.sent + n \in Nat /\ upload.sent + n <= upload.total
        /\ l = IF upload.sent + n <= UpMaxBody THEN UpMaxBody - (upload.sent + n) ELSE 0
        /\ Fits(n) => upload.sent + n <= UpMaxBody
        /\ ~Fits(n) => upload.total > UpMaxBody
    BY <1>s, <2>1, LimitedCounts
  <2> HIDE DEF a, l
  <2>3. a \in UpKinds
    BY <1>s, <2>2 DEF UpKinds
  <2>4. /\ a.at = "collecting" /\ a.sent = upload.sent + n /\ a.left = l /\ a.caps = upload.caps
        /\ a.total = upload.total /\ a.reads = upload.reads /\ a.content = upload.content
        /\ a.peer = upload.peer /\ a.buf = upload.buf /\ a.given = upload.given
        /\ a.holed = upload.holed /\ a.status = upload.status
    BY <1>s, <2>1, <2>2 DEF UpKinds
  <2>5. /\ upload.reads # <<"payload">> /\ upload.peer = "open" /\ upload.buf = upload.sent
        /\ upload.status = 0 /\ UpWithin(a)
    BY <1>s, <2>1, <2>4 DEF UpCounted, UpWithin
  <2>6. CASE Fits(n) /\ ~(upload.buf + n > Cap)
    <3> DEFINE x == [a EXCEPT !.buf = upload.buf + n]
    <3>1. upload' = x
      BY <1>3, <2>4, <2>6 DEF UpCollect, Gathered, a
    <3>2. upload.buf + n \in Nat /\ upload.buf + n = upload.sent + n
      BY <2>2, <2>5
    <3>3. x \in UpKinds
      BY <2>3, <3>2 DEF UpKinds
    <3>4. /\ x.at = "collecting" /\ x.sent = upload.sent + n /\ x.left = l
          /\ x.caps = upload.caps /\ x.content = upload.content
          /\ x.total = upload.total /\ x.reads = upload.reads /\ x.peer = upload.peer
          /\ x.buf = upload.buf + n /\ x.given = upload.given
          /\ x.holed = upload.holed /\ x.status = 0
      BY <2>3, <2>4, <2>5 DEF UpKinds
    <3> HIDE DEF x
    <3>5. UpCounted(x)
      BY <1>s, <2>1, <2>2, <2>5, <3>2, <3>4 DEF UpCounted
    <3>6. UpWithin(x)
      BY <1>s, <1>f, <2>2, <2>6, <3>2, <3>4 DEF UpWithin, Cap
    <3>7. UpAnswer(x)
      BY <3>4 DEF UpAnswer
    <3> QED
      BY <3>1, <3>3, <3>5, <3>6, <3>7 DEF UpSound
  <2>7. CASE ~Fits(n) \/ upload.buf + n > Cap
    <3>1. upload' = CollectFails(a, 413)
      BY <1>3, <2>4, <2>7 DEF UpCollect, Gathered, a
    <3>2. upload.total > RouteCap(upload.caps) \/ upload.total > UpMaxBody
      BY <1>f, <2>2, <2>5, <2>7 DEF Cap
    <3>3. /\ a.sent <= a.total /\ a.reads # <<"payload">>
          /\ a.left = IF a.sent <= UpMaxBody THEN UpMaxBody - a.sent ELSE 0
          /\ a.total > RouteCap(a.caps) \/ a.total > UpMaxBody
      BY <2>2, <2>4, <2>5, <3>2
    <3> QED
      BY <2>3, <2>5, <3>1, <3>3, UpCollectFails
  <2> QED
    BY <2>6, <2>7
<1>4. ASSUME NEW n \in 1..UpMaxSent, NEW p \in BOOLEAN, UpStream(n, p) PROVE UpSound(upload')
  <2> DEFINE l == Arrived(n).left
             a == Arrived(n)
  <2>1. upload.at = "streaming" /\ Sends(n)
    BY <1>4 DEF UpStream
  <2>2. /\ a = [upload EXCEPT !.sent = upload.sent + n, !.left = l] /\ n \in Nat \ {0}
        /\ l \in Nat /\ upload.sent + n \in Nat /\ upload.sent + n <= upload.total
        /\ l = IF upload.sent + n <= UpMaxBody THEN UpMaxBody - (upload.sent + n) ELSE 0
        /\ Fits(n) => upload.sent + n <= UpMaxBody
        /\ ~Fits(n) => upload.total > UpMaxBody /\ l = 0
        /\ upload.peer = "open"
    BY <1>s, <2>1, LimitedCounts
  <2>3. Fits(n) => upload.left # 0
    BY <1>f, <2>2 DEF Fits
  <2> HIDE DEF a, l
  <2>4. a \in UpKinds
    BY <1>s, <2>2 DEF UpKinds
  <2>5. /\ a.at = "streaming" /\ a.sent = upload.sent + n /\ a.left = l /\ a.caps = upload.caps
        /\ a.total = upload.total /\ a.reads = upload.reads /\ a.peer = "open"
        /\ a.buf = upload.buf /\ a.seen = upload.seen /\ a.given = upload.given
        /\ a.failed = upload.failed /\ a.holed = upload.holed /\ a.status = 0
    BY <1>s, <2>1, <2>2 DEF UpKinds, UpCounted
  <2>6. /\ upload.reads = <<"payload">> /\ upload.seen <= upload.sent
        /\ upload.failed = 0 => upload.seen = upload.sent /\ upload.given = upload.sent
        /\ upload.failed # 0 => upload.left = 0 \/ upload.seen > Cap
    BY <1>s, <2>1, <2>2 DEF UpCounted, Cap
  \* An error item, with the piece counted by Payload or not.
  <2>7. ASSUME NEW k \in {0, n}, upload' = HandsOnError([a EXCEPT !.seen = upload.seen + k], 413, p),
               l = 0 \/ upload.seen + k > Cap,
               upload.total > RouteCap(upload.caps) \/ upload.total > UpMaxBody
        PROVE  UpSound(upload')
    <3> DEFINE u == [a EXCEPT !.seen = upload.seen + k]
    <3>1. upload.seen + k \in Nat /\ upload.seen + k <= upload.sent + n
      BY <1>f, <2>2, <2>6
    <3>2. u \in UpKinds
      BY <2>4, <3>1 DEF UpKinds
    <3>3. /\ u.at = "streaming" /\ u.sent = upload.sent + n /\ u.left = l /\ u.caps = upload.caps
          /\ u.total = upload.total /\ u.reads = upload.reads /\ u.peer = "open"
          /\ u.buf = upload.buf /\ u.seen = upload.seen + k /\ u.given = upload.given
          /\ u.failed = upload.failed /\ u.holed = upload.holed /\ u.status = 0
      BY <2>4, <2>5 DEF UpKinds
    <3>4. upload' = HandsOnError(u, 413, p)
      BY <2>7
    <3> HIDE DEF u
    <3>5. UpWithin(u)
      BY <1>s, <3>3 DEF UpWithin
    <3>6. CASE p
      <4> DEFINE x == AnsweredWith(u, 413)
      <4>1. x.status = 413 /\ x.total = upload.total /\ x.caps = upload.caps
        BY <3>2, <3>3 DEF UpKinds, AnsweredWith
      <4> HIDE DEF x
      <4>2. UpAnswer(x)
        BY <2>7, <4>1 DEF UpAnswer
      <4> QED
        BY <2>2, <3>2, <3>3, <3>4, <3>5, <3>6, <4>2, UpOver DEF HandsOnError, x
    <3>7. CASE ~p
      <4> DEFINE f == IF u.failed = 0 THEN 413 ELSE u.failed
                 x == [u EXCEPT !.failed = f]
      <4>1. upload' = x
        BY <3>4, <3>7 DEF HandsOnError
      <4>2. f \in Nat /\ f # 0
        BY <1>f, <3>3
      <4> HIDE DEF f
      <4>3. x \in UpKinds
        BY <3>2, <4>2 DEF UpKinds
      <4>4. /\ x.at = "streaming" /\ x.sent = u.sent /\ x.left = u.left /\ x.caps = u.caps
            /\ x.total = u.total /\ x.reads = u.reads /\ x.peer = "open"
            /\ x.buf = u.buf /\ x.seen = u.seen /\ x.given = u.given
            /\ x.failed = f /\ x.holed = u.holed /\ x.status = 0
        BY <3>2, <3>3 DEF UpKinds
      <4> HIDE DEF x
      <4>5. UpCounted(x)
        BY <2>2, <2>6, <2>7, <3>1, <3>3, <4>2, <4>4 DEF UpCounted, Cap
      <4>6. UpWithin(x) /\ UpAnswer(x)
        BY <3>5, <4>4 DEF UpWithin, UpAnswer
      <4> QED
        BY <4>1, <4>3, <4>5, <4>6 DEF UpSound
    <3> QED
      BY <3>6, <3>7
  <2>8. CASE ~Fits(n)
    <3>1. upload' = HandsOnError(a, 413, p)
      BY <1>4, <2>8 DEF UpStream, a
    <3>2. a = [a EXCEPT !.seen = upload.seen + 0]
      BY <1>f, <2>4, <2>5 DEF UpKinds
    <3>3. l = 0 /\ upload.total > UpMaxBody
      BY <2>2, <2>8
    <3> QED
      BY <2>7, <3>1, <3>2, <3>3
  <2>9. CASE Fits(n) /\ upload.seen + n > Cap
    <3>1. upload' = HandsOnError([a EXCEPT !.seen = upload.seen + n], 413, p)
      BY <1>4, <2>5, <2>9 DEF UpStream, Counted, a
    <3>2. upload.total > RouteCap(upload.caps)
      BY <1>f, <2>2, <2>6, <2>9 DEF Cap
    <3> QED
      BY <2>7, <2>9, <3>1, <3>2
  <2>10. CASE Fits(n) /\ ~(upload.seen + n > Cap)
    <3> DEFINE k == upload.seen + n
               g == upload.given + n
               x == [a EXCEPT !.seen = k, !.given = g, !.holed = upload.holed \/ upload.failed # 0]
    <3>1. upload' = x
      <4>1. upload' = HandsOn([a EXCEPT !.seen = k], n)
        BY <1>4, <2>5, <2>10 DEF UpStream, Counted, a
      <4>2. LET v == [a EXCEPT !.seen = k]
            IN  v.given = upload.given /\ v.holed = upload.holed /\ v.failed = upload.failed
        BY <2>4, <2>5 DEF UpKinds
      <4> QED
        BY <4>1, <4>2 DEF HandsOn
    <3>2. upload.failed = 0
      BY <1>f, <2>2, <2>3, <2>6, <2>10
    <3>3. k \in Nat /\ g \in Nat /\ k = upload.sent + n /\ g = upload.sent + n
      BY <1>f, <2>2, <2>6, <3>2
    <3>4. k <= Cap /\ k <= UpMaxBody
      BY <1>f, <2>2, <2>10, <3>3
    <3> HIDE DEF k, g
    <3>5. x \in UpKinds
      BY <2>4, <3>3 DEF UpKinds
    <3>6. /\ x.at = "streaming" /\ x.sent = a.sent /\ x.left = a.left /\ x.caps = a.caps
          /\ x.total = a.total /\ x.reads = a.reads /\ x.peer = "open"
          /\ x.buf = a.buf /\ x.seen = k /\ x.given = g
          /\ x.failed = 0 /\ x.status = 0
          /\ x.holed <=> upload.holed
      BY <1>f, <2>4, <2>5, <3>2 DEF UpKinds
    <3> HIDE DEF x
    <3>7. UpCounted(x)
      BY <2>2, <2>5, <2>6, <3>3, <3>6 DEF UpCounted
    <3>8. UpWithin(x)
      BY <1>s, <2>5, <3>3, <3>4, <3>6 DEF UpWithin, Cap
    <3>9. UpAnswer(x)
      BY <3>6 DEF UpAnswer
    <3> QED
      BY <3>1, <3>5, <3>7, <3>8, <3>9 DEF UpSound
  <2> QED
    BY <2>8, <2>9, <2>10
<1>5. ASSUME NEW p \in BOOLEAN, UpBreaks(p) PROVE UpSound(upload')
  <2> DEFINE u == [upload EXCEPT !.peer = "broken"]
  <2>1. upload.at \in {"collecting", "streaming"}
        /\ upload' = IF upload.at = "collecting" THEN CollectFails(u, 400)
                     ELSE HandsOnError(u, 400, p)
    BY <1>5 DEF UpBreaks
  <2>2. u \in UpKinds
    BY <1>s, UpNames DEF UpKinds
  <2>3. /\ u.at = upload.at /\ u.sent = upload.sent /\ u.left = upload.left
        /\ u.caps = upload.caps /\ u.total = upload.total /\ u.reads = upload.reads
        /\ u.peer = "broken" /\ u.buf = upload.buf /\ u.seen = upload.seen
        /\ u.given = upload.given /\ u.failed = upload.failed /\ u.holed = upload.holed
        /\ u.status = upload.status
    BY <1>s DEF UpKinds
  <2> HIDE DEF u
  <2>4. /\ UpWithin(u) /\ u.sent <= u.total /\ u.status = 0
        /\ u.left = IF u.sent <= UpMaxBody THEN UpMaxBody - u.sent ELSE 0
    BY <1>s, <2>1, <2>3 DEF UpWithin, UpCounted
  <2>5. CASE upload.at = "collecting"
    <3>1. u.reads # <<"payload">> /\ upload' = CollectFails(u, 400)
      BY <1>s, <2>1, <2>3, <2>5 DEF UpCounted
    <3> QED
      BY <2>2, <2>4, <3>1, UpCollectFails
  <2>6. CASE upload.at = "streaming" /\ p
    <3> DEFINE x == AnsweredWith(u, 400)
    <3>1. x.status = 400
      BY <2>2 DEF UpKinds, AnsweredWith
    <3> HIDE DEF x
    <3>2. UpAnswer(x)
      BY <3>1 DEF UpAnswer
    <3> QED
      BY <2>1, <2>2, <2>4, <2>6, <3>2, UpOver DEF HandsOnError, x
  <2>7. CASE upload.at = "streaming" /\ ~p
    <3> DEFINE f == IF u.failed = 0 THEN 400 ELSE u.failed
               x == [u EXCEPT !.failed = f]
    <3>1. upload' = x
      BY <2>1, <2>7 DEF HandsOnError
    <3>2. f \in Nat /\ f # 0
      BY <1>f, <2>3
    <3> HIDE DEF f
    <3>3. x \in UpKinds
      BY <2>2, <3>2 DEF UpKinds
    <3>4. /\ x.at = "streaming" /\ x.sent = u.sent /\ x.left = u.left /\ x.caps = u.caps
          /\ x.total = u.total /\ x.reads = u.reads /\ x.peer = "broken"
          /\ x.buf = u.buf /\ x.seen = u.seen /\ x.given = u.given
          /\ x.failed = f /\ x.holed = u.holed /\ x.status = 0
      BY <2>2, <2>3, <2>4, <2>7 DEF UpKinds
    <3> HIDE DEF x
    <3>5. UpCounted(x)
      BY <1>s, <2>3, <2>4, <2>7, <3>2, <3>4 DEF UpCounted
    <3>6. UpWithin(x) /\ UpAnswer(x)
      BY <2>4, <3>4 DEF UpWithin, UpAnswer
    <3> QED
      BY <3>1, <3>3, <3>5, <3>6 DEF UpSound
  <2> QED
    BY <2>1, <2>5, <2>6, <2>7
<1>6. CASE UpEnds
  <2> DEFINE p == IF upload.peer = "open" THEN "fin" ELSE upload.peer
             u == [upload EXCEPT !.peer = p]
             st == IF upload.at = "streaming" THEN 200 ELSE Extracted
             x == AnsweredWith(u, st)
  <2>1. /\ upload.at \in {"collecting", "streaming"} /\ upload' = x
        /\ upload.peer = "broken" \/ upload.sent = upload.total
    BY <1>6 DEF UpEnds
  <2>2. p \in UpPeers /\ (upload.peer = "open" => p = "fin")
    BY <1>s, UpNames, UpFields
  <2> HIDE DEF p
  <2>3. st \in {200, 400, 415}
    BY DEF Extracted, Complaint
  <2>4. upload.at = "collecting" /\ Len(upload.reads) = 1 => st # 415
    BY <1>s DEF UpCounted, Extracted, Complaint
  <2>5. upload.at = "streaming" => st = 200
    OBVIOUS
  <2> HIDE DEF st
  <2>6. u \in UpKinds
    BY <1>s, <2>2 DEF UpKinds
  <2>7. /\ u.at = upload.at /\ u.sent = upload.sent /\ u.left = upload.left
        /\ u.caps = upload.caps /\ u.total = upload.total /\ u.reads = upload.reads
        /\ u.peer = p /\ u.buf = upload.buf /\ u.seen = upload.seen
        /\ u.given = upload.given /\ u.failed = upload.failed /\ u.holed = upload.holed
        /\ u.status = upload.status
    BY <1>s DEF UpKinds
  <2> HIDE DEF u
  <2>8. /\ UpWithin(u) /\ u.sent <= u.total
        /\ u.left = IF u.sent <= UpMaxBody THEN UpMaxBody - u.sent ELSE 0
    BY <1>s, <2>1, <2>7 DEF UpWithin, UpCounted
  <2>9. /\ x.status = st /\ x.reads = u.reads /\ x.peer = p /\ x.buf = u.buf
        /\ x.total = u.total /\ x.failed = u.failed /\ x.given = u.given /\ x.sent = u.sent
    BY <2>6, <2>7 DEF UpKinds, AnsweredWith
  <2> HIDE DEF x
  <2>10. CASE upload.at = "collecting"
    <3>1. /\ upload.peer = "open" /\ upload.sent = upload.total /\ upload.buf = upload.total
          /\ upload.reads # <<"payload">> /\ p = "fin"
      BY <1>s, <2>1, <2>2, <2>10 DEF UpCounted
    <3>2. UpAnswer(x)
      BY <2>3, <2>4, <2>7, <2>9, <2>10, <3>1 DEF UpAnswer
    <3> QED
      BY <2>1, <2>3, <2>6, <2>8, <3>2, UpOver DEF x
  <2>11. CASE upload.at = "streaming"
    <3>1. /\ upload.reads = <<"payload">>
          /\ upload.failed = 0 => upload.given = upload.total /\ p = "fin"
      BY <1>s, <2>1, <2>2, <2>11 DEF UpCounted
    <3>2. UpAnswer(x)
      BY <2>5, <2>7, <2>9, <2>11, <3>1, UpNames DEF UpAnswer
    <3> QED
      BY <2>1, <2>3, <2>6, <2>8, <3>2, UpOver DEF x
  <2> QED
    BY <2>1, <2>10, <2>11
<1>7. CASE UpDropped
  BY <1>7, UpIdles DEF UpDropped
<1>8. CASE UNCHANGED upload
  BY <1>s, <1>8
<1> QED
  BY <1>1, <1>2, <1>3, <1>4, <1>5, <1>6, <1>7, <1>8 DEF UpNext

\* For any limit of the server, any caps of the routes and any body, what an
\* extractor or a stream is given is within both limits, a handler that answers
\* has had all of the body it asked for, and a 413 is said only of a body that
\* was too large.
THEOREM BodiesWholeOrRefused == UpSpec => []BodyWholeOrRefused
<1>1. UpInit => UpIInv
  BY UpIdles DEF UpInit, UpIInv
<1>2. UpIInv => BodyWholeOrRefused
  <2> SUFFICES ASSUME UpIInv PROVE BodyWholeOrRefused
    OBVIOUS
  <2>1. /\ UpWithin(upload) /\ UpAnswer(upload) /\ Cap \in Nat /\ UpMaxBody \in Nat
        /\ upload.buf \in Nat /\ upload.given \in Nat /\ upload.total \in Nat
    BY UpFields, UpSizes DEF UpIInv, UpSound, Cap
  <2>2. /\ upload.buf <= Ceiling /\ upload.given <= Ceiling /\ ~upload.holed
        /\ upload.status = 413 => upload.total > Ceiling
    BY <2>1 DEF Ceiling, UpWithin, UpAnswer, Cap
  <2> QED
    BY <2>1, <2>2 DEF BodyWholeOrRefused, UpAnswer
<1> QED
  BY <1>1, <1>2, UpSteps, PTL DEF UpSpec

-----------------------------------------------------------------------------
(* CookieSessions: the deadlines of a login kept in a cookie.               *)

CkSpec == CkInit /\ [][CkNext]_visits

CkTimes == Nat \cup {Never}
CkStages == {"idle", "loaded", "admitted", "handled"}
CkSettings == [login: Nat, visit: Nat, age: Nat]
CkSessions == [uid: BOOLEAN, lin: CkTimes, seen: CkTimes, since: CkTimes, active: CkTimes]
CkCookies == [exp: CkTimes, session: CkSessions]
CkInFlight == [stage: CkStages, session: CkSessions, dirty: BOOLEAN, at: Nat]

CkTyped ==
  visits \in [on: BOOLEAN, conf: CkSettings, clock: Nat, jar: CkCookies,
              req: [CookieRequests -> CkInFlight]]

\* What the two timestamps of a session are worth: the login's is true, and the
\* visit's is never later than a request that the cookie knows of -- or than the
\* one that arrived at the given time and has not been answered.
CkTrue(s, at) ==
  s.lin # Never =>
    /\ s.uid /\ s.since = s.lin /\ s.seen # Never
    /\ s.seen <= s.active \/ s.seen <= at

CkSeenAt(q) == IF q.stage \in {"admitted", "handled"} THEN q.at ELSE Never

\* One request, and LoginsEnd of it.
CkGood(q, conf) ==
  /\ CkTrue(q.session, CkSeenAt(q))
  /\ q.stage = "admitted" /\ q.session.uid /\ q.session.lin # Never =>
       /\ conf.login # 0 => q.at - q.session.since < conf.login
       /\ conf.visit # 0 => q.at - q.session.active < conf.visit

CkIInv ==
  /\ CkTyped
  /\ CkTrue(visits.jar.session, Never)
  /\ \A r \in CookieRequests : CkGood(visits.req[r], Conf)
  /\ ~visits.on => \A r \in CookieRequests : visits.req[r].stage = "idle"

\* An empty session claims nothing.
LEMMA CkEmpty == EmptySession \in CkSessions /\ \A at : CkTrue(EmptySession, at)
BY DEF EmptySession, CkSessions, CkTimes, CkTrue, Never

\* A request that has not begun keeps the deadlines.
LEMMA CkIdle ==
  /\ Idling \in CkInFlight /\ Idling.stage = "idle"
  /\ \A conf : CkGood(Idling, conf)
<1>1. /\ Idling.stage = "idle" /\ Idling.session = EmptySession
      /\ Idling.dirty \in BOOLEAN /\ Idling.at \in Nat
  BY DEF Idling
<1>2. Idling \in CkInFlight
  BY CkEmpty DEF Idling, CkInFlight, CkStages
<1> QED
  BY <1>1, <1>2, CkEmpty DEF CkGood

\* No cookie and no request: the invariant holds.
LEMMA CkStarts == CkInit => CkIInv
<1> SUFFICES ASSUME CkInit PROVE CkIInv
  OBVIOUS
<1>1. /\ ~visits.on /\ visits.jar = NoSetCookie
      /\ \A r \in CookieRequests : visits.req[r] = Idling
  BY DEF CkInit, CkRest
<1>2. NoSetCookie \in CkCookies /\ NoSetCookie.session = EmptySession
  BY CkEmpty DEF NoSetCookie, CkCookies, CkTimes
<1>3. [login |-> 0, visit |-> 0, age |-> 0] \in CkSettings
  BY DEF CkSettings
<1>4. CkTyped
  BY <1>2, <1>3, CkIdle DEF CkInit, CkRest, CkTyped
<1> QED
  BY <1>1, <1>2, <1>4, CkEmpty, CkIdle DEF CkIInv

\* Every step of a request, the handler, the jar and the clock keeps it.
LEMMA CkSteps == CkIInv /\ [CkNext]_visits => CkIInv'
<1> SUFFICES ASSUME CkIInv, [CkNext]_visits PROVE CkIInv'
  OBVIOUS
<1>t. /\ CkTyped /\ CkTrue(visits.jar.session, Never)
      /\ ~visits.on => \A r \in CookieRequests : visits.req[r].stage = "idle"
  BY DEF CkIInv
<1>n. /\ Conf \in CkSettings /\ Conf.login \in Nat /\ Conf.visit \in Nat /\ Now \in Nat
      /\ visits.jar \in CkCookies /\ visits.jar.session \in CkSessions
      /\ visits.req \in [CookieRequests -> CkInFlight]
  BY <1>t DEF CkTyped, Conf, Now, CkSettings, CkCookies
<1>r. ASSUME NEW r \in CookieRequests
      PROVE  LET q == visits.req[r]
             IN  /\ q \in CkInFlight /\ q.session \in CkSessions /\ q.at \in Nat
                 /\ CkGood(q, Conf)
  BY <1>n DEF CkIInv, CkInFlight
<1>m. "loaded" \in CkStages /\ "admitted" \in CkStages /\ "handled" \in CkStages
  BY DEF CkStages
\* One request is at q, and perhaps sets a cookie.
<1>k. ASSUME NEW r \in CookieRequests, NEW q \in CkInFlight, NEW j \in CkCookies,
             visits' = [visits EXCEPT !.req[r] = q, !.jar = j],
             CkTrue(j.session, Never), CkGood(q, Conf), ~visits.on => q.stage = "idle"
      PROVE  CkIInv'
  <2>1. CkTyped'
    BY <1>t, <1>k DEF CkTyped
  <2>2. /\ visits'.req = [visits.req EXCEPT ![r] = q] /\ visits'.jar = j
        /\ visits'.on = visits.on /\ visits'.conf = visits.conf
    BY <1>t, <1>k DEF CkTyped
  <2>3. visits'.req[r] = q /\ \A d \in CookieRequests : d # r => visits'.req[d] = visits.req[d]
    BY <1>n, <2>2
  <2>4. \A d \in CookieRequests : CkGood(visits.req[d], Conf)'
    <3> SUFFICES ASSUME NEW d \in CookieRequests PROVE CkGood(visits'.req[d], visits'.conf)
      BY DEF CkGood, CkTrue, CkSeenAt, Conf
    <3> QED
      BY <1>r, <1>k, <2>2, <2>3 DEF Conf
  <2>5. CkTrue(visits.jar.session, Never)'
    BY <1>k, <2>2 DEF CkTrue
  <2> QED
    BY <1>t, <1>k, <2>1, <2>2, <2>3, <2>4, <2>5 DEF CkIInv
\* ... and one that sets none.
<1>j. ASSUME NEW r \in CookieRequests, NEW q \in CkInFlight,
             visits' = [visits EXCEPT !.req[r] = q], CkGood(q, Conf),
             ~visits.on => q.stage = "idle"
      PROVE  CkIInv'
  <2>1. visits' = [visits EXCEPT !.req[r] = q, !.jar = visits.jar]
    BY <1>t, <1>j DEF CkTyped
  <2> QED
    BY <1>k, <1>j, <1>n, <1>t, <2>1
<1>1. ASSUME NEW conf \in CookieConfigs, CkStart(conf) PROVE CkIInv'
  <2>1. ~visits.on /\ visits' = [visits EXCEPT !.on = TRUE, !.conf = conf]
    BY <1>1 DEF CkStart
  <2>2. conf \in CkSettings
    BY CookieNumbers DEF CkSettings
  <2>3. CkTyped'
    BY <1>t, <2>1, <2>2 DEF CkTyped
  <2>4. visits'.req = visits.req /\ visits'.jar = visits.jar /\ visits'.on
    BY <1>t, <2>1 DEF CkTyped
  <2>5. \A d \in CookieRequests : CkGood(visits.req[d], Conf)'
    <3> SUFFICES ASSUME NEW d \in CookieRequests PROVE CkGood(visits'.req[d], visits'.conf)
      BY DEF CkGood, CkTrue, CkSeenAt, Conf
    <3>1. visits.req[d].stage = "idle" /\ CkGood(visits.req[d], Conf)
      BY <1>r, <1>t, <2>1
    <3> QED
      BY <2>4, <3>1 DEF CkGood
  <2>6. CkTrue(visits.jar.session, Never)'
    BY <1>t, <2>4 DEF CkTrue
  <2> QED
    BY <2>3, <2>4, <2>5, <2>6 DEF CkIInv
<1>2. ASSUME NEW r \in CookieRequests, CkArrive(r) PROVE CkIInv'
  <2> DEFINE s == Recovered(visits.jar)
             q == [Idling EXCEPT !.stage = "loaded", !.session = s]
  <2>1. visits.on /\ visits' = [visits EXCEPT !.req[r] = q]
    BY <1>2 DEF CkArrive
  <2>2. s \in CkSessions /\ CkTrue(s, Never)
    BY <1>n, <1>t, CkEmpty DEF Recovered
  <2> HIDE DEF s
  <2>3. q \in CkInFlight
    BY <1>m, <2>2, CkIdle DEF CkInFlight
  <2>4. q.stage = "loaded" /\ q.session = s
    BY CkIdle DEF CkInFlight
  <2>5. CkGood(q, Conf)
    BY <2>2, <2>4 DEF CkGood, CkSeenAt
  <2> QED
    BY <1>j, <2>1, <2>3, <2>5
<1>3. ASSUME NEW r \in CookieRequests, CkIdentify(r) PROVE CkIInv'
  <2> DEFINE o == visits.req[r].session
             s == Identified(o)
             q == [visits.req[r] EXCEPT !.stage = "admitted", !.session = s,
                                        !.dirty = (s # o), !.at = Now]
  <2>1. visits.req[r].stage = "loaded" /\ visits' = [visits EXCEPT !.req[r] = q]
    BY <1>3 DEF CkIdentify
  <2>2. o \in CkSessions /\ CkTrue(o, Never)
    BY <1>r, <2>1 DEF CkGood, CkSeenAt
  <2>3. /\ o.uid \in BOOLEAN /\ o.lin \in CkTimes /\ o.seen \in CkTimes
        /\ o.since \in CkTimes /\ o.active \in CkTimes
    BY <2>2 DEF CkSessions
  <2> HIDE DEF o
  <2>4. CASE ~o.uid
    <3>1. s = o
      BY <2>4 DEF Identified
    <3>2. q \in CkInFlight
      BY <1>n, <1>m, <1>r, <2>2, <3>1 DEF CkInFlight
    <3>3. q.session = o /\ q.session.lin = Never
      BY <1>r, <2>2, <2>4, <3>1 DEF CkInFlight, CkTrue
    <3>4. CkGood(q, Conf)
      BY <3>3 DEF CkGood, CkTrue
    <3>5. visits.on
      BY <1>t, <2>1
    <3> QED
      BY <1>j, <2>1, <3>2, <3>4, <3>5
  <2>5. CASE o.uid /\ (OverDue(Conf.login, o.lin) \/ OverDue(Conf.visit, o.seen))
    <3>1. s = EmptySession /\ EmptySession.lin = Never
      BY <2>5 DEF Identified, Anonymous, EmptySession
    <3>2. q \in CkInFlight
      BY <1>n, <1>m, <1>r, <3>1, CkEmpty DEF CkInFlight
    <3>3. q.session = EmptySession
      BY <1>r, <3>1 DEF CkInFlight
    <3>4. CkGood(q, Conf)
      BY <3>1, <3>3 DEF CkGood, CkTrue
    <3>5. visits.on
      BY <1>t, <2>1
    <3> QED
      BY <1>j, <2>1, <3>2, <3>4, <3>5
  <2>6. CASE o.uid /\ ~OverDue(Conf.login, o.lin) /\ ~OverDue(Conf.visit, o.seen)
    <3>1. s = Refreshed(o)
      BY <2>6 DEF Identified
    <3>2. PICK x \in CkTimes : s = [o EXCEPT !.seen = x] /\ (x = Now \/ x = o.seen)
      <4>1. o = [o EXCEPT !.seen = o.seen]
        BY <2>2 DEF CkSessions
      <4>2. Now \in CkTimes
        BY <1>n DEF CkTimes
      <4> QED
        BY <2>3, <3>1, <4>1, <4>2 DEF Refreshed
    <3>3. /\ s \in CkSessions /\ s.uid /\ s.lin = o.lin /\ s.seen = x /\ s.since = o.since
          /\ s.active = o.active
      BY <2>2, <2>6, <3>2 DEF CkSessions
    <3> HIDE DEF s
    <3>4. q \in CkInFlight
      BY <1>n, <1>m, <1>r, <3>3 DEF CkInFlight
    <3>5. q.session = s /\ q.stage = "admitted" /\ q.at = Now
      BY <1>r DEF CkInFlight
    <3> HIDE DEF q
    <3>6. CkTrue(s, Now)
      BY <1>n, <2>2, <2>3, <3>2, <3>3 DEF CkTrue, CkTimes, Never
    <3>7. s.lin # Never =>
            /\ Conf.login # 0 => Now - s.since < Conf.login
            /\ Conf.visit # 0 => Now - s.active < Conf.visit
      BY <1>n, <2>2, <2>3, <2>6, <3>3 DEF CkTrue, CkTimes, Never, OverDue
    <3>8. CkGood(q, Conf)
      BY <3>5, <3>6, <3>7 DEF CkGood, CkSeenAt
    <3>9. visits.on
      BY <1>t, <2>1
    <3> QED
      BY <1>j, <2>1, <3>4, <3>8, <3>9
  <2> QED
    BY <2>3, <2>4, <2>5, <2>6
\* A handler that leaves the session at s.
<1>4. ASSUME NEW r \in CookieRequests, NEW s \in CkSessions, Changing(r, s),
             CkTrue(s, visits.req[r].at)
      PROVE  CkIInv'
  <2> DEFINE q == [visits.req[r] EXCEPT !.session = s, !.dirty = TRUE, !.stage = "handled"]
  <2>1. /\ visits.req[r].stage \in {"admitted", "handled"}
        /\ visits' = [visits EXCEPT !.req[r] = q]
    BY <1>4 DEF Changing
  <2>2. q \in CkInFlight
    BY <1>m, <1>r, <1>4 DEF CkInFlight
  <2>3. q.session = s /\ q.stage = "handled" /\ q.at = visits.req[r].at
    BY <1>r DEF CkInFlight
  <2> HIDE DEF q
  <2>4. CkGood(q, Conf)
    BY <1>4, <2>3 DEF CkGood, CkSeenAt
  <2>5. visits.on
    BY <1>t, <2>1
  <2> QED
    BY <1>j, <2>1, <2>2, <2>4, <2>5
<1>5. ASSUME NEW r \in CookieRequests, CkLogin(r) PROVE CkIInv'
  <2> DEFINE o == InSession(r)
             s == [o EXCEPT !.uid = TRUE, !.lin = Now, !.seen = Now, !.since = Now, !.active = Now]
  <2>1. o \in CkSessions
    BY <1>r DEF InSession
  <2>2. Now \in CkTimes /\ Now # Never /\ Now <= Now
    BY <1>n DEF CkTimes, Never
  <2>3. Changing(r, s)
    BY <1>5 DEF CkLogin
  <2> HIDE DEF o
  <2>4. /\ s \in CkSessions /\ s.uid /\ s.lin = Now /\ s.seen = Now /\ s.since = Now
        /\ s.active = Now
    BY <2>1, <2>2 DEF CkSessions
  <2> HIDE DEF s
  <2>5. CkTrue(s, visits.req[r].at)
    BY <2>2, <2>4 DEF CkTrue
  <2> QED
    BY <1>4, <2>3, <2>4, <2>5
<1>6. ASSUME NEW r \in CookieRequests, CkAdopt(r) PROVE CkIInv'
  <2> DEFINE o == InSession(r)
             s == [o EXCEPT !.uid = TRUE, !.since = Now, !.active = Now]
  <2>1. o \in CkSessions /\ ~o.uid /\ CkTrue(o, CkSeenAt(visits.req[r]))
    BY <1>6, <1>r DEF InSession, CkAdopt, CkGood
  <2>2. Now \in CkTimes
    BY <1>n DEF CkTimes
  <2>3. Changing(r, s)
    BY <1>6 DEF CkAdopt
  <2> HIDE DEF o
  <2>4. s \in CkSessions /\ s.lin = o.lin
    BY <2>1, <2>2 DEF CkSessions
  <2> HIDE DEF s
  <2>5. CkTrue(s, visits.req[r].at)
    BY <2>1, <2>4 DEF CkTrue
  <2> QED
    BY <1>4, <2>3, <2>4, <2>5
<1>7. ASSUME NEW r \in CookieRequests, CkLogout(r) PROVE CkIInv'
  BY <1>4, <1>7, CkEmpty DEF CkLogout
<1>8. ASSUME NEW r \in CookieRequests, CkAnswer(r) PROVE CkIInv'
  <2> DEFINE q == visits.req[r]
             j == Signed(q)
  <2>1. q.stage \in {"admitted", "handled"}
    BY <1>8 DEF CkAnswer
  <2>2. CASE ~q.dirty
    <3>1. visits' = [visits EXCEPT !.req[r] = Idling, !.jar = visits.jar]
      BY <1>8, <2>2 DEF CkAnswer
    <3> QED
      BY <1>k, <1>n, <1>t, <3>1, CkIdle
  <2>3. CASE q.dirty
    <3>1. visits' = [visits EXCEPT !.req[r] = Idling, !.jar = j]
      BY <1>8, <2>3 DEF CkAnswer
    <3>2. PICK x, y \in CkTimes :
            /\ j = [exp |-> x, session |-> [q.session EXCEPT !.active = y]]
            /\ q.session.uid => y >= q.session.active /\ y >= q.at
      <4>1. q.session.active \in CkTimes /\ q.at \in CkTimes
        BY <1>r DEF CkSessions, CkTimes
      <4>2. Conf.age \in Nat
        BY <1>n DEF CkSettings
      <4> DEFINE x == IF Conf.age = 0 THEN Never ELSE Now + Conf.age
                 y == IF ~q.session.uid THEN Never
                      ELSE IF q.session.active > q.at THEN q.session.active ELSE q.at
      <4>3. x \in CkTimes
        BY <1>n, <4>2 DEF CkTimes, Never
      <4>4. y \in CkTimes /\ (q.session.uid => y >= q.session.active /\ y >= q.at)
        BY <4>1 DEF CkTimes, Never
      <4>5. j = [exp |-> x, session |-> [q.session EXCEPT !.active = y]]
        BY DEF Signed
      <4> QED
        BY <4>3, <4>4, <4>5
    <3> DEFINE s == [q.session EXCEPT !.active = y]
    <3>3. q.session \in CkSessions /\ q.at \in Nat /\ CkTrue(q.session, q.at)
      BY <1>r, <2>1 DEF CkGood, CkSeenAt
    <3>4. /\ s \in CkSessions /\ s.uid = q.session.uid /\ s.lin = q.session.lin
          /\ s.seen = q.session.seen /\ s.since = q.session.since /\ s.active = y
      BY <3>3 DEF CkSessions
    <3>5. q.session.seen \in CkTimes /\ q.session.active \in CkTimes
      BY <3>3 DEF CkSessions
    <3> HIDE DEF s, q, j
    <3>6. CkTrue(s, Never)
      BY <3>2, <3>3, <3>4, <3>5 DEF CkTrue, CkTimes, Never
    <3>7. j \in CkCookies /\ j.session = s
      BY <3>2, <3>4 DEF CkCookies, s
    <3> QED
      BY <1>k, <3>1, <3>6, <3>7, CkIdle
  <2> QED
    BY <2>2, <2>3
<1>9. ASSUME NEW r \in CookieRequests, CkDropped(r) PROVE CkIInv'
  BY <1>9, <1>j, CkIdle DEF CkDropped
<1>10. CASE CkTick
  <2>1. visits' = [visits EXCEPT !.clock = Now + 1] /\ Now + 1 \in Nat
    BY <1>10, <1>n DEF CkTick, Now
  <2>2. CkTyped'
    BY <1>t, <2>1 DEF CkTyped
  <2>3. /\ visits'.req = visits.req /\ visits'.jar = visits.jar /\ visits'.on = visits.on
        /\ visits'.conf = visits.conf
    BY <1>t, <2>1 DEF CkTyped
  <2> QED
    BY <1>t, <2>2, <2>3 DEF CkIInv, CkGood, CkTrue, CkSeenAt, Conf
<1>11. CASE UNCHANGED visits
  BY <1>t, <1>11 DEF CkIInv, CkTyped, CkGood, CkTrue, CkSeenAt, Conf
<1> QED
  BY <1>1, <1>2, <1>3, <1>5, <1>6, <1>7, <1>8, <1>9, <1>10, <1>11 DEF CkNext

\* For any number of requests in flight with copies of one cookie, no request is
\* admitted under a login that is older than login_deadline, or unvisited for
\* longer than visit_deadline, counted from what truly happened and not from the
\* timestamps the cookie carries.
THEOREM CookieLoginsEnd == CkSpec => []LoginsEnd
<1>1. CkIInv => LoginsEnd
  BY DEF CkIInv, CkGood, LoginsEnd, Admitted, InSession
<1> QED
  BY <1>1, CkStarts, CkSteps, PTL DEF CkSpec

-----------------------------------------------------------------------------
(* RedisConnection: the cached connection and its one retry.                *)

RcSpec == RcInit /\ [][RcNext]_redis_conn

RcPlaces == {"idle", "connecting", "dialling", "dialled", "asking", "failed"}
RcAttempts == {0, 1}
RcRuns == [at: RcPlaces, attempt: RcAttempts, conn: Nat, met: SUBSET Nat, refused: BOOLEAN]

RcTyped ==
  redis_conn \in [on: BOOLEAN, up: BOOLEAN, alive: SUBSET Nat, dialled: Nat, cache: Nat,
                  cmd: [Command -> RcRuns]]

\* A run, beside a cache and n sockets: it has met one broken socket before its
\* second attempt, and that one is neither in the cache when it looks there nor
\* the one it asks.
RcSound(r, cache, n) ==
  /\ r.met \subseteq 1..n
  /\ r.attempt = 0 => r.met = {}
  /\ r.attempt = 1 /\ r.at # "failed" => \E x : r.met = {x}
  /\ r.at \in {"dialled", "asking"} => r.conn \in 1..n /\ r.conn \notin r.met
  /\ r.at \in {"connecting", "dialling", "dialled"} => cache \notin r.met
  /\ r.at = "dialled" => r.conn # cache
  /\ r.at = "failed" => r.refused \/ Cardinality(r.met) = 2

\* A socket that is not shared yet is known to the command that dialled it only.
RcApart(r, s) ==
  r.at = "dialled" =>
    r.conn \notin s.met /\ (s.at \in {"dialled", "asking"} => s.conn # r.conn)

RcIInv ==
  /\ RcTyped
  /\ redis_conn.cache <= redis_conn.dialled
  /\ \A c \in Command : RcSound(Cmd(c), redis_conn.cache, redis_conn.dialled)
  /\ \A c, d \in Command : c # d => RcApart(Cmd(c), Cmd(d))

\* Two different elements are two.
LEMMA TwoAre == ASSUME NEW x, NEW y, x # y PROVE Cardinality({y} \cup {x}) = 2
<1> DEFINE S == {y}
<1>1. IsFiniteSet(S) /\ Cardinality(S) = 1 /\ x \notin S
  BY FS_Singleton
<1>2. Cardinality(S \cup {x}) = IF x \in S THEN Cardinality(S) ELSE Cardinality(S) + 1
  BY ONLY <1>1, FS_AddElement
<1> HIDE DEF S
<1>3. Cardinality(S \cup {x}) = 2
  BY <1>1, <1>2
<1> QED
  BY <1>3 DEF S

\* A command that has not begun is sound beside any cache.
LEMMA RcFresh ==
  ASSUME NEW cache, NEW n \in Nat
  PROVE  Unstarted \in RcRuns /\ RcSound(Unstarted, cache, n)
BY DEF Unstarted, RcRuns, RcPlaces, RcAttempts, RcSound, NoSocket

\* No command has begun and nothing is cached: the invariant holds.
LEMMA RcStarts == RcInit => RcIInv
<1> SUFFICES ASSUME RcInit PROVE RcIInv
  OBVIOUS
<1>1. Unstarted \in RcRuns /\ Unstarted.at = "idle"
  BY RcFresh DEF Unstarted
<1>2. /\ redis_conn.dialled = 0 /\ redis_conn.cache = 0
      /\ \A c \in Command : Cmd(c) = Unstarted
  BY DEF RcInit, RcRest, Cmd, NoSocket
<1>3. RcTyped
  BY <1>1 DEF RcInit, RcRest, RcTyped, NoSocket
<1> QED
  BY <1>1, <1>2, <1>3, RcFresh DEF RcIInv, RcApart

\* A step of one command, after which it is at r, keeps the invariant.
LEMMA RcTurn ==
  ASSUME RcIInv, RcTyped', NEW c \in Command, NEW r,
         redis_conn'.cmd = [redis_conn.cmd EXCEPT ![c] = r],
         redis_conn'.cache <= redis_conn'.dialled,
         RcSound(r, redis_conn'.cache, redis_conn'.dialled),
         \A d \in Command : d # c =>
           /\ RcSound(Cmd(d), redis_conn'.cache, redis_conn'.dialled)
           /\ RcApart(r, Cmd(d)) /\ RcApart(Cmd(d), r)
  PROVE  RcIInv'
<1>1. redis_conn.cmd \in [Command -> RcRuns]
  BY DEF RcIInv, RcTyped
<1>2. Cmd(c)' = r /\ \A d \in Command : d # c => Cmd(d)' = Cmd(d)
  BY <1>1 DEF Cmd
<1>3. \A d \in Command : RcSound(Cmd(d), redis_conn.cache, redis_conn.dialled)'
  <2> SUFFICES ASSUME NEW d \in Command
               PROVE  RcSound(Cmd(d)', redis_conn'.cache, redis_conn'.dialled)
    BY DEF RcSound
  <2> QED
    BY <1>2
<1>4. \A d, e \in Command : d # e => RcApart(Cmd(d), Cmd(e))'
  <2> SUFFICES ASSUME NEW d \in Command, NEW e \in Command, d # e
               PROVE  RcApart(Cmd(d)', Cmd(e)')
    BY DEF RcApart
  <2>1. RcApart(Cmd(d), Cmd(e))
    BY DEF RcIInv
  <2> QED
    BY <1>2, <2>1
<1> QED
  BY <1>3, <1>4 DEF RcIInv

\* Every step of a command and of the Redis server keeps it.
LEMMA RcSteps == RcIInv /\ [RcNext]_redis_conn => RcIInv'
<1> SUFFICES ASSUME RcIInv, [RcNext]_redis_conn PROVE RcIInv'
  OBVIOUS
<1>t. RcTyped /\ redis_conn.cache <= redis_conn.dialled
  BY DEF RcIInv
<1>n. /\ redis_conn.cache \in Nat /\ redis_conn.dialled \in Nat
      /\ redis_conn.cmd \in [Command -> RcRuns]
      /\ \A c \in Command : Cmd(c) \in RcRuns
      /\ \A c \in Command :
           Cmd(c).conn \in Nat /\ Cmd(c).met \subseteq Nat /\ Cmd(c).attempt \in {0, 1}
  BY <1>t DEF RcTyped, Cmd, RcRuns, RcAttempts
<1>s. \A c \in Command : RcSound(Cmd(c), redis_conn.cache, redis_conn.dialled)
  BY DEF RcIInv
<1>a. \A c, d \in Command : c # d => RcApart(Cmd(c), Cmd(d)) /\ RcApart(Cmd(d), Cmd(c))
  BY DEF RcIInv
<1>m. /\ "connecting" \in RcPlaces /\ "dialling" \in RcPlaces /\ "dialled" \in RcPlaces
      /\ "asking" \in RcPlaces /\ "failed" \in RcPlaces /\ 1 \in RcAttempts
  BY DEF RcPlaces, RcAttempts
\* Of a step that leaves the cache and the sockets alone.
<1>k. ASSUME NEW c \in Command, NEW r \in RcRuns,
             redis_conn' = [redis_conn EXCEPT !.cmd[c] = r],
             RcSound(r, redis_conn.cache, redis_conn.dialled),
             \A d \in Command : d # c => RcApart(r, Cmd(d)) /\ RcApart(Cmd(d), r)
      PROVE  RcIInv'
  <2>1. RcTyped'
    BY <1>t, <1>k DEF RcTyped
  <2>2. /\ redis_conn'.cmd = [redis_conn.cmd EXCEPT ![c] = r]
        /\ redis_conn'.cache = redis_conn.cache /\ redis_conn'.dialled = redis_conn.dialled
    BY <1>t, <1>k DEF RcTyped
  <2> QED
    BY <1>t, <1>s, <1>k, <2>1, <2>2, RcTurn
<1>1. ASSUME NEW e \in BOOLEAN, RcOpen(e) PROVE RcIInv'
  <2> DEFINE n == IF e THEN 1 ELSE 0
             a == IF e THEN {1} ELSE {}
  <2>1. redis_conn' = [RcRest EXCEPT !.on = TRUE, !.alive = a, !.dialled = n, !.cache = n]
    BY <1>1 DEF RcOpen, NoSocket
  <2>2. n \in Nat /\ n <= n /\ a \in SUBSET Nat
    OBVIOUS
  <2> HIDE DEF n, a
  <2>3. Unstarted \in RcRuns /\ Unstarted.at = "idle"
    BY RcFresh DEF Unstarted
  <2>4. redis_conn' = [on |-> TRUE, up |-> TRUE, alive |-> a, dialled |-> n, cache |-> n,
                       cmd |-> [c \in Command |-> Unstarted]]
    BY <2>1 DEF RcRest
  <2>5. RcTyped'
    BY <2>2, <2>3, <2>4 DEF RcTyped
  <2>6. /\ redis_conn'.cache = n /\ redis_conn'.dialled = n
        /\ \A c \in Command : Cmd(c)' = Unstarted
    BY <2>4 DEF Cmd
  <2>7. \A c \in Command : RcSound(Cmd(c), redis_conn.cache, redis_conn.dialled)'
    <3> SUFFICES ASSUME NEW c \in Command
                 PROVE  RcSound(Cmd(c)', redis_conn'.cache, redis_conn'.dialled)
      BY DEF RcSound
    <3> QED
      BY <2>2, <2>6, RcFresh
  <2>8. \A c, d \in Command : RcApart(Cmd(c), Cmd(d))'
    BY <2>3, <2>6 DEF RcApart
  <2> QED
    BY <2>2, <2>5, <2>6, <2>7, <2>8 DEF RcIInv
<1>2. ASSUME NEW c \in Command, RcRun(c) \/ RcAnswered(c) \/ RcEnd(c) PROVE RcIInv'
  <2>1. PICK r \in RcRuns :
          /\ redis_conn' = [redis_conn EXCEPT !.cmd[c] = r]
          /\ r.at \in {"idle", "connecting"} /\ r.met = {} /\ r.attempt = 0
    <3>1. Unstarted \in RcRuns /\ [Unstarted EXCEPT !.at = "connecting"] \in RcRuns
      BY <1>m, RcFresh DEF Unstarted, RcRuns
    <3>2. CASE RcRun(c)
      <4> DEFINE s == [Unstarted EXCEPT !.at = "connecting"]
      <4>1. s.at = "connecting" /\ s.met = {} /\ s.attempt = 0
        BY DEF Unstarted
      <4> QED
        BY <3>1, <3>2, <4>1 DEF RcRun
    <3>3. CASE RcAnswered(c) \/ RcEnd(c)
      <4>1. Unstarted.at = "idle" /\ Unstarted.met = {} /\ Unstarted.attempt = 0
        BY DEF Unstarted
      <4> QED
        BY <3>1, <3>3, <4>1 DEF RcAnswered, RcEnd
    <3> QED
      BY <1>2, <3>2, <3>3
  <2>3. RcSound(r, redis_conn.cache, redis_conn.dialled)
    BY <2>1 DEF RcSound
  <2>4. \A d \in Command : d # c => RcApart(r, Cmd(d)) /\ RcApart(Cmd(d), r)
    BY <2>1 DEF RcApart
  <2> QED
    BY <1>k, <2>1, <2>3, <2>4
<1>3. ASSUME NEW c \in Command, RcClone(c) PROVE RcIInv'
  <2>1. Cmd(c).at = "connecting"
    BY <1>3 DEF RcClone
  <2>2. CASE redis_conn.cache = NoSocket
    <3> DEFINE r == [Cmd(c) EXCEPT !.at = "dialling"]
    <3>1. redis_conn' = [redis_conn EXCEPT !.cmd[c] = r]
      BY <1>3, <1>t, <2>2 DEF RcClone, Cmd, RcTyped
    <3>2. /\ r \in RcRuns /\ r.at = "dialling" /\ r.met = Cmd(c).met
          /\ r.attempt = Cmd(c).attempt
      BY <1>n, <1>m DEF RcRuns
    <3> HIDE DEF r
    <3>3. RcSound(r, redis_conn.cache, redis_conn.dialled)
      BY <1>s, <2>1, <3>2 DEF RcSound
    <3>4. \A d \in Command : d # c => RcApart(r, Cmd(d)) /\ RcApart(Cmd(d), r)
      BY <1>a, <2>1, <3>2 DEF RcApart
    <3> QED
      BY <1>k, <3>1, <3>2, <3>3, <3>4
  <2>3. CASE redis_conn.cache # NoSocket
    <3> DEFINE r == [Cmd(c) EXCEPT !.at = "asking", !.conn = redis_conn.cache]
    <3>1. redis_conn' = [redis_conn EXCEPT !.cmd[c] = r]
      BY <1>3, <1>t, <2>3 DEF RcClone, Cmd, RcTyped
    <3>2. /\ r \in RcRuns /\ r.at = "asking" /\ r.met = Cmd(c).met
          /\ r.attempt = Cmd(c).attempt /\ r.conn = redis_conn.cache
      BY <1>n, <1>m DEF RcRuns
    <3> HIDE DEF r
    <3>3. redis_conn.cache \in 1..redis_conn.dialled
      BY <1>n, <1>t, <2>3 DEF NoSocket
    <3>4. RcSound(r, redis_conn.cache, redis_conn.dialled)
      BY <1>s, <2>1, <3>2, <3>3 DEF RcSound
    <3>5. \A d \in Command : d # c => RcApart(r, Cmd(d)) /\ RcApart(Cmd(d), r)
      BY <1>a, <1>s, <2>1, <3>2 DEF RcApart, RcSound
    <3> QED
      BY <1>k, <3>1, <3>2, <3>4, <3>5
  <2> QED
    BY <2>2, <2>3
<1>4. ASSUME NEW c \in Command, RcDialled(c) PROVE RcIInv'
  <2> DEFINE r == [Cmd(c) EXCEPT !.at = "dialled", !.conn = NewSocket]
             n == NewSocket
  <2>1. Cmd(c).at = "dialling"
        /\ redis_conn' = [redis_conn EXCEPT !.cmd[c] = r, !.dialled = n,
                                            !.alive = redis_conn.alive \cup {n}]
    BY <1>4, <1>t DEF RcDialled, Cmd, RcTyped
  <2>2. n \in Nat /\ n = redis_conn.dialled + 1
    BY <1>n DEF NewSocket
  <2>3. /\ r \in RcRuns /\ r.at = "dialled" /\ r.met = Cmd(c).met
        /\ r.attempt = Cmd(c).attempt /\ r.conn = n
    BY <1>n, <1>m, <2>2 DEF RcRuns
  <2> HIDE DEF r, n
  <2>4. RcTyped'
    BY <1>t, <2>1, <2>2, <2>3 DEF RcTyped
  <2>5. /\ redis_conn'.cmd = [redis_conn.cmd EXCEPT ![c] = r]
        /\ redis_conn'.cache = redis_conn.cache /\ redis_conn'.dialled = n
    BY <1>t, <2>1 DEF RcTyped
  <2>6. /\ redis_conn.cache <= n /\ redis_conn.cache # n
        /\ 1..redis_conn.dialled \subseteq 1..n /\ n \in 1..n /\ n \notin 1..redis_conn.dialled
    BY <1>n, <1>t, <2>2
  <2>7. RcSound(r, redis_conn.cache, n)
    BY <1>s, <2>1, <2>3, <2>6 DEF RcSound
  <2>8. ASSUME NEW d \in Command, d # c
        PROVE  /\ RcSound(Cmd(d), redis_conn.cache, n)
               /\ RcApart(r, Cmd(d)) /\ RcApart(Cmd(d), r)
    BY <1>s, <1>a, <2>1, <2>3, <2>6, <2>8 DEF RcSound, RcApart
  <2> QED
    BY <2>4, <2>5, <2>6, <2>7, <2>8, RcTurn
<1>5. ASSUME NEW c \in Command, RcRefused(c) PROVE RcIInv'
  <2> DEFINE r == [Cmd(c) EXCEPT !.at = "failed", !.refused = TRUE]
  <2>1. Cmd(c).at = "dialling" /\ redis_conn' = [redis_conn EXCEPT !.cmd[c] = r]
    BY <1>5, <1>t DEF RcRefused, Cmd, RcTyped
  <2>2. /\ r \in RcRuns /\ r.at = "failed" /\ r.met = Cmd(c).met
        /\ r.attempt = Cmd(c).attempt /\ r.refused
    BY <1>n, <1>m DEF RcRuns
  <2> HIDE DEF r
  <2>3. RcSound(r, redis_conn.cache, redis_conn.dialled)
    BY <1>s, <2>1, <2>2 DEF RcSound
  <2>4. \A d \in Command : d # c => RcApart(r, Cmd(d)) /\ RcApart(Cmd(d), r)
    BY <1>a, <2>1, <2>2 DEF RcApart
  <2> QED
    BY <1>k, <2>1, <2>2, <2>3, <2>4
<1>6. ASSUME NEW c \in Command, RcShare(c) PROVE RcIInv'
  <2> DEFINE k == Shared(c)
             r == [Cmd(c) EXCEPT !.at = "asking", !.conn = k]
  <2>1. Cmd(c).at = "dialled" /\ redis_conn' = [redis_conn EXCEPT !.cmd[c] = r, !.cache = k]
    BY <1>6, <1>t DEF RcShare, Cmd, RcTyped
  <2>2. /\ Cmd(c).conn \in 1..redis_conn.dialled /\ Cmd(c).conn \notin Cmd(c).met
        /\ redis_conn.cache \notin Cmd(c).met
    BY <1>s, <2>1 DEF RcSound
  <2>3. /\ k \in 1..redis_conn.dialled /\ k \notin Cmd(c).met
        /\ k = Cmd(c).conn \/ (k = redis_conn.cache /\ redis_conn.cache # NoSocket)
    BY <1>n, <1>t, <2>2 DEF Shared, NoSocket
  <2>4. k \in Nat
    BY <1>n, <2>3
  <2>5. /\ r \in RcRuns /\ r.at = "asking" /\ r.met = Cmd(c).met
        /\ r.attempt = Cmd(c).attempt /\ r.conn = k
    BY <1>n, <1>m, <2>4 DEF RcRuns
  <2> HIDE DEF r, k
  <2>6. RcTyped'
    BY <1>t, <2>1, <2>4, <2>5 DEF RcTyped
  <2>7. /\ redis_conn'.cmd = [redis_conn.cmd EXCEPT ![c] = r]
        /\ redis_conn'.cache = k /\ redis_conn'.dialled = redis_conn.dialled
    BY <1>t, <2>1 DEF RcTyped
  <2>8. RcSound(r, k, redis_conn.dialled)
    BY <1>s, <2>1, <2>3, <2>5 DEF RcSound
  <2>9. ASSUME NEW d \in Command, d # c
        PROVE  /\ RcSound(Cmd(d), k, redis_conn.dialled)
               /\ RcApart(r, Cmd(d)) /\ RcApart(Cmd(d), r)
    <3>1. RcSound(Cmd(d), redis_conn.cache, redis_conn.dialled)
      BY <1>s
    <3>2. RcApart(Cmd(c), Cmd(d)) /\ RcApart(Cmd(d), Cmd(c))
      BY <1>a, <2>9
    <3>3. Cmd(d).at = "dialled" => k # Cmd(d).conn
      BY <2>1, <2>3, <3>1, <3>2 DEF RcSound, RcApart
    <3>4. Cmd(d).at \in {"connecting", "dialling", "dialled"} => k \notin Cmd(d).met
      BY <2>1, <2>3, <3>1, <3>2 DEF RcSound, RcApart
    <3> QED
      BY <2>5, <3>1, <3>2, <3>3, <3>4 DEF RcSound, RcApart
  <2>10. k <= redis_conn.dialled
    BY <1>n, <2>3
  <2> QED
    BY <2>6, <2>7, <2>8, <2>9, <2>10, RcTurn
<1>7. ASSUME NEW c \in Command, RcBroken(c) PROVE RcIInv'
  <2> DEFINE again == Cmd(c).attempt = 0
             x == Cmd(c).conn
             p == IF again THEN "connecting" ELSE "failed"
             k == IF again THEN NoSocket ELSE redis_conn.cache
             r == [Cmd(c) EXCEPT !.met = Cmd(c).met \cup {x}, !.attempt = 1,
                                 !.conn = NoSocket, !.at = p]
  <2>1. Cmd(c).at = "asking" /\ redis_conn' = [redis_conn EXCEPT !.cmd[c] = r, !.cache = k]
    BY <1>7 DEF RcBroken, Cmd, EmptiedCache
  <2>2. RcSound(Cmd(c), redis_conn.cache, redis_conn.dialled)
    BY <1>s
  <2>3. x \in 1..redis_conn.dialled /\ x \notin Cmd(c).met
    BY <2>1, <2>2 DEF RcSound
  <2>4. p \in RcPlaces /\ Cmd(c).met \cup {x} \in SUBSET Nat /\ NoSocket \in Nat /\ k \in Nat
        /\ k <= redis_conn.dialled
    BY <1>m, <1>n, <1>t, <2>3 DEF NoSocket
  <2>5. again => p = "connecting" /\ k = NoSocket /\ Cmd(c).met = {}
    BY <2>2 DEF RcSound
  <2>6. ~again => p = "failed" /\ k = redis_conn.cache /\ \E y : Cmd(c).met = {y}
    BY <1>n, <2>1, <2>2 DEF RcSound
  <2>7. ~again => Cardinality(Cmd(c).met \cup {x}) = 2
    <3>1. ASSUME NEW y, Cmd(c).met = {y} PROVE Cardinality({y} \cup {x}) = 2
      <4>1. x # y
        BY <2>3, <3>1
      <4> QED
        BY ONLY <4>1, TwoAre
    <3> QED
      BY <2>6, <3>1
  <2> HIDE DEF x, p, k, again
  <2>8. /\ r \in RcRuns /\ r.at = p /\ r.met = Cmd(c).met \cup {x} /\ r.attempt = 1
    BY <1>n, <1>m, <2>4 DEF RcRuns
  <2> HIDE DEF r
  <2>9. RcTyped'
    BY <1>t, <2>1, <2>4, <2>8 DEF RcTyped
  <2>10. /\ redis_conn'.cmd = [redis_conn.cmd EXCEPT ![c] = r]
         /\ redis_conn'.cache = k /\ redis_conn'.dialled = redis_conn.dialled
    BY <1>t, <2>1 DEF RcTyped
  <2>11. RcSound(r, k, redis_conn.dialled)
    <3>1. r.met \subseteq 1..redis_conn.dialled
      BY <2>2, <2>3, <2>8 DEF RcSound
    <3>2. CASE again
      <4>1. NoSocket \notin 1..redis_conn.dialled
        BY <1>n DEF NoSocket
      <4> QED
        BY <2>3, <2>5, <2>8, <3>1, <3>2, <4>1 DEF RcSound
    <3>3. CASE ~again
      BY <2>6, <2>7, <2>8, <3>1, <3>3 DEF RcSound
    <3> QED
      BY <3>2, <3>3
  <2>12. ASSUME NEW d \in Command, d # c
         PROVE  /\ RcSound(Cmd(d), k, redis_conn.dialled)
                /\ RcApart(r, Cmd(d)) /\ RcApart(Cmd(d), r)
    <3>1. RcSound(Cmd(d), redis_conn.cache, redis_conn.dialled)
      BY <1>s
    <3>2. RcApart(Cmd(d), Cmd(c))
      BY <1>a, <2>12
    <3>3. RcSound(Cmd(d), k, redis_conn.dialled)
      <4>1. NoSocket \notin 1..redis_conn.dialled
        BY <1>n DEF NoSocket
      <4> QED
        BY <2>5, <2>6, <3>1, <4>1 DEF RcSound
    <3>4. r.at \in {"connecting", "failed"}
      BY <2>5, <2>6, <2>8
    <3> QED
      BY <2>1, <2>8, <3>2, <3>3, <3>4 DEF RcApart, x
  <2> QED
    BY <2>4, <2>9, <2>10, <2>11, <2>12, RcTurn
<1>8. CASE RcDown \/ RcUp
  <2>1. PICK u \in BOOLEAN, a \in SUBSET Nat :
          redis_conn' = [redis_conn EXCEPT !.up = u, !.alive = a]
    <3>1. CASE RcDown
      BY <3>1 DEF RcDown
    <3>2. CASE RcUp
      <4>1. redis_conn' = [redis_conn EXCEPT !.up = TRUE, !.alive = redis_conn.alive]
            /\ redis_conn.alive \in SUBSET Nat
        BY <1>t, <3>2 DEF RcUp, RcTyped
      <4> QED
        BY <4>1
    <3> QED
      BY <1>8, <3>1, <3>2
  <2>2. RcTyped'
    BY <1>t, <2>1 DEF RcTyped
  <2>3. /\ redis_conn'.cmd = redis_conn.cmd /\ redis_conn'.cache = redis_conn.cache
        /\ redis_conn'.dialled = redis_conn.dialled
    BY <1>t, <2>1 DEF RcTyped
  <2> QED
    BY <1>t, <1>s, <1>a, <2>2, <2>3 DEF RcIInv, RcSound, RcApart, Cmd
<1>9. CASE UNCHANGED redis_conn
  BY <1>t, <1>s, <1>a, <1>9 DEF RcIInv, RcTyped, RcSound, RcApart, Cmd
<1> QED
  BY <1>1, <1>2, <1>3, <1>4, <1>5, <1>6, <1>7, <1>8, <1>9 DEF RcNext

\* However many commands share the cached connection, one of them fails only because
\* the server refused to be dialled, or after two different broken sockets: no
\* command ever meets the same dead socket twice.
THEOREM RedisGivesUpForCause == RcSpec => []GivesUpForCause
<1>1. RcIInv => GivesUpForCause
  BY DEF RcIInv, RcSound, GivesUpForCause
<1> QED
  BY <1>1, RcStarts, RcSteps, PTL DEF RcSpec

-----------------------------------------------------------------------------
(* Startup: what a start binds, secures and runs.                           *)

StSpec == StInit /\ [][StNext]_boot

StFields ==
  {"at", "cfg", "binds", "calls", "feature", "taken", "cert", "shape", "workers", "addrs",
   "bound", "loops", "took", "err"}

StAlone(b) == b.shape \in {"one", "given"}
StWhole(b) == b.shape # "reuseport"
StRunning(b) == DOMAIN b.loops # {}
StAny(b, state) == \E k \in DOMAIN b.loops : b.loops[k] = state
StSecure(b) == b.cfg.tls # "none" => b.feature /\ b.shape # "unix"
StLoads(b) == b.cfg.tls # "none" => b.cert = "good"

\* Until everything is bound nothing runs, outside of SO_REUSEPORT; what runs may,
\* and where there is one accept loop only, its failure is the start's.
StSound(b) ==
  /\ DOMAIN b = StFields /\ b.cert \in {"good", "bad"}
  /\ b.at \in {"rest", "building"} => ~b.took /\ ~StRunning(b)
  /\ b.at \notin {"rest", "building"} =>
       b.shape \in {"one", "many", "given", "unix", "central", "reuseport"}
  /\ b.at = "starting" => StSecure(b) /\ (StWhole(b) => ~b.took /\ ~StRunning(b))
  /\ b.at = "starting" /\ StAlone(b) => Len(b.addrs) = 1
  /\ StRunning(b) => StSecure(b)
  /\ StRunning(b) /\ b.shape = "central" => StLoads(b)
  /\ StRunning(b) /\ StWhole(b) => Len(b.bound) = Len(b.addrs)
  /\ b.took => StSecure(b) /\ StLoads(b)
  /\ b.took /\ StWhole(b) => Len(b.bound) = Len(b.addrs)
  /\ StAlone(b) => \A k, j \in DOMAIN b.loops : k = j
  /\ StAlone(b) /\ b.took => ~StAny(b, "spawned")
  /\ StAlone(b) /\ StAny(b, "failed") => b.at = "refused"
  /\ b.shape \in {"central", "unix"} => ~StAny(b, "failed")
  /\ b.at = "refused" /\ StWhole(b) => ~b.took /\ ~StAny(b, "spawned")
  /\ b.at = "returned" => ~StAny(b, "spawned")
  /\ b.at = "returned" /\ ~b.err /\ StWhole(b) => ~StAny(b, "failed")

StIInv == StSound(boot)

\* A process that has not started anything is sound.
LEMMA StIdles == StSound(BootRest)
<1>1. /\ BootRest.at = "rest" /\ ~BootRest.took /\ BootRest.loops = <<>>
      /\ BootRest.cert = "good" /\ DOMAIN BootRest = StFields
  BY DEF BootRest, StFields
<1>2. ~StRunning(BootRest) /\ \A s : ~StAny(BootRest, s)
  BY <1>1 DEF StRunning, StAny
<1>3. \A k \in DOMAIN BootRest.loops : FALSE
  BY <1>1
<1> HIDE DEF BootRest
<1> QED
  BY <1>1, <1>2, <1>3 DEF StSound

\* Where no loop runs, none is in any state.
LEMMA StNoLoops == ASSUME NEW b, ~StRunning(b) PROVE \A s : ~StAny(b, s)
BY DEF StRunning, StAny

\* One accept loop goes to another state.
LEMMA StLoopGoes ==
  ASSUME NEW b, NEW c, NEW k \in DOMAIN b.loops, NEW s,
         c.loops = [b.loops EXCEPT ![k] = s]
  PROVE  /\ DOMAIN c.loops = DOMAIN b.loops /\ StRunning(b) /\ StRunning(c)
         /\ c.loops[k] = s /\ \A j \in DOMAIN b.loops : j # k => c.loops[j] = b.loops[j]
         /\ \A t : t # s /\ ~StAny(b, t) => ~StAny(c, t)
BY DEF StRunning, StAny

\* A start that is refused with no loop running is sound.
LEMMA StRefusedIs ==
  ASSUME NEW b, NEW c, DOMAIN c = StFields, c.cert \in {"good", "bad"},
         c.at = "refused", ~c.took, ~StRunning(c),
         c.shape \in {"one", "many", "given", "unix", "central", "reuseport"}
  PROVE  StSound(c)
<1>1. \A s : ~StAny(c, s)
  BY StNoLoops
<1>2. \A k \in DOMAIN c.loops : FALSE
  BY DEF StRunning
<1> QED
  BY <1>1, <1>2 DEF StSound

\* Every step of the configuration, the binding and the loops keeps the invariant.
LEMMA StSteps == StIInv /\ [StNext]_boot => StIInv'
<1> SUFFICES ASSUME StSound(boot), [StNext]_boot PROVE StSound(boot')
  BY DEF StIInv, StSound, StRunning, StAny, StSecure, StLoads, StWhole, StAlone
<1>d. /\ DOMAIN boot = StFields /\ boot.cert \in {"good", "bad"}
  BY DEF StSound
<1>1. ASSUME \/ \E feature \in BOOLEAN, taken \in StTaken, cert \in {"good", "bad"} :
                  Server(feature, taken, cert)
             \/ \E file \in StFiles, env \in StEnvs : WithConfig(file, env)
             \/ \E layer \in StCalls : SetInCode(layer)
             \/ \E addr \in StBinds : AddBind(addr)
      PROVE  StSound(boot')
  <2>1. /\ boot.at \in {"rest", "building"} /\ boot'.at = "building" /\ DOMAIN boot' = StFields
        /\ boot'.cert \in {"good", "bad"} /\ boot'.took = boot.took /\ boot'.loops = boot.loops
    <3>1. CASE \E feature \in BOOLEAN, taken \in StTaken, cert \in {"good", "bad"} :
                 Server(feature, taken, cert)
      BY <1>d, <3>1 DEF Server, StFields
    <3>2. CASE \E file \in StFiles, env \in StEnvs : WithConfig(file, env)
      BY <1>d, <3>2 DEF WithConfig, Says, StFields
    <3>3. CASE \E layer \in StCalls : SetInCode(layer)
      BY <1>d, <3>3 DEF SetInCode, Says, StFields
    <3>4. CASE \E addr \in StBinds : AddBind(addr)
      BY <1>d, <3>4 DEF AddBind, Says, StFields
    <3> QED
      BY <1>1, <3>1, <3>2, <3>3, <3>4
  <2>2. ~boot'.took /\ ~StRunning(boot')
    BY <2>1 DEF StSound, StRunning
  <2>3. (\A s : ~StAny(boot', s)) /\ (\A k \in DOMAIN boot'.loops : FALSE)
    BY <2>2, StNoLoops DEF StRunning
  <2> QED
    BY <2>1, <2>2, <2>3 DEF StSound
<1>2. ASSUME NEW shape \in {"one", "many", "given", "unix", "central", "reuseport"},
             NEW workers, NEW addrs, NEW bound, Enter(shape, workers, addrs, bound),
             shape \in {"one", "given"} => Len(addrs) = 1
      PROVE  StSound(boot')
  <2>1. boot.at = "building" /\ ~boot.took /\ ~StRunning(boot)
    BY <1>2 DEF Enter, StSound
  <2>2. CASE RefuseTls(shape) \/ \E k \in DOMAIN addrs : ~Parses(addrs[k])
    <3>1. boot' = [[boot EXCEPT !.at = "refused", !.err = TRUE] EXCEPT !.shape = shape]
      BY <1>2, <2>2 DEF Enter, Refused
    <3>2. /\ boot'.at = "refused" /\ boot'.shape = shape /\ DOMAIN boot' = StFields
          /\ boot'.cert = boot.cert /\ boot'.took = boot.took /\ boot'.loops = boot.loops
      BY <1>d, <3>1 DEF StFields
    <3>3. ~boot'.took /\ ~StRunning(boot')
      BY <2>1, <3>2 DEF StRunning
    <3> QED
      BY <1>d, <3>2, <3>3, StRefusedIs
  <2>3. CASE ~(RefuseTls(shape) \/ \E k \in DOMAIN addrs : ~Parses(addrs[k]))
    <3>1. boot' = [boot EXCEPT !.at = "starting", !.shape = shape, !.workers = workers,
                               !.addrs = addrs, !.bound = bound, !.binds = <<>>, !.calls = 0]
      BY <1>2, <2>3 DEF Enter
    <3>2. /\ boot'.at = "starting" /\ boot'.shape = shape /\ DOMAIN boot' = StFields
          /\ boot'.cert = boot.cert /\ boot'.took = boot.took /\ boot'.loops = boot.loops
          /\ boot'.cfg = boot.cfg /\ boot'.feature = boot.feature /\ boot'.addrs = addrs
      BY <1>d, <3>1 DEF StFields
    <3>3. StSecure(boot')
      BY <2>3, <3>2 DEF StSecure, RefuseTls, TlsConfigured
    <3>4. ~boot'.took /\ ~StRunning(boot')
      BY <2>1, <3>2 DEF StRunning
    <3>5. (\A s : ~StAny(boot', s)) /\ (\A k \in DOMAIN boot'.loops : FALSE)
      BY <3>4, StNoLoops DEF StRunning
    <3> QED
      BY <1>2, <1>d, <3>2, <3>3, <3>4, <3>5 DEF StSound, StAlone
  <2> QED
    BY <2>2, <2>3
<1>3. CASE StartTcp
  <2> DEFINE shape == IF Len(BindAddrs) = 1 THEN "one" ELSE "many"
  <2>1. Enter(shape, 1, BindAddrs, <<>>)
    BY <1>3 DEF StartTcp
  <2>2. shape \in {"one", "many"} /\ (shape = "one" => Len(BindAddrs) = 1)
    OBVIOUS
  <2> HIDE DEF shape
  <2> QED
    BY <1>2, <2>1, <2>2
<1>4. CASE StartOn
  <2>1. Enter("given", 1, <<HandedOver>>, <<HandedOver>>) /\ Len(<<HandedOver>>) = 1
    BY <1>4 DEF StartOn
  <2> QED
    BY <1>2, <2>1
<1>5. CASE StartUnix
  BY <1>2, <1>5 DEF StartUnix
<1>6. ASSUME NEW workers \in StWorkers, NEW linux \in BOOLEAN, RunSharded(workers, linux)
      PROVE  StSound(boot')
  <2>1. PICK shape \in {"central", "reuseport"} : Enter(shape, workers, BindAddrs, <<>>)
    BY <1>6 DEF RunSharded
  <2> QED
    BY <1>2, <2>1
\* A refusal before anything runs, or under SO_REUSEPORT.
<1>r. ASSUME boot.at = "starting", boot' = Refused PROVE StSound(boot')
  <2>1. /\ boot'.at = "refused" /\ boot'.shape = boot.shape /\ DOMAIN boot' = StFields
        /\ boot'.cert = boot.cert /\ boot'.took = boot.took /\ boot'.loops = boot.loops
        /\ boot'.cfg = boot.cfg /\ boot'.feature = boot.feature
    BY <1>d, <1>r DEF StFields, Refused
  <2>2. boot.shape \in {"one", "many", "given", "unix", "central", "reuseport"}
    BY <1>r DEF StSound
  <2>3. CASE StWhole(boot)
    <3>1. ~boot'.took /\ ~StRunning(boot')
      BY <1>r, <2>1, <2>3 DEF StSound, StRunning
    <3> QED
      BY <1>d, <2>1, <2>2, <3>1, StRefusedIs
  <2>4. CASE ~StWhole(boot)
    BY <1>d, <1>r, <2>1, <2>2, <2>4
    DEF StSound, StWhole, StAlone, StRunning, StSecure, StLoads
  <2> QED
    BY <2>3, <2>4
<1>7. CASE BindNext
  <2> DEFINE addr == boot.addrs[Len(boot.bound) + 1]
             more == IF boot.shape = "reuseport" THEN boot.loops \o Spawned(boot.workers)
                     ELSE boot.loops
  <2>1. CASE ~Binds(addr)
    BY <1>7, <1>r, <2>1 DEF BindNext
  <2>2. CASE Binds(addr)
    <3>1. boot.at = "starting"
          /\ boot' = [boot EXCEPT !.bound = Append(boot.bound, addr), !.loops = more]
      BY <1>7, <2>2 DEF BindNext
    <3>2. boot.shape # "reuseport" => more = boot.loops
      OBVIOUS
    <3> HIDE DEF more, addr
    <3>3. /\ boot'.at = "starting" /\ boot'.shape = boot.shape /\ DOMAIN boot' = StFields
          /\ boot'.cert = boot.cert /\ boot'.took = boot.took /\ boot'.loops = more
          /\ boot'.cfg = boot.cfg /\ boot'.feature = boot.feature /\ boot'.addrs = boot.addrs
      BY <1>d, <3>1 DEF StFields
    <3>4. StSecure(boot') /\ (boot'.took => StLoads(boot'))
      BY <3>1, <3>3 DEF StSound, StSecure, StLoads
    <3>5. CASE StWhole(boot)
      <4>1. ~boot'.took /\ ~StRunning(boot') /\ StWhole(boot')
        BY <3>1, <3>2, <3>3, <3>5 DEF StSound, StRunning, StWhole
      <4>2. (\A s : ~StAny(boot', s)) /\ (\A k \in DOMAIN boot'.loops : FALSE)
        BY <4>1, StNoLoops DEF StRunning
      <4> QED
        BY <1>d, <3>1, <3>3, <3>4, <4>1, <4>2 DEF StSound, StAlone
    <3>6. CASE ~StWhole(boot)
      BY <1>d, <3>1, <3>3, <3>4, <3>6 DEF StSound, StWhole, StAlone
    <3> QED
      BY <3>5, <3>6
  <2> QED
    BY <2>1, <2>2
<1>8. CASE ThreadFails
  BY <1>8, <1>r DEF ThreadFails
<1>9. CASE Launch
  <2>1. CASE boot.shape = "central" /\ Unloadable
    BY <1>9, <1>r, <2>1 DEF Launch
  <2>2. CASE ~(boot.shape = "central" /\ Unloadable)
    <3> DEFINE all == IF boot.shape = "reuseport" THEN boot.loops ELSE Spawned(Len(boot.addrs))
    <3>1. /\ boot.at = "starting" /\ Ready
          /\ boot' = [boot EXCEPT !.at = "serving", !.loops = all]
      BY <1>9, <2>2 DEF Launch
    <3>2. boot.shape = "reuseport" => all = boot.loops
      OBVIOUS
    <3>3. boot.shape # "reuseport" =>
            DOMAIN all = 1..Len(boot.addrs) /\ \A k \in DOMAIN all : all[k] = "spawned"
      BY DEF Spawned
    <3> HIDE DEF all
    <3>4. /\ boot'.at = "serving" /\ boot'.shape = boot.shape /\ DOMAIN boot' = StFields
          /\ boot'.cert = boot.cert /\ boot'.took = boot.took /\ boot'.loops = all
          /\ boot'.cfg = boot.cfg /\ boot'.feature = boot.feature /\ boot'.addrs = boot.addrs
          /\ boot'.bound = boot.bound
      BY <1>d, <3>1 DEF StFields
    <3>5. StSecure(boot') /\ (boot'.shape = "central" => StLoads(boot'))
      BY <1>d, <2>2, <3>1, <3>4 DEF StSound, StSecure, StLoads, Unloadable, TlsConfigured
    <3>6. Len(boot'.bound) = Len(boot'.addrs)
      BY <3>1, <3>4 DEF Ready
    <3>7. CASE StWhole(boot)
      <4>1. ~boot'.took
        BY <3>1, <3>4, <3>7 DEF StSound
      <4>2. ~StAny(boot', "failed")
        BY <3>3, <3>4, <3>7 DEF StAny, StWhole
      <4>3. StAlone(boot') => \A k, j \in DOMAIN boot'.loops : k = j
        BY <3>1, <3>3, <3>4, <3>7 DEF StSound, StAlone, StWhole
      <4>4. boot.shape \in {"one", "many", "given", "unix", "central", "reuseport"}
        BY <3>1 DEF StSound
      <4> QED
        BY <1>d, <3>4, <3>5, <3>6, <4>1, <4>2, <4>3, <4>4 DEF StSound
    <3>8. CASE ~StWhole(boot)
      BY <1>d, <3>1, <3>2, <3>4, <3>5, <3>6, <3>8
      DEF StSound, StWhole, StAlone, StRunning, StSecure, StLoads
    <3> QED
      BY <3>7, <3>8
  <2> QED
    BY <2>1, <2>2
\* The k-th accept loop goes to a state, and the rest stays.
<1>l. ASSUME NEW k \in DOMAIN boot.loops, NEW s,
             boot'.loops = [boot.loops EXCEPT ![k] = s], DOMAIN boot' = StFields,
             boot'.cert = boot.cert, boot'.shape = boot.shape, boot'.cfg = boot.cfg,
             boot'.feature = boot.feature, boot'.addrs = boot.addrs, boot'.bound = boot.bound,
             boot'.err = boot.err, boot'.at = boot.at, boot'.took = boot.took,
             s \in {"gone", "stopped"} \/ (s = "failed" /\ boot.shape \in {"many", "reuseport"}),
             s = "failed" => boot.at # "returned"
      PROVE  StSound(boot')
  <2>1. /\ DOMAIN boot'.loops = DOMAIN boot.loops /\ StRunning(boot) /\ StRunning(boot')
        /\ \A t : t # s /\ ~StAny(boot, t) => ~StAny(boot', t)
    BY <1>l, StLoopGoes
  <2>2. StSecure(boot') <=> StSecure(boot)
    BY <1>l DEF StSecure
  <2>3. StLoads(boot') <=> StLoads(boot)
    BY <1>l DEF StLoads
  <2>4. (StWhole(boot') <=> StWhole(boot)) /\ (StAlone(boot') <=> StAlone(boot))
    BY <1>l DEF StWhole, StAlone
  <2>5. s # "spawned" /\ (StAny(boot', "failed") => StAny(boot, "failed") \/ s = "failed")
    BY <1>l, <2>1
  <2>6. s = "failed" => boot.shape \in {"many", "reuseport"}
    BY <1>l
  <2>7. s = "failed" => ~StAlone(boot) /\ boot.shape \notin {"central", "unix"}
    BY <2>6 DEF StAlone
  <2> QED
    BY <1>d, <1>l, <2>1, <2>2, <2>3, <2>4, <2>5, <2>7 DEF StSound
<1>10. ASSUME NEW k \in DOMAIN boot.loops, LoopStarts(k) PROVE StSound(boot')
  <2>1. /\ boot.loops[k] = "spawned" /\ StAny(boot, "spawned") /\ StRunning(boot)
        /\ boot.at # "returned" /\ (boot.at = "refused" => ~StWhole(boot))
    BY <1>10 DEF LoopStarts, LoopAt, StAny, StRunning, StSound
  <2>2. boot.shape \in {"one", "many", "given", "unix", "central", "reuseport"} /\ StSecure(boot)
    BY <2>1 DEF StSound
  <2>3. CASE boot.shape \in {"central", "unix"} \/ ~Unloadable
    <3>1. boot' = [[boot EXCEPT !.loops[k] = "accepting"] EXCEPT !.took = TRUE]
      BY <1>10, <2>3 DEF LoopStarts, LoopTo
    <3>2. /\ boot'.loops = [boot.loops EXCEPT ![k] = "accepting"] /\ DOMAIN boot' = StFields
          /\ boot'.cert = boot.cert /\ boot'.shape = boot.shape /\ boot'.cfg = boot.cfg
          /\ boot'.feature = boot.feature /\ boot'.addrs = boot.addrs
          /\ boot'.bound = boot.bound /\ boot'.err = boot.err /\ boot'.at = boot.at
      BY <1>d, <3>1 DEF StFields
    <3>3. /\ DOMAIN boot'.loops = DOMAIN boot.loops /\ StRunning(boot')
          /\ boot'.loops[k] = "accepting"
          /\ \A t : t # "accepting" /\ ~StAny(boot, t) => ~StAny(boot', t)
      <4>1. boot'.loops = [boot.loops EXCEPT ![k] = "accepting"]
        BY <3>2
      <4> QED
        BY ONLY <4>1, StLoopGoes, k \in DOMAIN boot.loops
    <3>4. StSecure(boot') /\ StLoads(boot')
      BY <1>d, <2>1, <2>2, <2>3, <3>2
      DEF StSound, StSecure, StLoads, Unloadable, TlsConfigured
    <3>5. (StWhole(boot') <=> StWhole(boot)) /\ (StAlone(boot') <=> StAlone(boot))
      BY <3>2 DEF StWhole, StAlone
    <3>6. StAlone(boot) => ~StAny(boot', "spawned")
      BY <3>3 DEF StSound, StAny
    <3>7. StWhole(boot) => boot.at \notin {"rest", "building", "starting", "refused"}
      BY <2>1 DEF StSound
    <3>8. boot.at \notin {"rest", "building"}
      BY <2>1 DEF StSound
    <3> QED
      BY <1>d, <2>1, <3>2, <3>3, <3>4, <3>5, <3>6, <3>7, <3>8 DEF StSound
  <2>4. CASE boot.shape \in {"one", "given"} /\ Unloadable
    <3>1. boot' = [[boot EXCEPT !.loops[k] = "failed"] EXCEPT !.at = "refused", !.err = TRUE]
      BY <1>10, <2>4 DEF LoopStarts, LoopTo
    <3>2. /\ boot'.loops = [boot.loops EXCEPT ![k] = "failed"] /\ DOMAIN boot' = StFields
          /\ boot'.cert = boot.cert /\ boot'.shape = boot.shape /\ boot'.cfg = boot.cfg
          /\ boot'.feature = boot.feature /\ boot'.addrs = boot.addrs
          /\ boot'.bound = boot.bound /\ boot'.at = "refused" /\ boot'.took = boot.took
      BY <1>d, <3>1 DEF StFields
    <3>3. DOMAIN boot'.loops = DOMAIN boot.loops /\ boot'.loops[k] = "failed"
      BY <3>2, StLoopGoes
    <3>4. StAlone(boot) /\ StAlone(boot') /\ StWhole(boot) /\ StWhole(boot') /\ ~boot.took
      BY <2>1, <2>4, <3>2 DEF StAlone, StWhole, StSound
    <3>5. ~StAny(boot', "spawned")
      BY <3>3, <3>4 DEF StSound, StAny
    <3>6. StSecure(boot')
      BY <2>2, <3>2 DEF StSecure
    <3>7. Len(boot'.bound) = Len(boot'.addrs)
      BY <2>1, <3>2, <3>4 DEF StSound
    <3> QED
      BY <1>d, <2>4, <3>2, <3>3, <3>4, <3>5, <3>6, <3>7 DEF StSound
  <2>5. CASE boot.shape \in {"many", "reuseport"} /\ Unloadable
    <3>1. boot' = [boot EXCEPT !.loops[k] = "failed"]
      BY <1>10, <2>5 DEF LoopStarts, LoopTo
    <3>2. /\ boot'.loops = [boot.loops EXCEPT ![k] = "failed"] /\ DOMAIN boot' = StFields
          /\ boot'.cert = boot.cert /\ boot'.shape = boot.shape /\ boot'.cfg = boot.cfg
          /\ boot'.feature = boot.feature /\ boot'.addrs = boot.addrs
          /\ boot'.bound = boot.bound /\ boot'.at = boot.at /\ boot'.took = boot.took
          /\ boot'.err = boot.err
      BY <1>d, <3>1 DEF StFields
    <3> QED
      BY <1>l, <2>1, <2>5, <3>2
  <2> QED
    BY <2>2, <2>3, <2>4, <2>5
<1>11. ASSUME NEW k \in DOMAIN boot.loops, LoopLost(k) \/ LoopStops(k) PROVE StSound(boot')
  <2>1. PICK s \in {"gone", "stopped"} : boot' = [boot EXCEPT !.loops[k] = s]
    BY <1>11 DEF LoopLost, LoopStops, LoopTo
  <2>2. /\ boot'.loops = [boot.loops EXCEPT ![k] = s] /\ DOMAIN boot' = StFields
        /\ boot'.cert = boot.cert /\ boot'.shape = boot.shape /\ boot'.cfg = boot.cfg
        /\ boot'.feature = boot.feature /\ boot'.addrs = boot.addrs
        /\ boot'.bound = boot.bound /\ boot'.at = boot.at /\ boot'.took = boot.took
        /\ boot'.err = boot.err
    BY <1>d, <2>1 DEF StFields
  <2> QED
    BY <1>l, <2>2
<1>12. CASE ShutdownComes \/ EngineReturns
  <2>1. /\ boot'.loops = boot.loops /\ DOMAIN boot' = StFields
        /\ boot'.cert = boot.cert /\ boot'.shape = boot.shape /\ boot'.cfg = boot.cfg
        /\ boot'.feature = boot.feature /\ boot'.addrs = boot.addrs
        /\ boot'.bound = boot.bound /\ boot'.took = boot.took
        /\ boot'.at \in {"stopping", "returned"}
    BY <1>12, <1>d DEF ShutdownComes, EngineReturns, StFields
  <2>2. boot.at \in {"serving", "stopping"}
    BY <1>12 DEF ShutdownComes, EngineReturns
  <2>3. boot'.at = "returned" =>
          /\ ~StAny(boot, "spawned")
          /\ boot'.err <=> boot.shape = "many" /\ StAny(boot, "failed")
    BY <1>12, <1>d DEF ShutdownComes, EngineReturns, StFields, AllEnded, LoopAt, StAny
  <2>4. /\ StSecure(boot') <=> StSecure(boot)
        /\ StLoads(boot') <=> StLoads(boot)
        /\ StWhole(boot') <=> StWhole(boot)
        /\ StAlone(boot') <=> StAlone(boot)
        /\ StRunning(boot') <=> StRunning(boot)
        /\ \A s : StAny(boot', s) <=> StAny(boot, s)
    BY <2>1 DEF StSecure, StLoads, StWhole, StAlone, StRunning, StAny
  <2>5. boot.shape \in {"many", "central", "unix", "reuseport"} \/ StAlone(boot)
    BY <2>2 DEF StSound, StAlone
  <2>6. boot'.at = "returned" /\ ~boot'.err /\ StWhole(boot) => ~StAny(boot, "failed")
    BY <2>2, <2>3, <2>5 DEF StSound, StWhole
  <2> QED
    BY <1>d, <2>1, <2>2, <2>3, <2>4, <2>6 DEF StSound
<1>13. CASE StartForgotten
  BY <1>13, StIdles DEF StartForgotten
<1>14. CASE UNCHANGED boot
  BY <1>14
<1> QED
  BY <1>1, <1>3, <1>4, <1>5, <1>6, <1>7, <1>8, <1>9, <1>10, <1>11, <1>12, <1>13, <1>14
  DEF StNext

\* For any files, environment, calls and addresses, and outside of SO_REUSEPORT:
\* nothing accepts before every address is bound, a start that is refused has
\* accepted nothing, and no listener's failure is kept quiet when the engine
\* returns.  And in every shape, whatever has a certificate configured accepts with
\* that certificate or not at all.
THEOREM StartsAreWhole == StSpec => []StartsWhole
<1>1. StInit => StIInv
  BY StIdles DEF StInit, StIInv
<1>2. StIInv => StartsWhole
  BY DEF StIInv, StSound, StartsWhole, StWhole, StAny, StSecure, StLoads, LoopAt, TlsConfigured
<1> QED
  BY <1>1, <1>2, StSteps, PTL DEF StSpec

-----------------------------------------------------------------------------
(* Client: redirects.                                                       *)

ClSpec == ClInit /\ [][ClNext]_fetch

ClPhases == {"idle", "ready", "waiting", "reading", "over"}
ClMethods == {"none", "GET", "HEAD", "POST"}
ClNames == Credentials \cup EntityHeaders
ClBodies == [length: Nat, codings: Seq(Codings), layers: Seq(Codings), applied: Seq(Codings)]
ClEnds == {"none", "ok", "request", "url", "timeout", "transport", "body", "tooManyRedirects",
           "bodyTooLarge", "decode"}
ClKinds ==
  [phase: ClPhases, uri: Uris \cup {NoUri}, asked: ClMethods, method: ClMethods, body: BOOLEAN,
   headers: SUBSET ClNames, defaults: SUBSET ClNames, stripped: SUBSET ClNames,
   inflate: BOOLEAN, sent: SUBSET ClNames, visited: Seq(Uris), got: ClBodies, end: ClEnds]

\* Nothing that is dropped comes back, and what is not dropped has stayed at home.
ClStripped(f) == Credentials \subseteq f.stripped
ClChain(f) ==
  /\ ClStripped(f) \/ \A k \in DOMAIN f.visited : SameOrigin(f.visited[k], f.visited[1])
  /\ ClStripped(f) => f.headers \cap Credentials = {}
  /\ f.method # f.asked =>
       ~f.body /\ EntityHeaders \subseteq f.stripped /\ f.headers \cap EntityHeaders = {}
  /\ \A k \in DOMAIN f.visited :
       k > 1 /\ f.visited[k - 1].scheme = "https" => f.visited[k].scheme = "https"

\* A target that is not asked yet.
ClAhead(f) ==
  /\ Len(f.visited) <= ClMaxRedirects /\ f.uri \in Uris
  /\ f.visited # <<>> =>
       /\ ClStripped(f) \/ SameOrigin(f.uri, f.visited[1])
       /\ f.visited[Len(f.visited)].scheme = "https" => f.uri.scheme # "http"

\* ... and one that is.
ClAsked(f) ==
  /\ Len(f.visited) \in 1..(ClMaxRedirects + 1) /\ f.uri = f.visited[Len(f.visited)]
  /\ f.sent = (f.defaults \ f.stripped) \cup f.headers

\* What a caller is given: described by its headers, or a stack that lost them.
ClDescribed(b) ==
  /\ b.length <= ClMaxBytes
  /\ b.codings # b.layers => b.codings = <<>> /\ Len(b.applied) > 1

ClRead(f) ==
  /\ f.phase # "over" => f.end = "none"
  /\ f.phase = "reading" => f.got.codings = f.got.applied /\ f.got.layers = f.got.applied
  /\ f.end = "ok" => ClDescribed(f.got)

ClSound(f) ==
  /\ f \in ClKinds /\ ClRead(f)
  /\ f.phase = "idle" => f.visited = <<>> /\ f.stripped = {}
  /\ f.phase \in {"ready", "waiting"} => ClChain(f)
  /\ f.phase = "ready" => ClAhead(f)
  /\ f.phase = "waiting" => ClAsked(f)

ClIInv == ClSound(fetch)

\* The phases, methods and headers that the steps name, and what describes a body.
LEMMA ClNamed ==
  /\ "idle" \in ClPhases /\ "ready" \in ClPhases /\ "waiting" \in ClPhases
  /\ "reading" \in ClPhases /\ "over" \in ClPhases
  /\ "none" \in ClMethods /\ "GET" \in ClMethods /\ "HEAD" \in ClMethods /\ "POST" \in ClMethods
  /\ Described \subseteq ClNames /\ Credentials \subseteq ClNames /\ EntityHeaders \subseteq ClNames
  /\ NoBody \in ClBodies
BY DEF ClPhases, ClMethods, ClNames, Described, Credentials, EntityHeaders, NoBody, ClBodies

\* A client that has not started claims nothing.
LEMMA ClIdles == ClSound(NotStarted)
<1>1. NotStarted \in ClKinds
  BY ClNamed DEF NotStarted, ClKinds, ClEnds
<1>2. NotStarted.phase = "idle" /\ NotStarted.end = "none"
      /\ NotStarted.visited = <<>> /\ NotStarted.stripped = {}
  BY DEF NotStarted
<1> HIDE DEF NotStarted
<1> QED
  BY <1>1, <1>2 DEF ClSound, ClRead

\* So does a request that fails where it is.
LEMMA ClFailsSoundly ==
  ASSUME NEW e \in ClEnds, e # "ok"
  PROVE  ClSound(ClFails(e))
<1>1. NotStarted \in ClKinds
  BY ClIdles DEF ClSound
<1> DEFINE f == [NotStarted EXCEPT !.phase = "over", !.end = e]
<1>2. f \in ClKinds
  BY <1>1, ClNamed DEF ClKinds
<1>3. f.phase = "over" /\ f.end = e
  BY <1>1 DEF ClKinds
<1>4. ClFails(e) = f
  BY DEF ClFails
<1> HIDE DEF f
<1> QED
  BY <1>2, <1>3, <1>4 DEF ClSound, ClRead

\* What a redirect makes of the request that it repeats.
LEMMA ClRepeats ==
  ASSUME NEW f \in ClKinds, ClChain(f), f.visited # <<>>, f.uri = f.visited[Len(f.visited)],
         NEW uri \in Uris, NEW flips \in BOOLEAN,
         NEW g, g = BecomeGet(LeaveOrigin(f, uri), flips)
  PROVE  /\ g \in ClKinds /\ ClChain(g) /\ g.visited = f.visited /\ g.phase = f.phase
         /\ g.end = f.end
         /\ ClStripped(g) \/ SameOrigin(uri, f.visited[1])
<1> DEFINE h == LeaveOrigin(f, uri)
<1>1. /\ h \in ClKinds /\ ClChain(h) /\ h.visited = f.visited /\ h.phase = f.phase
      /\ h.end = f.end
      /\ ClStripped(h) \/ SameOrigin(uri, f.visited[1])
  <2>0. f.visited \in Seq(Uris) /\ Len(f.visited) \in DOMAIN f.visited
    BY DEF ClKinds
  <2>1. CASE SameOrigin(f.uri, uri)
    <3>1. h = f
      BY <2>1 DEF LeaveOrigin
    <3>2. ClStripped(f) \/ SameOrigin(f.uri, f.visited[1])
      BY <2>0 DEF ClChain
    <3>3. ClStripped(f) \/ SameOrigin(uri, f.visited[1])
      BY <2>1, <3>2 DEF SameOrigin
    <3> HIDE DEF h
    <3> QED
      BY <3>1, <3>3
  <2>2. CASE ~SameOrigin(f.uri, uri)
    <3>1. h = [f EXCEPT !.headers = f.headers \ Credentials,
                        !.stripped = f.stripped \cup Credentials]
      BY <2>2 DEF LeaveOrigin, Drop
    <3> HIDE DEF h
    <3>2. f.headers \ Credentials \in SUBSET ClNames /\ f.stripped \cup Credentials \in SUBSET ClNames
      BY ClNamed DEF ClKinds
    <3>3. h \in ClKinds
      BY <3>1, <3>2 DEF ClKinds
    <3>4. /\ h.headers = f.headers \ Credentials /\ h.stripped = f.stripped \cup Credentials
          /\ h.visited = f.visited /\ h.phase = f.phase /\ h.end = f.end
          /\ h.method = f.method /\ h.asked = f.asked /\ h.body = f.body
      BY <3>1 DEF ClKinds
    <3>5. ClStripped(h)
      BY <3>4 DEF ClStripped
    <3>6. ClChain(h)
      BY <3>4, <3>5 DEF ClChain
    <3> QED
      BY <3>3, <3>4, <3>5, <3>6
  <2> QED
    BY <2>1, <2>2
<1> HIDE DEF h
<1>2. CASE ~(flips /\ h.method # "HEAD")
  <2>1. g = h
    BY <1>2 DEF BecomeGet, h
  <2> QED
    BY <1>1, <2>1
<1>3. CASE flips /\ h.method # "HEAD"
  <2>1. g = Drop([h EXCEPT !.method = "GET", !.body = FALSE], EntityHeaders)
    BY <1>3 DEF BecomeGet, h
  <2> DEFINE i == [h EXCEPT !.method = "GET", !.body = FALSE]
  <2>2. i \in ClKinds
    BY <1>1, ClNamed DEF ClKinds
  <2>3. /\ i.headers = h.headers /\ i.stripped = h.stripped /\ i.visited = h.visited
        /\ i.phase = h.phase /\ i.end = h.end /\ ~i.body
    BY <1>1 DEF ClKinds
  <2>4. g = [i EXCEPT !.headers = i.headers \ EntityHeaders,
                      !.stripped = i.stripped \cup EntityHeaders]
    BY <2>1 DEF Drop
  <2> HIDE DEF i
  <2>5. i.headers \ EntityHeaders \in SUBSET ClNames
        /\ i.stripped \cup EntityHeaders \in SUBSET ClNames
    BY <2>2, ClNamed DEF ClKinds
  <2>6. g \in ClKinds
    BY <2>2, <2>4, <2>5 DEF ClKinds
  <2>7. /\ g.headers = h.headers \ EntityHeaders /\ g.stripped = h.stripped \cup EntityHeaders
        /\ g.visited = h.visited /\ g.phase = h.phase /\ g.end = h.end /\ ~g.body
    BY <2>2, <2>3, <2>4 DEF ClKinds
  <2>8. (ClStripped(h) => ClStripped(g))
        /\ (ClStripped(g) => ClStripped(h))
    BY <2>7 DEF ClStripped, Credentials, EntityHeaders
  <2>9. ClChain(g)
    BY <1>1, <2>7, <2>8 DEF ClChain
  <2> QED
    BY <1>1, <2>6, <2>7, <2>8, <2>9
<1> QED
  BY <1>2, <1>3

\* Every step of the client and of the servers keeps the invariant.
LEMMA ClSteps == ClIInv /\ [ClNext]_fetch => ClIInv'
<1> SUFFICES ASSUME ClSound(fetch), [ClNext]_fetch PROVE ClSound(fetch')
  BY DEF ClIInv, ClSound, ClRead, ClChain, ClAhead, ClAsked, ClStripped
<1>t. fetch \in ClKinds /\ ClRead(fetch)
  BY DEF ClSound
<1>n. /\ "request" \in ClEnds /\ "url" \in ClEnds /\ "timeout" \in ClEnds
      /\ "transport" \in ClEnds /\ "body" \in ClEnds /\ "tooManyRedirects" \in ClEnds
      /\ "bodyTooLarge" \in ClEnds /\ "decode" \in ClEnds /\ "none" \in ClEnds /\ "ok" \in ClEnds
  BY DEF ClEnds
<1>f. ASSUME NEW e \in ClEnds \ {"ok"}, fetch' = ClFails(e) PROVE ClSound(fetch')
  BY <1>f, ClFailsSoundly
<1>1. ASSUME NEW uri \in Uris, NEW method \in {"GET", "HEAD", "POST"},
             NEW headers \in SUBSET Described, NEW defaults \in SUBSET Described,
             NEW inflate \in BOOLEAN, ClSend(uri, method, headers, defaults, inflate)
      PROVE  ClSound(fetch')
  <2> DEFINE b == method = "POST"
  <2>1. /\ fetch.phase = "idle"
        /\ fetch' = [fetch EXCEPT !.phase = "ready", !.uri = uri, !.asked = method,
                            !.method = method, !.body = b, !.headers = headers,
                            !.defaults = defaults, !.inflate = inflate]
    BY <1>1 DEF ClSend
  <2>2. method \in ClMethods /\ headers \in SUBSET ClNames /\ defaults \in SUBSET ClNames
        /\ b \in BOOLEAN
    BY ClNamed DEF ClMethods
  <2> HIDE DEF b
  <2>3. fetch' \in ClKinds
    BY <1>t, <2>1, <2>2, ClNamed DEF ClKinds
  <2>4. /\ fetch'.phase = "ready" /\ fetch'.uri = uri /\ fetch'.asked = method
        /\ fetch'.method = method /\ fetch'.visited = fetch.visited /\ fetch'.end = fetch.end
        /\ fetch'.stripped = fetch.stripped
    BY <1>t, <2>1 DEF ClKinds
  <2>5. fetch.visited = <<>> /\ fetch.stripped = {} /\ fetch.end = "none"
    BY <2>1 DEF ClSound, ClRead
  <2>6. ~ClStripped(fetch') /\ ClChain(fetch')
    BY <2>4, <2>5 DEF ClStripped, ClChain, Credentials
  <2>7. ClAhead(fetch')
    BY <2>4, <2>5, ClLimits DEF ClAhead
  <2> QED
    BY <2>3, <2>4, <2>5, <2>6, <2>7 DEF ClSound, ClRead
<1>2. CASE ClBroken
  BY <1>2, <1>f, <1>n DEF ClBroken
<1>3. CASE Transmit
  <2>1. fetch.phase = "ready" /\ ClChain(fetch) /\ ClAhead(fetch) /\ fetch.end = "none"
    BY <1>3 DEF Transmit, ClSound, ClRead
  <2>2. CASE ~CheckScheme
    BY <1>3, <1>f, <1>n, <2>2 DEF Transmit
  <2>3. CASE CheckScheme
    <3> DEFINE v == Append(fetch.visited, fetch.uri)
               s == (fetch.defaults \ fetch.stripped) \cup fetch.headers
    <3>1. fetch' = [fetch EXCEPT !.phase = "waiting", !.sent = s, !.visited = v]
      BY <1>3, <2>3 DEF Transmit, RequestHeaders
    <3>2. fetch.visited \in Seq(Uris) /\ fetch.uri \in Uris
      BY <1>t, <2>1 DEF ClKinds, ClAhead
    <3>3. /\ v \in Seq(Uris) /\ Len(v) = Len(fetch.visited) + 1 /\ v[Len(v)] = fetch.uri
          /\ \A k \in DOMAIN fetch.visited : v[k] = fetch.visited[k]
          /\ DOMAIN v = 1..Len(v) /\ DOMAIN fetch.visited = 1..Len(fetch.visited)
          /\ Len(fetch.visited) \in Nat
      BY <3>2
    <3>4. s \in SUBSET ClNames
      BY <1>t DEF ClKinds
    <3> HIDE DEF v, s
    <3>5. fetch' \in ClKinds
      BY <1>t, <3>1, <3>3, <3>4, ClNamed DEF ClKinds
    <3>6. /\ fetch'.phase = "waiting" /\ fetch'.sent = s /\ fetch'.visited = v
          /\ fetch'.uri = fetch.uri /\ fetch'.headers = fetch.headers
          /\ fetch'.defaults = fetch.defaults /\ fetch'.stripped = fetch.stripped
          /\ fetch'.method = fetch.method /\ fetch'.asked = fetch.asked
          /\ fetch'.body = fetch.body /\ fetch'.end = fetch.end
      BY <1>t, <3>1 DEF ClKinds
    <3>7. ClStripped(fetch') <=> ClStripped(fetch)
      BY <3>6 DEF ClStripped
    <3>8. ClStripped(fetch) \/ \A k \in DOMAIN v : SameOrigin(v[k], v[1])
      <4>1. SUFFICES ASSUME ~ClStripped(fetch), NEW k \in DOMAIN v PROVE SameOrigin(v[k], v[1])
        OBVIOUS
      <4>2. CASE fetch.visited = <<>>
        <5>1. k = 1
          BY <3>3, <4>2
        <5> QED
          BY <5>1 DEF SameOrigin
      <4>3. CASE fetch.visited # <<>>
        <5>1. v[1] = fetch.visited[1]
          BY <3>2, <3>3, <4>3
        <5>2. SameOrigin(fetch.uri, fetch.visited[1])
          BY <2>1, <4>1, <4>3 DEF ClAhead
        <5>3. CASE k \in DOMAIN fetch.visited
          BY <2>1, <3>3, <4>1, <5>1, <5>3 DEF ClChain
        <5>4. CASE k \notin DOMAIN fetch.visited
          <6>1. k = Len(v)
            BY <3>3, <5>4
          <6> QED
            BY <3>3, <5>1, <5>2, <6>1
        <5> QED
          BY <5>3, <5>4
      <4> QED
        BY <4>2, <4>3
    <3>9. ASSUME NEW k \in DOMAIN v, k > 1, v[k - 1].scheme = "https"
          PROVE  v[k].scheme = "https"
      <4>1. k - 1 \in DOMAIN fetch.visited /\ v[k - 1] = fetch.visited[k - 1]
        BY <3>3, <3>9
      <4>2. CASE k \in DOMAIN fetch.visited
        BY <2>1, <3>3, <3>9, <4>1, <4>2 DEF ClChain
      <4>3. CASE k \notin DOMAIN fetch.visited
        <5>1. k = Len(v) /\ k - 1 = Len(fetch.visited) /\ fetch.visited # <<>>
          BY <3>2, <3>3, <3>9, <4>1, <4>3
        <5>2. fetch.uri.scheme # "http"
          BY <2>1, <3>9, <4>1, <5>1 DEF ClAhead
        <5> QED
          BY <2>3, <3>3, <5>1, <5>2 DEF CheckScheme
      <4> QED
        BY <4>2, <4>3
    <3>10. ClChain(fetch')
      BY <2>1, <3>6, <3>7, <3>8, <3>9 DEF ClChain
    <3>11. ClAsked(fetch')
      BY <2>1, <3>3, <3>6, ClLimits DEF ClAsked, ClAhead, s
    <3> QED
      BY <2>1, <3>5, <3>6, <3>10, <3>11 DEF ClSound, ClRead
  <2> QED
    BY <2>2, <2>3
<1>4. CASE TransportFailure
  BY <1>4, <1>f, <1>n DEF TransportFailure
<1>5. CASE ClTimesOut
  BY <1>5, <1>f, <1>n DEF ClTimesOut
<1>6. ASSUME NEW status \in {"flips", "keeps"}, NEW location \in Uris \cup {Relative, Unreadable},
             Redirected(status, location)
      PROVE  ClSound(fetch')
  <2> DEFINE uri == ResolveTarget(location)
             flips == status = "flips"
             g == BecomeGet(LeaveOrigin(fetch, uri), flips)
  <2>1. /\ fetch.phase = "waiting" /\ ClChain(fetch) /\ ClAsked(fetch) /\ fetch.end = "none"
    BY <1>6 DEF Redirected, ClSound, ClRead
  <2>2. CASE \/ Len(fetch.visited) > ClMaxRedirects \/ location = Unreadable
             \/ fetch.uri.scheme = "https" /\ uri.scheme = "http"
    <3>1. fetch' \in {ClFails("tooManyRedirects"), ClFails("url")}
      BY <1>6, <2>2 DEF Redirected
    <3> QED
      BY <1>f, <1>n, <3>1
  <2>3. CASE /\ ~(Len(fetch.visited) > ClMaxRedirects) /\ location # Unreadable
             /\ ~(fetch.uri.scheme = "https" /\ uri.scheme = "http")
    <3>1. fetch' = [g EXCEPT !.phase = "ready", !.uri = uri]
      BY <1>6, <2>3 DEF Redirected
    <3>2. fetch.visited \in Seq(Uris) /\ fetch.visited # <<>>
          /\ fetch.uri = fetch.visited[Len(fetch.visited)] /\ fetch.uri \in Uris
          /\ Len(fetch.visited) <= ClMaxRedirects
      BY <1>t, <2>1, <2>3, ClLimits DEF ClKinds, ClAsked
    <3>3. uri \in Uris
      BY <2>3, <3>2 DEF ResolveTarget
    <3> HIDE DEF uri
    <3>4. flips \in BOOLEAN
      OBVIOUS
    <3> HIDE DEF flips
    <3>5. /\ g \in ClKinds /\ ClChain(g) /\ g.visited = fetch.visited /\ g.end = "none"
          /\ ClStripped(g) \/ SameOrigin(uri, fetch.visited[1])
      BY <1>t, <2>1, <3>2, <3>3, <3>4, ClRepeats
    <3> HIDE DEF g
    <3>6. fetch' \in ClKinds
      BY <3>1, <3>3, <3>5, ClNamed DEF ClKinds
    <3>7. /\ fetch'.phase = "ready" /\ fetch'.uri = uri /\ fetch'.visited = g.visited
          /\ fetch'.headers = g.headers /\ fetch'.stripped = g.stripped
          /\ fetch'.method = g.method /\ fetch'.asked = g.asked /\ fetch'.body = g.body
          /\ fetch'.end = g.end
      BY <3>1, <3>5 DEF ClKinds
    <3>8. ClChain(fetch') /\ (ClStripped(fetch') <=> ClStripped(g))
      BY <3>5, <3>7 DEF ClChain, ClStripped
    <3>9. ClAhead(fetch')
      BY <2>3, <3>2, <3>3, <3>5, <3>7, <3>8 DEF ClAhead
    <3> QED
      BY <3>5, <3>6, <3>7, <3>8, <3>9 DEF ClSound, ClRead
  <2> QED
    BY <2>2, <2>3
<1>7. ASSUME NEW codings \in Stacks, ClAnswered(codings) PROVE ClSound(fetch')
  <2> DEFINE b == [NoBody EXCEPT !.codings = codings, !.layers = codings, !.applied = codings]
  <2>1. fetch' = [NotStarted EXCEPT !.phase = "reading", !.inflate = fetch.inflate, !.got = b]
    BY <1>7 DEF ClAnswered
  <2>2. b \in ClBodies /\ b.codings = b.applied /\ b.layers = b.applied
    <3>1. codings \in Seq(Codings)
      BY DEF Stacks
    <3> QED
      BY <3>1, ClNamed DEF ClBodies
  <2> HIDE DEF b
  <2>3. NotStarted \in ClKinds /\ NotStarted.end = "none" /\ fetch.inflate \in BOOLEAN
    BY <1>t, ClIdles DEF ClSound, ClKinds, NotStarted
  <2>4. fetch' \in ClKinds
    BY <2>1, <2>2, <2>3, ClNamed DEF ClKinds
  <2>5. fetch'.phase = "reading" /\ fetch'.got = b /\ fetch'.end = "none"
    BY <2>1, <2>3 DEF ClKinds
  <2> QED
    BY <2>2, <2>4, <2>5 DEF ClSound, ClRead
<1>8. ASSUME NEW wire \in 0..(ClMaxBytes + 1), NEW full \in 0..(ClMaxBytes + 1),
             NEW corrupt \in BOOLEAN, ReadBody(wire, full, corrupt)
      PROVE  ClSound(fetch')
  <2> DEFINE b == Decompressed(wire, full)
  <2>1. CASE TooLarge(wire, full) \/ (Inflates /\ (corrupt \/ ~Readable))
    BY <1>8, <1>f, <1>n, <2>1 DEF ReadBody
  <2>2. CASE ~TooLarge(wire, full) /\ ~(Inflates /\ (corrupt \/ ~Readable))
    <3>1. fetch' = [fetch EXCEPT !.phase = "over", !.end = "ok", !.got = b]
      BY <1>8, <2>2 DEF ReadBody
    <3>2. /\ fetch.got \in ClBodies /\ wire \in Nat /\ full \in Nat
          /\ fetch.got.codings = fetch.got.applied /\ fetch.got.layers = fetch.got.applied
      BY <1>t, <1>8, ClLimits DEF ClKinds, ReadBody, ClRead
    <3>3. b \in ClBodies /\ ClDescribed(b)
      <4>1. CASE Inflates
        <5> DEFINE on == fetch.got.layers
                   left == SubSeq(on, 1, Len(on) - 1)
        <5>1. on \in Seq(Codings) /\ Len(on) \in Nat
          BY <3>2 DEF ClBodies
        <5>2. on # <<>>
          BY <3>2, <4>1 DEF Inflates
        <5>3. Len(on) \in Nat \ {0}
          BY <5>1, <5>2
        <5>4. left \in Seq(Codings) /\ (left # <<>> => Len(on) > 1)
          BY <5>1, <5>3
        <5>5. full <= ClMaxBytes
          BY <2>2, <3>2, <4>1, ClLimits DEF TooLarge
        <5>6. b = [fetch.got EXCEPT !.length = full, !.codings = <<>>, !.layers = left]
          BY <4>1 DEF Decompressed
        <5>7. <<>> \in Seq(Codings)
          OBVIOUS
        <5> HIDE DEF left, b
        <5>8. b \in ClBodies
          BY <3>2, <5>4, <5>6, <5>7 DEF ClBodies
        <5>9. /\ b.length = full /\ b.codings = <<>> /\ b.layers = left
              /\ b.applied = fetch.got.applied
          BY <3>2, <5>6 DEF ClBodies
        <5> QED
          BY <3>2, <5>4, <5>5, <5>8, <5>9 DEF ClDescribed
      <4>2. CASE ~Inflates
        <5>1. b = [fetch.got EXCEPT !.length = wire] /\ wire <= ClMaxBytes
          BY <2>2, <3>2, <4>2, ClLimits DEF Decompressed, TooLarge
        <5> HIDE DEF b
        <5>2. /\ b \in ClBodies /\ b.length = wire /\ b.codings = fetch.got.codings
              /\ b.layers = fetch.got.layers
          BY <3>2, <5>1 DEF ClBodies
        <5> QED
          BY <3>2, <5>1, <5>2 DEF ClDescribed
      <4> QED
        BY <4>1, <4>2
    <3> HIDE DEF b
    <3>4. fetch' \in ClKinds
      BY <1>t, <1>n, <3>1, <3>3, ClNamed DEF ClKinds
    <3>5. fetch'.phase = "over" /\ fetch'.got = b
      BY <1>t, <3>1 DEF ClKinds
    <3> QED
      BY <3>3, <3>4, <3>5 DEF ClSound, ClRead
  <2> QED
    BY <2>1, <2>2
<1>9. CASE UNCHANGED fetch
  BY <1>9
<1> QED
  BY <1>1, <1>2, <1>3, <1>4, <1>5, <1>6, <1>7, <1>8, <1>9 DEF ClNext

\* For any hosts, any bound on redirects and on bytes, and however the servers answer:
\* no request carries a credential to an origin other than the first, nor back to it
\* once the chain has left it, none describes a body that a redirect has emptied,
\* none follows https by http; and what the caller reads is within its bound, and under
\* just the codings its headers name unless it is a stack of codings of which the client
\* undid one.
THEOREM RedirectsKeepSecrets == ClSpec => []RedirectsLeakNothing
<1>1. ClInit => ClIInv
  BY ClIdles DEF ClInit, ClIInv
<1>2. ClIInv => RedirectsLeakNothing
  <2>1. SUFFICES ASSUME ClSound(fetch) PROVE RedirectsLeakNothing
    BY DEF ClIInv
  <2>2. fetch \in ClKinds /\ ClRead(fetch)
    BY <2>1 DEF ClSound
  <2>3. CASE fetch.phase # "waiting"
    BY <2>2, <2>3 DEF ClRead, ClDescribed, RedirectsLeakNothing
  <2>4. CASE fetch.phase = "waiting"
    <3>1. ClChain(fetch) /\ ClAsked(fetch)
      BY <2>1, <2>4 DEF ClSound
    <3>2. ClStripped(fetch) => fetch.sent \cap Credentials = {}
      BY <3>1 DEF ClChain, ClAsked, ClStripped
    <3>3. fetch.method # fetch.asked => fetch.sent \cap EntityHeaders = {}
      BY <3>1 DEF ClChain, ClAsked
    <3>4. Len(fetch.visited) <= ClMaxRedirects + 1
      BY <3>1, ClLimits DEF ClAsked
    <3> QED
      BY <2>2, <2>4, <3>1, <3>2, <3>3, <3>4 DEF ClChain, ClRead, ClDescribed, RedirectsLeakNothing
  <2> QED
    BY <2>3, <2>4
<1> QED
  BY <1>1, <1>2, ClSteps, PTL DEF ClSpec

-----------------------------------------------------------------------------
(* Auth: who a handler is told is asking.                                   *)

AuSpec == AuInit /\ [][AuNext]_gatekept

AuFields == {"at", "idx", "plugins", "header", "has", "offered", "wants"}
AuRealms == {"none"} \cup UNION {{p[k].realm : k \in DOMAIN p} : p \in Plugins}
AuChallenges == [scheme: {"Basic", "Bearer"}, realm: AuRealms]

\* Accepting, of any call.
AuAccepts(g) ==
  {k \in DOMAIN g.plugins : /\ g.header.word \in Words(g.plugins[k].scheme)
                            /\ g.header.credential \in g.plugins[k].accepts}

\* The principals in the call are those of the last plugins, of those whose turn
\* has been, to accept what it presents: one for each type they are for.
AuLatest(g) ==
  /\ \A h \in g.has :
       /\ h.by \in AuAccepts(g) /\ h.by < g.idx
       /\ h.type = g.plugins[h.by].type /\ h.for = g.header.credential
       /\ \A k \in AuAccepts(g) : k < g.idx /\ g.plugins[k].type = h.type => k <= h.by
  /\ \A k \in AuAccepts(g) : k < g.idx => \E h \in g.has : h.type = g.plugins[k].type

AuDistinct(seq) == \A i, j \in DOMAIN seq : seq[i] = seq[j] => i = j

AuSound(g) ==
  /\ DOMAIN g = AuFields
  /\ g.at \in {"rest", "verifying", "handler", "refused"}
  /\ g.at # "rest" =>
       /\ g.plugins \in Plugins /\ g.idx \in 1..(Len(g.plugins) + 1)
       /\ g.offered \in Seq(AuChallenges) /\ AuDistinct(g.offered) /\ AuLatest(g)
  /\ g.at \in {"handler", "refused"} => g.idx = Len(g.plugins) + 1
  /\ g.at = "handler" => \E h \in g.has : h.type = g.wants
  /\ g.at = "refused" => g.offered # <<>> /\ \A h \in g.has : h.type # g.wants

AuIInv == AuSound(gatekept)

\* A server whose chain is not built yet satisfies the invariant.
LEMMA AuIdles == AuSound(AuRest)
BY DEF AuSound, AuRest, AuFields

\* The place that a plugin leaves its principal at, and what it was checked against.
LEMMA AuOffers ==
  ASSUME NEW offered \in Seq(AuChallenges), AuDistinct(offered), NEW c \in AuChallenges
  PROVE  OfferChallenge(offered, c) \in Seq(AuChallenges) /\ AuDistinct(OfferChallenge(offered, c))
<1>1. CASE c \in {offered[k] : k \in DOMAIN offered}
  BY <1>1 DEF OfferChallenge
<1>2. CASE c \notin {offered[k] : k \in DOMAIN offered}
  <2> DEFINE o == Append(offered, c)
  <2>1. OfferChallenge(offered, c) = o
    BY <1>2 DEF OfferChallenge
  <2>2. /\ o \in Seq(AuChallenges) /\ Len(o) = Len(offered) + 1 /\ o[Len(o)] = c
        /\ \A k \in DOMAIN offered : o[k] = offered[k]
        /\ DOMAIN o = 1..Len(o) /\ DOMAIN offered = 1..Len(offered) /\ Len(offered) \in Nat
    OBVIOUS
  <2>3. \A k \in DOMAIN offered : offered[k] # c
    BY <1>2
  <2> HIDE DEF o
  <2>4. AuDistinct(o)
    BY <2>2, <2>3 DEF AuDistinct
  <2> QED
    BY <2>1, <2>2, <2>4
<1> QED
  BY <1>1, <1>2

\* Every step of the chain of plugins, the guard and the handler keeps it.
LEMMA AuSteps == AuIInv /\ [AuNext]_gatekept => AuIInv'
<1> SUFFICES ASSUME AuSound(gatekept), [AuNext]_gatekept PROVE AuSound(gatekept')
  BY DEF AuIInv, AuSound, AuLatest, AuAccepts, AuDistinct, Words
<1>d. DOMAIN gatekept = AuFields
  BY DEF AuSound
<1>1. ASSUME NEW p \in Plugins, NEW h \in Authorizations, NEW t \in PrincipalTypes,
             AuArrive(p, h, t)
      PROVE  AuSound(gatekept')
  <2>1. gatekept' = [AuRest EXCEPT !.at = "verifying", !.plugins = p, !.header = h, !.wants = t]
    BY <1>1 DEF AuArrive
  <2>2. /\ DOMAIN gatekept' = AuFields /\ gatekept'.at = "verifying" /\ gatekept'.plugins = p
        /\ gatekept'.idx = 1 /\ gatekept'.has = {} /\ gatekept'.offered = <<>>
    BY <2>1 DEF AuRest, AuFields
  <2>3. Len(p) \in Nat /\ DOMAIN p = 1..Len(p)
    BY AuStacks
  <2>4. AuLatest(gatekept')
    BY <2>2, <2>3 DEF AuLatest, AuAccepts
  <2> QED
    BY <2>2, <2>3, <2>4 DEF AuSound, AuDistinct
<1>2. CASE AuVerify
  <2> DEFINE p == Guarding
             o == Recorded(p, gatekept.offered)
             found == Presented(p, gatekept.header) \cap p.accepts
             has == IF found = {} THEN gatekept.has
                    ELSE Inserted(gatekept.has, p, gatekept.header.credential)
             n == gatekept.idx + 1
  <2>1. /\ gatekept.at = "verifying" /\ gatekept.idx <= Len(gatekept.plugins)
        /\ gatekept' = [gatekept EXCEPT !.idx = n, !.offered = o, !.has = has]
    BY <1>2 DEF AuVerify, Verifying
  <2>2. /\ gatekept.plugins \in Plugins /\ gatekept.idx \in DOMAIN gatekept.plugins
        /\ gatekept.idx \in Nat /\ n \in 1..(Len(gatekept.plugins) + 1)
        /\ DOMAIN gatekept.plugins = 1..Len(gatekept.plugins) /\ Len(gatekept.plugins) \in Nat
        /\ gatekept.offered \in Seq(AuChallenges) /\ AuDistinct(gatekept.offered)
        /\ AuLatest(gatekept) /\ p = gatekept.plugins[gatekept.idx]
    BY <2>1, AuStacks DEF AuSound, Guarding
  <2>3. o \in Seq(AuChallenges) /\ AuDistinct(o)
    <3>1. p.realm \in AuRealms
      BY <2>2 DEF AuRealms
    <3>2. ChallengeOf(p) \in AuChallenges
      BY <3>1 DEF ChallengeOf, AuChallenges
    <3> QED
      BY <2>2, <3>2, AuOffers DEF Recorded
  <2>4. found = {} <=> gatekept.idx \notin AuAccepts(gatekept)
    BY <2>2 DEF Presented, AuAccepts
  <2>5. has = IF found = {} THEN gatekept.has
              ELSE {h \in gatekept.has : h.type # p.type}
                   \cup {[type |-> p.type, by |-> gatekept.idx,
                          for |-> gatekept.header.credential]}
    BY DEF Inserted
  <2> HIDE DEF o, found, has
  <2>6. /\ DOMAIN gatekept' = AuFields /\ gatekept'.at = "verifying"
        /\ gatekept'.plugins = gatekept.plugins /\ gatekept'.header = gatekept.header
        /\ gatekept'.idx = n /\ gatekept'.has = has /\ gatekept'.offered = o
    BY <1>d, <2>1 DEF AuFields
  <2>7. AuAccepts(gatekept') = AuAccepts(gatekept) /\ AuAccepts(gatekept) \subseteq Nat
    BY <2>2, <2>6 DEF AuAccepts
  <2>8. AuLatest(gatekept')
    <3>1. CASE found = {}
      <4>1. has = gatekept.has
        BY <2>5, <3>1
      <4>2. \A k \in AuAccepts(gatekept) : k < n <=> k < gatekept.idx
        BY <2>2, <2>4, <2>7, <3>1
      <4> QED
        BY <2>2, <2>6, <2>7, <4>1, <4>2 DEF AuLatest
    <3>2. CASE found # {}
      <4> DEFINE new == [type |-> p.type, by |-> gatekept.idx,
                         for |-> gatekept.header.credential]
      <4>1. has = {h \in gatekept.has : h.type # p.type} \cup {new}
        BY <2>5, <3>2
      <4>2. new.type = p.type /\ new.by = gatekept.idx /\ new.for = gatekept.header.credential
        OBVIOUS
      <4> HIDE DEF new
      <4>3. gatekept.idx \in AuAccepts(gatekept) /\ gatekept.idx < n
        BY <2>2, <2>4, <3>2
      <4>4. \A k \in AuAccepts(gatekept) : k < n <=> k < gatekept.idx \/ k = gatekept.idx
        BY <2>2, <2>7
      <4>5. ASSUME NEW h \in has
            PROVE  /\ h.by \in AuAccepts(gatekept) /\ h.by < n
                   /\ h.type = gatekept.plugins[h.by].type /\ h.for = gatekept.header.credential
                   /\ \A k \in AuAccepts(gatekept) :
                        k < n /\ gatekept.plugins[k].type = h.type => k <= h.by
        <5>1. CASE h = new
          <6>1. \A k \in AuAccepts(gatekept) : k < n => k <= gatekept.idx
            BY <2>2, <2>7, <4>4
          <6> QED
            BY <2>2, <4>2, <4>3, <5>1, <6>1
        <5>2. CASE h # new
          <6>1. h \in gatekept.has /\ h.type # p.type
            BY <4>1, <5>2
          <6> QED
            BY <2>2, <4>4, <6>1 DEF AuLatest
        <5> QED
          BY <5>1, <5>2
      <4>6. ASSUME NEW k \in AuAccepts(gatekept), k < n
            PROVE  \E h \in has : h.type = gatekept.plugins[k].type
        <5>1. CASE gatekept.plugins[k].type = p.type
          BY <4>1, <4>2, <5>1
        <5>2. CASE gatekept.plugins[k].type # p.type
          <6>1. k < gatekept.idx
            BY <2>2, <4>4, <4>6, <5>2
          <6> QED
            BY <2>2, <4>1, <5>2, <6>1 DEF AuLatest
        <5> QED
          BY <5>1, <5>2
      <4> QED
        BY <2>6, <2>7, <4>5, <4>6 DEF AuLatest
    <3> QED
      BY <3>1, <3>2
  <2> QED
    BY <2>2, <2>3, <2>6, <2>8 DEF AuSound
<1>3. CASE AuDropped \/ AuOver
  BY <1>3, AuIdles DEF AuDropped, AuOver
<1>4. CASE AuExtract
  <2>1. /\ gatekept.at = "verifying" /\ gatekept.idx = Len(gatekept.plugins) + 1
    BY <1>4 DEF AuExtract
  <2>2. /\ gatekept.plugins \in Plugins /\ gatekept.idx \in 1..(Len(gatekept.plugins) + 1)
        /\ gatekept.offered \in Seq(AuChallenges) /\ AuDistinct(gatekept.offered)
        /\ AuLatest(gatekept)
    BY <2>1 DEF AuSound
  <2>3. CASE \E h \in gatekept.has : h.type = gatekept.wants
    <3>1. gatekept' = [gatekept EXCEPT !.at = "handler"]
      BY <1>4, <2>3 DEF AuExtract
    <3>2. /\ DOMAIN gatekept' = AuFields /\ gatekept'.at = "handler"
          /\ gatekept'.plugins = gatekept.plugins /\ gatekept'.header = gatekept.header
          /\ gatekept'.idx = gatekept.idx /\ gatekept'.has = gatekept.has
          /\ gatekept'.offered = gatekept.offered /\ gatekept'.wants = gatekept.wants
      BY <1>d, <3>1 DEF AuFields
    <3>3. AuLatest(gatekept')
      BY <2>2, <3>2 DEF AuLatest, AuAccepts
    <3> QED
      BY <2>1, <2>2, <2>3, <3>2, <3>3 DEF AuSound
  <2>4. CASE ~\E h \in gatekept.has : h.type = gatekept.wants
    <3> DEFINE c == [scheme |-> "Bearer", realm |-> "none"]
               o == IF gatekept.offered = <<>> THEN <<c>> ELSE gatekept.offered
    <3>1. gatekept' = [gatekept EXCEPT !.at = "refused", !.offered = o]
      BY <1>4, <2>4 DEF AuExtract
    <3>2. c \in AuChallenges
      BY DEF AuChallenges, AuRealms
    <3> HIDE DEF c
    <3>3. o \in Seq(AuChallenges) /\ AuDistinct(o) /\ o # <<>>
      <4>1. <<c>> \in Seq(AuChallenges) /\ <<c>> # <<>> /\ DOMAIN <<c>> = {1}
        BY <3>2
      <4> QED
        BY <2>2, <4>1 DEF AuDistinct
    <3> HIDE DEF o
    <3>4. /\ DOMAIN gatekept' = AuFields /\ gatekept'.at = "refused"
          /\ gatekept'.plugins = gatekept.plugins /\ gatekept'.header = gatekept.header
          /\ gatekept'.idx = gatekept.idx /\ gatekept'.has = gatekept.has
          /\ gatekept'.offered = o /\ gatekept'.wants = gatekept.wants
      BY <1>d, <3>1 DEF AuFields
    <3>5. AuLatest(gatekept')
      BY <2>2, <3>4 DEF AuLatest, AuAccepts
    <3> QED
      BY <2>1, <2>2, <2>4, <3>3, <3>4, <3>5 DEF AuSound
  <2> QED
    BY <2>3, <2>4
<1>5. CASE UNCHANGED gatekept
  BY <1>5
<1> QED
  BY <1>1, <1>2, <1>3, <1>4, <1>5 DEF AuNext

\* For any stack of authentication plugins and any Authorization header, a handler is
\* given the principal of the last plugin of its type that accepts what the request
\* presents under that plugin's scheme, or is not run; and who is turned away is
\* told a scheme, none twice.
THEOREM PrincipalsAreEarned == AuSpec => []PrincipalEarned
<1>1. AuInit => AuIInv
  BY AuIdles DEF AuInit, AuIInv
<1>2. AuIInv => PrincipalEarned
  <2> SUFFICES ASSUME AuSound(gatekept), gatekept.at \in {"handler", "refused"}
               PROVE  PrincipalEarned
    BY DEF AuIInv, PrincipalEarned
  <2> DEFINE mine == {k \in Accepting : gatekept.plugins[k].type = gatekept.wants}
  <2>1. /\ Accepting = AuAccepts(gatekept) /\ AuLatest(gatekept) /\ AuDistinct(gatekept.offered)
        /\ Len(gatekept.plugins) \in Nat /\ DOMAIN gatekept.plugins = 1..Len(gatekept.plugins)
        /\ gatekept.idx = Len(gatekept.plugins) + 1
    BY AuStacks DEF AuSound, Accepting, AuAccepts
  <2>2. \A k \in Accepting : k \in Nat /\ k < gatekept.idx
    BY <2>1 DEF Accepting
  <2>3. CASE gatekept.at = "handler"
    <3>1. PICK h \in gatekept.has : h.type = gatekept.wants
      BY <2>3 DEF AuSound
    <3>2. /\ h.by \in mine /\ h.for = gatekept.header.credential
          /\ \A k \in mine : k <= h.by
      BY <2>1, <2>2, <3>1 DEF AuLatest
    <3> QED
      BY <2>3, <3>1, <3>2 DEF PrincipalEarned
  <2>4. CASE gatekept.at = "refused"
    <3>1. gatekept.offered # <<>> /\ \A h \in gatekept.has : h.type # gatekept.wants
      BY <2>4 DEF AuSound
    <3>2. mine = {}
      BY <2>1, <2>2, <3>1 DEF AuLatest
    <3> QED
      BY <2>1, <2>4, <3>1, <3>2 DEF PrincipalEarned, AuDistinct
  <2> QED
    BY <2>3, <2>4
<1> QED
  BY <1>1, <1>2, AuSteps, PTL DEF AuSpec

-----------------------------------------------------------------------------
(* TowerBridge: calls through the adapters.                                 *)

BrSpec == BrInit /\ [][BrNext]_bridge

BrPlaces == {"idle", "pipeline", "inward", "outward", "done", "dropped"}
Holdable == Tasks \cup {NoTask}
BrKinds == {"none", "answer", "error"}
BrAnswers == [kind: BrKinds, of: Holdable, exact: BOOLEAN, length: BOOLEAN, sized: BOOLEAN]
BrTasks ==
  [at: BrPlaces, slots: Seq(Holdable), call: Holdable, res: BrAnswers, borrowed: BOOLEAN]

BrTyped == bridge \in [on: BOOLEAN, task: [Tasks -> BrTasks], ran: [Tasks -> Nat]]

\* Whose call a task holds in one of its slots, or, where it runs the rest of the
\* pipeline, in place 0.
HeldIn(r, k) ==
  IF k = 0 THEN IF r.at = "pipeline" THEN r.call ELSE NoTask
  ELSE IF k \in DOMAIN r.slots THEN r.slots[k] ELSE NoTask

\* A call is in one place, ...
InOnePlace(task) ==
  \A u, v \in Tasks, k, l \in Nat :
    HeldIn(task[u], k) # NoTask /\ HeldIn(task[u], k) = HeldIn(task[v], l) => u = v /\ k = l

\* ... and in none before it came and after it was handled.
NotYet(task, ran) ==
  \A u \in Tasks, k \in Nat :
    HeldIn(task[u], k) # NoTask =>
      ran[HeldIn(task[u], k)] = 0 /\ task[HeldIn(task[u], k)].at # "idle"

BrSize(res) == res.kind = "answer" /\ res.sized => res.length \/ res.exact

BrIInv ==
  /\ BrTyped /\ InOnePlace(bridge.task) /\ NotYet(bridge.task, bridge.ran)
  /\ \A t \in Tasks :
       /\ bridge.ran[t] <= 1 /\ (Task(t).at = "idle" => bridge.ran[t] = 0)
       /\ Task(t).at = "pipeline" => Task(t).call \in Tasks
       /\ BrSize(Task(t).res)

\* A slot holds the call of a task, or none.
LEMMA BrHeld == ASSUME NEW r \in BrTasks, NEW k \in Nat PROVE HeldIn(r, k) \in Holdable
BY DEF HeldIn, BrTasks, Holdable

\* Without a task nothing is held and nothing has run.
LEMMA BrStarts == BrInit => BrIInv
<1> SUFFICES ASSUME BrInit PROVE BrIInv
  OBVIOUS
<1>1. NoneYet \in BrAnswers /\ Away \in BrTasks /\ Away.at = "idle" /\ Away.slots = <<>>
      /\ Away.res = NoneYet
  BY DEF NoneYet, BrAnswers, BrKinds, Away, BrTasks, BrPlaces, Holdable
<1>x. BrSize(NoneYet)
  BY DEF BrSize, NoneYet
<1>2. bridge = [on |-> FALSE, task |-> [t \in Tasks |-> Away], ran |-> [t \in Tasks |-> 0]]
  BY DEF BrInit, BrRest
<1> HIDE DEF BrInit
<1>3. BrTyped
  BY <1>1, <1>2 DEF BrTyped
<1>4. \A t \in Tasks : bridge.task[t] = Away /\ bridge.ran[t] = 0
  BY <1>2
<1>5. \A k \in Nat : HeldIn(Away, k) = NoTask
  BY <1>1 DEF HeldIn
<1>6. InOnePlace(bridge.task) /\ NotYet(bridge.task, bridge.ran)
  BY <1>4, <1>5 DEF InOnePlace, NotYet
<1> QED
  BY <1>1, <1>x, <1>3, <1>4, <1>6 DEF BrIInv, Task

\* A step that moves at most one call, from a place to another, and loses others.
LEMMA BrMoves ==
  ASSUME BrIInv, NEW task \in [Tasks -> BrTasks],
         NEW s \in Tasks, NEW j \in Nat, NEW t \in Tasks, NEW i \in Nat,
         HeldIn(task[t], i) \in {HeldIn(bridge.task[s], j), NoTask},
         s # t \/ i # j => HeldIn(task[s], j) = NoTask,
         \A u \in Tasks, k \in Nat :
           u # t \/ k # i => HeldIn(task[u], k) \in {HeldIn(bridge.task[u], k), NoTask},
         \A u \in Tasks : task[u].at = "idle" => bridge.task[u].at = "idle"
  PROVE  InOnePlace(task) /\ NotYet(task, bridge.ran)
<1> DEFINE old(u, k) == HeldIn(bridge.task[u], k)
           new(u, k) == HeldIn(task[u], k)
<1>1. \A u \in Tasks, k \in Nat : old(u, k) \in Holdable /\ new(u, k) \in Holdable
  BY BrHeld DEF BrIInv, BrTyped
<1>2. \A u, v \in Tasks, k, l \in Nat :
        old(u, k) # NoTask /\ old(u, k) = old(v, l) => u = v /\ k = l
  BY DEF BrIInv, InOnePlace
<1>3. \A u \in Tasks, k \in Nat :
        old(u, k) # NoTask => bridge.ran[old(u, k)] = 0 /\ bridge.task[old(u, k)].at # "idle"
  BY DEF BrIInv, NotYet
<1>4. /\ new(t, i) \in {old(s, j), NoTask} /\ (s # t \/ i # j => new(s, j) = NoTask)
      /\ \A u \in Tasks, k \in Nat : u # t \/ k # i => new(u, k) \in {old(u, k), NoTask}
  OBVIOUS
<1> HIDE DEF old, new
<1>5. \A u, v \in Tasks, k, l \in Nat :
        new(u, k) # NoTask /\ new(u, k) = new(v, l) => u = v /\ k = l
  BY <1>2, <1>4
<1>6. ASSUME NEW u \in Tasks, NEW k \in Nat, new(u, k) # NoTask
      PROVE  bridge.ran[new(u, k)] = 0 /\ task[new(u, k)].at # "idle"
  <2>1. PICK v \in Tasks, l \in Nat : new(u, k) = old(v, l)
    BY <1>4, <1>6
  <2>2. new(u, k) \in Tasks
    BY <1>1, <1>6 DEF Holdable
  <2> QED
    BY <1>3, <1>6, <2>1, <2>2
<1> QED
  BY <1>5, <1>6 DEF InOnePlace, NotYet, new

\* A step of one task that leaves what was handled alone.
LEMMA BrTurn ==
  ASSUME BrIInv, NEW t \in Tasks, NEW r \in BrTasks, NEW j \in Nat, NEW i \in Nat,
         r.at # "idle", bridge'.task = [bridge.task EXCEPT ![t] = r],
         bridge'.ran = bridge.ran, BrTyped',
         r.at = "pipeline" => r.call \in Tasks, BrSize(r.res),
         HeldIn(r, i) \in {HeldIn(bridge.task[t], j), NoTask},
         i # j => HeldIn(r, j) = NoTask,
         \A k \in Nat : k # i => HeldIn(r, k) \in {HeldIn(bridge.task[t], k), NoTask}
  PROVE  BrIInv'
<1> DEFINE task == bridge'.task
<1>1. bridge.task \in [Tasks -> BrTasks]
  BY DEF BrIInv, BrTyped
<1>2. /\ task \in [Tasks -> BrTasks] /\ task[t] = r
      /\ \A u \in Tasks : u # t => task[u] = bridge.task[u]
  BY <1>1
<1> HIDE DEF task
<1>3. ASSUME NEW u \in Tasks, NEW k \in Nat, u # t \/ k # i
      PROVE  HeldIn(task[u], k) \in {HeldIn(bridge.task[u], k), NoTask}
  <2>1. CASE u = t
    BY <1>2, <1>3, <2>1
  <2>2. CASE u # t
    <3>1. task[u] = bridge.task[u]
      BY <1>2, <2>2
    <3> QED
      BY <3>1
  <2> QED
    BY <2>1, <2>2
<1>6. ASSUME NEW u \in Tasks, task[u].at = "idle" PROVE bridge.task[u].at = "idle"
  <2>1. u # t
    BY <1>2, <1>6
  <2> QED
    BY <1>2, <1>6, <2>1
<1>4. InOnePlace(task) /\ NotYet(task, bridge.ran)
  BY <1>2, <1>3, <1>6, BrMoves
<1>5. \A u \in Tasks :
        /\ bridge.ran[u] <= 1 /\ (task[u].at = "idle" => bridge.ran[u] = 0)
        /\ task[u].at = "pipeline" => task[u].call \in Tasks
        /\ BrSize(task[u].res)
  BY <1>2 DEF BrIInv, Task
<1> QED
  BY <1>4, <1>5 DEF BrIInv, Task, task

\* Every step of a task, through the adapters and the scopes, keeps the invariant.
LEMMA BrSteps == BrIInv /\ [BrNext]_bridge => BrIInv'
<1> SUFFICES ASSUME BrIInv, [BrNext]_bridge PROVE BrIInv'
  OBVIOUS
<1>t. bridge.task \in [Tasks -> BrTasks] /\ BrTyped /\ bridge.ran \in [Tasks -> Nat]
  BY DEF BrIInv, BrTyped
<1>p. /\ "pipeline" \in BrPlaces /\ "inward" \in BrPlaces /\ "outward" \in BrPlaces
      /\ "done" \in BrPlaces /\ "dropped" \in BrPlaces /\ NoTask \in Holdable /\ Tasks \subseteq Holdable
      /\ NoneYet \in BrAnswers /\ Away \in BrTasks /\ Away.slots = <<>> /\ Away.res = NoneYet
  BY DEF BrPlaces, Holdable, NoneYet, BrAnswers, BrKinds, Away, BrTasks
<1>x. BrSize(NoneYet) /\ BrSize(ServiceError) /\ ServiceError \in BrAnswers
  BY <1>p DEF BrSize, ServiceError, NoneYet, BrAnswers, BrKinds
<1>y. \A t \in Tasks : Text(t) \in BrAnswers /\ BrSize(Text(t))
  BY <1>p DEF Text, BrAnswers, BrSize, BrKinds
\* The answer of a layer, of the handler or of an adapter goes outwards.
<1>c. ASSUME NEW t \in Tasks, NEW r \in BrTasks, NEW res \in BrAnswers, BrSize(res),
             NEW q, q = Comes(r, res),
             \A k \in Nat \ {0} : HeldIn(r, k) \in {HeldIn(bridge.task[t], k), NoTask}
      PROVE  /\ q \in BrTasks /\ q.at \in {"done", "outward"} /\ q.res = res
             /\ \A k \in Nat : HeldIn(q, k) \in {HeldIn(bridge.task[t], k), NoTask}
             /\ HeldIn(q, 0) = NoTask
  <2> DEFINE at == IF r.slots = <<>> THEN "done" ELSE "outward"
  <2>1. q = [r EXCEPT !.res = res, !.at = at]
    BY <1>c DEF Comes
  <2>2. at \in BrPlaces /\ at \in {"done", "outward"}
    BY <1>p
  <2> HIDE DEF at
  <2>3. q \in BrTasks
    BY <2>1, <2>2 DEF BrTasks
  <2>4. q.at = at /\ q.res = res /\ q.slots = r.slots
    BY <2>1 DEF BrTasks
  <2>5. HeldIn(q, 0) = NoTask /\ \A k \in Nat \ {0} : HeldIn(q, k) = HeldIn(r, k)
    BY <2>2, <2>4 DEF HeldIn
  <2> QED
    BY <1>c, <2>2, <2>3, <2>4, <2>5
\* A task that is given an answer, by itself.
<1>r. ASSUME NEW t \in Tasks, NEW res \in BrAnswers, BrSize(res),
             bridge' = [bridge EXCEPT !.task[t] = Comes(Task(t), res)]
      PROVE  BrIInv'
  <2> DEFINE q == Comes(Task(t), res)
  <2>1. Task(t) \in BrTasks /\ \A k \in Nat : HeldIn(Task(t), k) = HeldIn(bridge.task[t], k)
    BY <1>t DEF Task
  <2>2. /\ q \in BrTasks /\ q.at \in {"done", "outward"} /\ q.res = res
        /\ \A k \in Nat : HeldIn(q, k) \in {HeldIn(bridge.task[t], k), NoTask}
    BY <1>c, <1>r, <2>1
  <2>3. bridge' = [bridge EXCEPT !.task[t] = q]
    BY <1>r
  <2> HIDE DEF q
  <2>4. /\ bridge'.task = [bridge.task EXCEPT ![t] = q] /\ bridge'.ran = bridge.ran
        /\ BrTyped'
    BY <1>t, <2>2, <2>3 DEF BrTyped
  <2> QED
    BY <1>r, <2>2, <2>4, BrTurn
<1>1. CASE BrStart
  <2>1. bridge'.task = bridge.task /\ bridge'.ran = bridge.ran /\ BrTyped'
    BY <1>1, <1>t DEF BrStart, BrTyped
  <2> QED
    BY <2>1 DEF BrIInv, Task, InOnePlace, NotYet
<1>2. ASSUME NEW t \in Tasks, BrArrive(t) PROVE BrIInv'
  <2> DEFINE r == [Away EXCEPT !.at = "pipeline", !.call = t]
             task == [bridge.task EXCEPT ![t] = r]
  <2>1. Task(t).at = "idle" /\ bridge' = [bridge EXCEPT !.task[t] = r]
    BY <1>2 DEF BrArrive
  <2>2. /\ r \in BrTasks /\ r.at = "pipeline" /\ r.call = t /\ r.res = NoneYet
        /\ r.slots = <<>>
    BY <1>p DEF BrTasks
  <2> HIDE DEF r
  <2>3. /\ bridge'.task = task /\ bridge'.ran = bridge.ran /\ BrTyped'
    BY <1>t, <2>1, <2>2 DEF BrTyped
  <2>4. task[t] = r /\ \A u \in Tasks : u # t => task[u] = bridge.task[u]
    BY <1>t
  <2> HIDE DEF task
  <2>5. HeldIn(r, 0) = t /\ \A k \in Nat \ {0} : HeldIn(r, k) = NoTask
    BY <2>2 DEF HeldIn
  <2>6. \A u \in Tasks, k \in Nat : HeldIn(bridge.task[u], k) # t
    BY <2>1, Bridged DEF BrIInv, NotYet, Task
  <2>7. t # NoTask /\ bridge.ran[t] = 0
    BY <2>1, Bridged DEF BrIInv
  <2>8. InOnePlace(task)
    <3> SUFFICES ASSUME NEW u \in Tasks, NEW v \in Tasks, NEW k \in Nat, NEW l \in Nat,
                        HeldIn(task[u], k) # NoTask, HeldIn(task[u], k) = HeldIn(task[v], l)
                 PROVE  u = v /\ k = l
      BY DEF InOnePlace
    <3>1. CASE u = t
      <4>1. k = 0 /\ HeldIn(task[u], k) = t
        BY <2>4, <2>5, <3>1
      <4>2. v = t
        BY <2>4, <2>6, <4>1
      <4> QED
        BY <2>4, <2>5, <2>7, <3>1, <4>1, <4>2
    <3>2. CASE u # t
      <4>1. task[u] = bridge.task[u]
        BY <2>4, <3>2
      <4>2. HeldIn(bridge.task[u], k) # t
        BY <2>6
      <4>3. v # t
        BY <2>4, <2>5, <4>1, <4>2
      <4>4. task[v] = bridge.task[v]
        BY <2>4, <4>3
      <4> QED
        BY <4>1, <4>4 DEF BrIInv, InOnePlace
    <3> QED
      BY <3>1, <3>2
  <2>9. NotYet(task, bridge.ran)
    <3> SUFFICES ASSUME NEW u \in Tasks, NEW k \in Nat, HeldIn(task[u], k) # NoTask
                 PROVE  /\ bridge.ran[HeldIn(task[u], k)] = 0
                        /\ task[HeldIn(task[u], k)].at # "idle"
      BY DEF NotYet
    <3>1. CASE u = t
      <4>1. k = 0 /\ HeldIn(task[u], k) = t
        BY <2>4, <2>5, <3>1
      <4> QED
        BY <2>2, <2>4, <2>7, <4>1
    <3>2. CASE u # t
      <4> DEFINE c == HeldIn(bridge.task[u], k)
      <4>1. HeldIn(task[u], k) = c
        BY <2>4, <3>2
      <4>2. c \in Tasks /\ c # t
        BY <1>t, <2>6, <4>1, BrHeld DEF Holdable
      <4>3. bridge.ran[c] = 0 /\ bridge.task[c].at # "idle"
        BY <4>1 DEF BrIInv, NotYet
      <4> HIDE DEF c
      <4> QED
        BY <2>4, <4>1, <4>2, <4>3
    <3> QED
      BY <3>1, <3>2
  <2>10. \A u \in Tasks :
           /\ bridge.ran[u] <= 1 /\ (task[u].at = "idle" => bridge.ran[u] = 0)
           /\ task[u].at = "pipeline" => task[u].call \in Tasks
           /\ BrSize(task[u].res)
    BY <1>x, <2>2, <2>4 DEF BrIInv, Task
  <2> QED
    BY <2>3, <2>8, <2>9, <2>10 DEF BrIInv, Task
<1>3. ASSUME NEW t \in Tasks, BrScope(t) PROVE BrIInv'
  <2> DEFINE n == Len(bridge.task[t].slots) + 1
             slots == Append(bridge.task[t].slots, bridge.task[t].call)
             r == [bridge.task[t] EXCEPT !.at = "inward", !.slots = slots]
  <2>1. bridge.task[t].at = "pipeline" /\ bridge' = [bridge EXCEPT !.task[t] = r]
    BY <1>3 DEF BrScope, Task
  <2>2. /\ bridge.task[t] \in BrTasks /\ bridge.task[t].slots \in Seq(Holdable)
        /\ bridge.task[t].call \in Holdable /\ BrSize(bridge.task[t].res)
    BY <1>t DEF BrTasks, BrIInv, Task
  <2>3. /\ slots \in Seq(Holdable) /\ n \in Nat \ {0} /\ DOMAIN slots = 1..n
        /\ DOMAIN bridge.task[t].slots = 1..(n - 1)
        /\ slots[n] = bridge.task[t].call
        /\ \A k \in 1..(n - 1) : slots[k] = bridge.task[t].slots[k]
    BY <2>2
  <2> HIDE DEF slots, n
  <2>4. /\ r \in BrTasks /\ r.at = "inward" /\ r.slots = slots /\ r.res = bridge.task[t].res
    BY <1>p, <2>2, <2>3 DEF BrTasks
  <2> HIDE DEF r
  <2>5. /\ bridge'.task = [bridge.task EXCEPT ![t] = r] /\ bridge'.ran = bridge.ran
        /\ BrTyped'
    BY <1>t, <2>1, <2>4 DEF BrTyped
  <2>6. HeldIn(r, n) = HeldIn(bridge.task[t], 0) /\ HeldIn(r, 0) = NoTask
    BY <2>1, <2>3, <2>4 DEF HeldIn
  <2>7. \A k \in Nat : k # n => HeldIn(r, k) \in {HeldIn(bridge.task[t], k), NoTask}
    BY <2>3, <2>4 DEF HeldIn
  <2>8. /\ 0 \in Nat /\ n \in Nat /\ r.at # "idle" /\ r.at # "pipeline" /\ BrSize(r.res)
        /\ HeldIn(r, n) \in {HeldIn(bridge.task[t], 0), NoTask}
        /\ (n # 0 => HeldIn(r, 0) = NoTask)
    BY <2>2, <2>3, <2>4, <2>6
  <2> QED
    BY ONLY BrIInv, t \in Tasks, <2>4, <2>5, <2>7, <2>8, BrTurn
<1>4. ASSUME NEW t \in Tasks, NEW body \in {"buffered", "sized", "stream"}, BrHandle(t, body)
      PROVE  BrIInv'
  <2> DEFINE c == bridge.task[t].call
             buffered == body = "buffered"
             sized == body = "sized"
             measured == body # "stream"
             res == [kind |-> "answer", of |-> c, exact |-> buffered, length |-> sized,
                     sized |-> measured]
             q == Comes(bridge.task[t], res)
             ran == [bridge.ran EXCEPT ![c] = bridge.ran[c] + 1]
  <2>1. /\ bridge.task[t].at = "pipeline"
        /\ bridge' = [bridge EXCEPT !.ran = ran, !.task[t] = q]
    BY <1>4 DEF BrHandle, Task
  <2>2. c \in Tasks /\ bridge.task[t] \in BrTasks /\ HeldIn(bridge.task[t], 0) = c
    BY <1>t, <2>1 DEF BrIInv, Task, HeldIn
  <2>3. res \in BrAnswers /\ BrSize(res)
    BY <2>2, <1>p DEF BrAnswers, BrSize, BrKinds
  <2> HIDE DEF res, c
  <2>4. /\ q \in BrTasks /\ q.at \in {"done", "outward"} /\ q.res = res
        /\ \A k \in Nat : HeldIn(q, k) \in {HeldIn(bridge.task[t], k), NoTask}
        /\ HeldIn(q, 0) = NoTask
    BY <1>c, <2>2, <2>3
  <2> HIDE DEF q
  <2>5. ran \in [Tasks -> Nat] /\ ran[c] = bridge.ran[c] + 1
        /\ \A u \in Tasks : u # c => ran[u] = bridge.ran[u]
    BY <1>t, <2>2
  <2> HIDE DEF ran
  <2> DEFINE task == bridge'.task
  <2>6. /\ task = [bridge.task EXCEPT ![t] = q] /\ bridge'.ran = ran /\ BrTyped'
    BY <1>t, <2>1, <2>4, <2>5 DEF BrTyped
  <2>7. task \in [Tasks -> BrTasks] /\ task[t] = q
        /\ \A u \in Tasks : u # t => task[u] = bridge.task[u]
    BY <1>t, <2>4, <2>6
  <2> HIDE DEF task
  <2>8. ASSUME NEW u \in Tasks, NEW k \in Nat
        PROVE  HeldIn(task[u], k) \in {HeldIn(bridge.task[u], k), NoTask} /\ HeldIn(task[u], k) # c
    <3>1. HeldIn(task[u], k) \in {HeldIn(bridge.task[u], k), NoTask}
      BY <2>4, <2>7
    <3>2. u = t /\ k = 0 => HeldIn(task[u], k) = NoTask
      BY <2>4, <2>7
    <3>3. u # t \/ k # 0 => HeldIn(bridge.task[u], k) # c
      BY <2>2, Bridged DEF BrIInv, InOnePlace
    <3> QED
      BY <2>2, <3>1, <3>2, <3>3, Bridged
  <2>9. ASSUME NEW u \in Tasks, task[u].at = "idle" PROVE bridge.task[u].at = "idle"
    <3>1. u # t
      BY <2>4, <2>7, <2>9
    <3> QED
      BY <2>7, <2>9, <3>1
  <2>10. InOnePlace(task) /\ NotYet(task, bridge.ran)
    <3>1. HeldIn(task[t], 0) \in {HeldIn(bridge.task[t], 0), NoTask} /\ 0 \in Nat
      BY <2>8
    <3> QED
      BY <2>7, <2>8, <2>9, <3>1, BrMoves
  <2>11. NotYet(task, ran)
    <3> SUFFICES ASSUME NEW u \in Tasks, NEW k \in Nat, HeldIn(task[u], k) # NoTask
                 PROVE  /\ ran[HeldIn(task[u], k)] = 0
                        /\ task[HeldIn(task[u], k)].at # "idle"
      BY DEF NotYet
    <3>1. HeldIn(task[u], k) \in Tasks
      BY <2>7, BrHeld DEF Holdable
    <3> QED
      BY <2>5, <2>8, <2>10, <3>1 DEF NotYet
  <2>12. bridge.ran[c] = 0 /\ bridge.task[c].at # "idle"
    BY <2>2, Bridged DEF BrIInv, NotYet
  <2>13. ASSUME NEW u \in Tasks
         PROVE  /\ ran[u] <= 1 /\ (task[u].at = "idle" => ran[u] = 0)
                /\ task[u].at = "pipeline" => task[u].call \in Tasks
                /\ BrSize(task[u].res)
    <3>1. bridge.ran[u] <= 1 /\ (bridge.task[u].at = "idle" => bridge.ran[u] = 0)
          /\ (bridge.task[u].at = "pipeline" => bridge.task[u].call \in Tasks)
          /\ BrSize(bridge.task[u].res)
      BY DEF BrIInv, Task
    <3>2. ran[u] <= 1 /\ (task[u].at = "idle" => ran[u] = 0)
      BY <2>5, <2>9, <2>12, <3>1
    <3> QED
      BY <2>3, <2>4, <2>7, <3>1, <3>2
  <2> QED
    BY <2>6, <2>10, <2>11, <2>13 DEF BrIInv, Task, task
<1>5. ASSUME NEW t \in Tasks, BrWorker(t) \/ BrLayerAnswers(t, Text(t))
                              \/ BrLayerAnswers(t, ServiceError)
      PROVE  BrIInv'
  <2>1. PICK res \in {Text(t), ServiceError} :
          bridge' = [bridge EXCEPT !.task[t] = Comes(Task(t), res)]
    BY <1>5 DEF BrWorker, BrLayerAnswers, Task
  <2>2. res \in BrAnswers /\ BrSize(res)
    BY <1>p, <1>x, <1>y
  <2> QED
    BY <1>r, <2>1, <2>2
\* The place of the innermost slot of a task.
<1>s. ASSUME NEW u \in Tasks, InLayer(u)
      PROVE  /\ Depth(u) \in Nat \ {0} /\ Slot(u) = HeldIn(bridge.task[u], Depth(u))
             /\ bridge.task[u].at \in {"inward", "outward"}
             /\ Emptied(bridge.task[u]) \in BrTasks
             /\ Emptied(bridge.task[u]).at = bridge.task[u].at
             /\ Emptied(bridge.task[u]).res = bridge.task[u].res
             /\ HeldIn(Emptied(bridge.task[u]), Depth(u)) = NoTask
             /\ \A k \in Nat : k # Depth(u) =>
                  HeldIn(Emptied(bridge.task[u]), k) = HeldIn(bridge.task[u], k)
             /\ HeldIn(bridge.task[u], 0) = NoTask
  <2> DEFINE r == bridge.task[u]
             d == Depth(u)
             slots == [r.slots EXCEPT ![d] = NoTask]
             e == [r EXCEPT !.slots = slots]
  <2>1. /\ r \in BrTasks /\ r.slots \in Seq(Holdable) /\ d = Len(r.slots) /\ d \in Nat \ {0}
        /\ DOMAIN r.slots = 1..d /\ r.at \in {"inward", "outward"}
    BY <1>t, <1>s DEF BrTasks, Depth, Task, InLayer
  <2>2. slots \in Seq(Holdable) /\ DOMAIN slots = 1..d /\ slots[d] = NoTask
        /\ \A k \in 1..d : k # d => slots[k] = r.slots[k]
    BY <1>p, <2>1
  <2>3. Emptied(r) = e
    BY <2>1 DEF Emptied
  <2>4. Slot(u) = r.slots[d]
    BY DEF Slot, Task
  <2> HIDE DEF r, d, slots
  <2>5. e \in BrTasks /\ e.at = r.at /\ e.slots = slots /\ e.res = r.res
    BY <2>1, <2>2 DEF BrTasks
  <2> HIDE DEF e
  <2>6. /\ HeldIn(r, d) = r.slots[d] /\ HeldIn(r, 0) = NoTask /\ HeldIn(e, d) = NoTask
        /\ \A k \in Nat : k # d => HeldIn(e, k) = HeldIn(r, k)
    BY <2>1, <2>2, <2>5 DEF HeldIn
  <2> QED
    BY <2>1, <2>3, <2>4, <2>5, <2>6 DEF r, d
<1>6. ASSUME NEW t \in Tasks, BrCall(t) PROVE BrIInv'
  <2> DEFINE d == Depth(t)
             old == bridge.task[t]
             c == Slot(t)
             e == Emptied(old)
             r == [e EXCEPT !.at = "pipeline", !.call = c]
  <2>1. CASE c = NoTask
    <3>1. bridge' = [bridge EXCEPT !.task[t] = Comes(Task(t), ServiceError)]
      BY <1>6, <2>1 DEF BrCall, Task
    <3> QED
      BY <1>p, <1>r, <1>x, <3>1
  <2>2. CASE c # NoTask
    <3>1. InLayer(t) /\ bridge' = [bridge EXCEPT !.task[t] = r]
      BY <1>6, <2>2 DEF BrCall
    <3>2. /\ d \in Nat \ {0} /\ c = HeldIn(old, d) /\ e \in BrTasks /\ HeldIn(e, d) = NoTask
          /\ \A k \in Nat : k # d => HeldIn(e, k) = HeldIn(old, k)
          /\ e.res = old.res /\ old \in BrTasks /\ BrSize(old.res)
      BY <1>s, <1>t, <3>1 DEF BrIInv, Task
    <3>3. c \in Tasks
      BY <2>2, <3>2, BrHeld DEF Holdable
    <3> HIDE DEF d, c, e, old
    <3>4. r \in BrTasks /\ r.at = "pipeline" /\ r.call = c /\ r.slots = e.slots /\ r.res = e.res
      BY <1>p, <3>2, <3>3 DEF BrTasks
    <3> HIDE DEF r
    <3>5. HeldIn(r, 0) = c /\ \A k \in Nat \ {0} : HeldIn(r, k) = HeldIn(e, k)
      BY <3>4 DEF HeldIn
    <3>6. /\ bridge'.task = [bridge.task EXCEPT ![t] = r] /\ bridge'.ran = bridge.ran
          /\ BrTyped'
      BY <1>t, <3>1, <3>4 DEF BrTyped
    <3>7. /\ 0 \in Nat /\ d \in Nat /\ r.at # "idle" /\ r.call \in Tasks /\ BrSize(r.res)
          /\ HeldIn(r, 0) \in {HeldIn(bridge.task[t], d), NoTask}
          /\ (0 # d => HeldIn(r, d) = NoTask)
          /\ \A k \in Nat : k # 0 => HeldIn(r, k) \in {HeldIn(bridge.task[t], k), NoTask}
      BY <3>2, <3>3, <3>4, <3>5 DEF old
    <3> QED
      BY ONLY BrIInv, t \in Tasks, <3>4, <3>6, <3>7, BrTurn
  <2> QED
    BY <2>1, <2>2
<1>7. ASSUME NEW t \in Tasks, NEW u \in Tasks, BrBorrow(t, u) PROVE BrIInv'
  <2> DEFINE d == Depth(u)
             c == Slot(u)
             e == Emptied(bridge.task[u])
             r == [bridge.task[t] EXCEPT !.call = c, !.at = "pipeline", !.borrowed = TRUE]
  <2>1. CASE c = NoTask
    <3>1. bridge' = [bridge EXCEPT !.task[t] = Comes(Task(t), ServiceError)]
      BY <1>7, <2>1 DEF BrBorrow, Task
    <3> QED
      BY <1>p, <1>r, <1>x, <3>1
  <2>2. CASE c # NoTask
    <3>1. /\ t # u /\ InLayer(t) /\ InLayer(u)
          /\ bridge' = [bridge EXCEPT !.task = [[bridge.task EXCEPT ![u] = e] EXCEPT ![t] = r]]
      BY <1>7, <1>t, <2>2 DEF BrBorrow, BrTyped
    <3>2. /\ d \in Nat \ {0} /\ c = HeldIn(bridge.task[u], d) /\ e \in BrTasks
          /\ HeldIn(e, d) = NoTask
          /\ \A k \in Nat : k # d => HeldIn(e, k) = HeldIn(bridge.task[u], k)
          /\ e.res = bridge.task[u].res /\ e.at = bridge.task[u].at
          /\ e.at \in {"inward", "outward"}
          /\ HeldIn(bridge.task[t], 0) = NoTask
      BY <1>s, <3>1
    <3>3. c \in Tasks
      BY <1>t, <2>2, <3>2, BrHeld DEF Holdable
    <3> HIDE DEF d, c, e
    <3>4. /\ r \in BrTasks /\ r.at = "pipeline" /\ r.call = c
          /\ r.slots = bridge.task[t].slots /\ r.res = bridge.task[t].res
      BY <1>p, <1>t, <3>3 DEF BrTasks
    <3> HIDE DEF r
    <3>5. HeldIn(r, 0) = c /\ \A k \in Nat \ {0} : HeldIn(r, k) = HeldIn(bridge.task[t], k)
      BY <3>4 DEF HeldIn
    <3> DEFINE task == bridge'.task
    <3>6. /\ task = [[bridge.task EXCEPT ![u] = e] EXCEPT ![t] = r] /\ bridge'.ran = bridge.ran
          /\ BrTyped'
      BY <1>t, <3>1, <3>2, <3>4 DEF BrTyped
    <3>7. /\ task \in [Tasks -> BrTasks] /\ task[t] = r /\ task[u] = e
          /\ \A v \in Tasks : v # t /\ v # u => task[v] = bridge.task[v]
      BY <1>t, <3>1, <3>2, <3>4, <3>6
    <3> HIDE DEF task
    <3>8. HeldIn(task[t], 0) \in {HeldIn(bridge.task[u], d), NoTask} /\ 0 \in Nat /\ d \in Nat
          /\ HeldIn(task[u], d) = NoTask
      BY <3>2, <3>5, <3>7
    <3>9. ASSUME NEW v \in Tasks, NEW k \in Nat, v # t \/ k # 0
          PROVE  HeldIn(task[v], k) \in {HeldIn(bridge.task[v], k), NoTask}
      <4>1. CASE v = t
        BY <3>5, <3>7, <3>9, <4>1
      <4>2. CASE v = u
        BY <3>2, <3>7, <4>2
      <4>3. CASE v # t /\ v # u
        <5>1. task[v] = bridge.task[v]
          BY <3>7, <4>3
        <5> QED
          BY <5>1
      <4> QED
        BY <4>1, <4>2, <4>3
    <3>10. ASSUME NEW v \in Tasks
           PROVE  /\ task[v].at = "idle" => bridge.task[v].at = "idle"
                  /\ task[v].at = "pipeline" => task[v].call \in Tasks
                  /\ BrSize(task[v].res)
      <4>1. (bridge.task[v].at = "pipeline" => bridge.task[v].call \in Tasks)
            /\ BrSize(bridge.task[v].res)
        BY DEF BrIInv, Task
      <4>2. CASE v = t
        BY <3>3, <3>4, <3>7, <4>1, <4>2
      <4>3. CASE v = u
        BY <3>1, <3>2, <3>7, <4>1, <4>3
      <4>4. CASE v # t /\ v # u
        <5>1. task[v] = bridge.task[v]
          BY <3>7, <4>4
        <5> QED
          BY <4>1, <5>1
      <4> QED
        BY <4>2, <4>3, <4>4
    <3>11. InOnePlace(task) /\ NotYet(task, bridge.ran)
      BY <3>7, <3>8, <3>9, <3>10, BrMoves
    <3>12. \A v \in Tasks : bridge.ran[v] <= 1 /\ (task[v].at = "idle" => bridge.ran[v] = 0)
      BY <3>10 DEF BrIInv, Task
    <3> QED
      BY <3>6, <3>10, <3>11, <3>12 DEF BrIInv, Task, task
  <2> QED
    BY <2>1, <2>2
<1>8. ASSUME NEW t \in Tasks, BrRecodes(t) PROVE BrIInv'
  <2> DEFINE old == bridge.task[t]
             res == [old.res EXCEPT !.exact = FALSE, !.length = FALSE, !.sized = FALSE]
             r == [old EXCEPT !.res = res]
  <2>1. old.at = "outward" /\ bridge' = [bridge EXCEPT !.task[t] = r]
    BY <1>8, <1>t DEF BrRecodes, Task
  <2>2. old \in BrTasks /\ old.res \in BrAnswers /\ BrSize(old.res)
    BY <1>t DEF BrIInv, Task, BrTasks
  <2>3. res \in BrAnswers /\ res.sized = FALSE
    BY <2>2 DEF BrAnswers
  <2>4. BrSize(res)
    BY <2>3 DEF BrSize
  <2> HIDE DEF res, old
  <2>5. r \in BrTasks /\ r.at = old.at /\ r.res = res /\ r.slots = old.slots
    BY <2>2, <2>3 DEF BrTasks
  <2> HIDE DEF r
  <2>6. /\ bridge'.task = [bridge.task EXCEPT ![t] = r] /\ bridge'.ran = bridge.ran
        /\ BrTyped'
    BY <1>t, <2>1, <2>5 DEF BrTyped
  <2>7. \A k \in Nat : HeldIn(r, k) = HeldIn(old, k)
    BY <2>1, <2>5 DEF HeldIn
  <2>8. /\ 0 \in Nat /\ r.at # "idle" /\ r.at # "pipeline" /\ BrSize(r.res)
        /\ \A k \in Nat : HeldIn(r, k) \in {HeldIn(bridge.task[t], k), NoTask}
    BY <2>1, <2>4, <2>5, <2>7 DEF old
  <2> QED
    BY ONLY BrIInv, t \in Tasks, <2>5, <2>6, <2>8, BrTurn
<1>9. ASSUME NEW t \in Tasks, BrLeaves(t) PROVE BrIInv'
  <2> DEFINE old == bridge.task[t]
             n == Len(old.slots) - 1
             slots == SubSeq(old.slots, 1, n)
             out == [old EXCEPT !.slots = slots]
             res == Rewrapped(t, out.res)
             q == Comes(out, res)
  <2>1. old.at = "outward" /\ bridge' = [bridge EXCEPT !.task[t] = q]
    BY <1>9 DEF BrLeaves, Task
  <2>2. old \in BrTasks /\ old.res \in BrAnswers /\ BrSize(old.res) /\ old.slots \in Seq(Holdable)
    BY <1>t DEF BrIInv, Task, BrTasks
  <2>3. /\ slots \in Seq(Holdable)
        /\ \A k \in DOMAIN slots : k \in DOMAIN old.slots /\ slots[k] = old.slots[k]
    BY <2>2
  <2> HIDE DEF old, slots
  <2>4. out \in BrTasks /\ out.at = old.at /\ out.slots = slots /\ out.res = old.res
    BY <2>2, <2>3 DEF BrTasks
  <2> HIDE DEF out
  <2>5. res \in BrAnswers /\ BrSize(res)
    <3>1. CASE old.res.kind = "error"
      BY <1>y, <2>4, <3>1 DEF Rewrapped
    <3>2. CASE old.res.kind # "error"
      <4> DEFINE l == old.res.length \/ old.res.exact
                 a == [old.res EXCEPT !.exact = FALSE, !.length = l]
      <4>1. res = a
        BY <2>4, <3>2 DEF Rewrapped
      <4>2. l \in BOOLEAN /\ (l <=> old.res.length \/ old.res.exact)
        BY <2>2 DEF BrAnswers
      <4> HIDE DEF l
      <4>3. a \in BrAnswers /\ a.kind = old.res.kind /\ a.sized = old.res.sized
            /\ a.length = l
        <5>1. a \in BrAnswers
          BY <2>2, <4>2 DEF BrAnswers
        <5>2. a.kind = old.res.kind
          BY <2>2 DEF BrAnswers
        <5>3. a.sized = old.res.sized
          BY <2>2 DEF BrAnswers
        <5>4. a.length = l
          BY <2>2 DEF BrAnswers
        <5> QED
          BY <5>1, <5>2, <5>3, <5>4
      <4>5. BrSize(a)
        BY <2>2, <4>2, <4>3 DEF BrSize
      <4> QED
        BY <4>1, <4>3, <4>5
    <3> QED
      BY <3>1, <3>2
  <2> HIDE DEF res
  <2>6. \A k \in Nat \ {0} : HeldIn(out, k) \in {HeldIn(bridge.task[t], k), NoTask}
    BY <2>3, <2>4 DEF HeldIn, old
  <2>7. /\ q \in BrTasks /\ q.at \in {"done", "outward"} /\ q.res = res
        /\ \A k \in Nat : HeldIn(q, k) \in {HeldIn(bridge.task[t], k), NoTask}
    BY <1>c, <2>4, <2>5, <2>6
  <2> HIDE DEF q
  <2>8. /\ bridge'.task = [bridge.task EXCEPT ![t] = q] /\ bridge'.ran = bridge.ran
        /\ BrTyped'
    BY <1>t, <2>1, <2>7 DEF BrTyped
  <2> QED
    BY <2>5, <2>7, <2>8, BrTurn
<1>10. ASSUME NEW t \in Tasks, BrDropped(t) PROVE BrIInv'
  <2> DEFINE q == [Away EXCEPT !.at = "dropped"]
  <2>1. bridge' = [bridge EXCEPT !.task[t] = q]
    BY <1>10 DEF BrDropped
  <2>2. q \in BrTasks /\ q.at = "dropped" /\ q.res = NoneYet /\ q.slots = <<>>
    BY <1>p DEF BrTasks
  <2> HIDE DEF q
  <2>3. \A k \in Nat : HeldIn(q, k) = NoTask
    BY <2>2 DEF HeldIn
  <2>4. /\ bridge'.task = [bridge.task EXCEPT ![t] = q] /\ bridge'.ran = bridge.ran
        /\ BrTyped'
    BY <1>t, <2>1, <2>2 DEF BrTyped
  <2>5. /\ 0 \in Nat /\ q.at # "idle" /\ q.at # "pipeline" /\ BrSize(q.res)
        /\ \A k \in Nat : HeldIn(q, k) \in {HeldIn(bridge.task[t], k), NoTask}
    BY <1>x, <2>2, <2>3
  <2> QED
    BY ONLY BrIInv, t \in Tasks, <2>2, <2>4, <2>5, BrTurn
<1>11. CASE UNCHANGED bridge
  BY <1>11 DEF BrIInv, BrTyped, Task, InOnePlace, NotYet
<1> QED
  BY <1>1, <1>2, <1>3, <1>4, <1>5, <1>6, <1>7, <1>8, <1>9, <1>10, <1>11 DEF BrNext

\* A task without the call of another one has, runs and answers its own; what it
\* carries outwards is an answer or an error, and an answer where it ends.
BrOwned(t, r) ==
  /\ ~r.borrowed =>
       /\ r.at = "pipeline" => r.call = t
       /\ \A k \in DOMAIN r.slots : r.slots[k] \in {t, NoTask}
       /\ r.res.kind = "answer" => r.res.of = t
  /\ r.at = "outward" => r.res.kind \in {"answer", "error"}
  /\ r.at = "done" => r.res.kind = "answer"

BrOwn == \A t \in Tasks : BrOwned(t, Task(t))

\* Every step of a task leaves it with its own, unless it borrows.
LEMMA BrOwnSteps == BrTyped /\ BrOwn /\ [BrNext]_bridge => BrOwn'
<1> SUFFICES ASSUME BrTyped, BrOwn, [BrNext]_bridge PROVE BrOwn'
  OBVIOUS
<1>t. bridge.task \in [Tasks -> BrTasks]
  BY DEF BrTyped
<1>o. \A t \in Tasks : bridge.task[t] \in BrTasks /\ BrOwned(t, bridge.task[t])
  BY <1>t DEF BrOwn, Task
<1>1. CASE BrStart \/ UNCHANGED bridge
  <2>1. bridge'.task = bridge.task
    BY <1>1, <1>t DEF BrStart, BrTyped
  <2> QED
    BY <2>1 DEF BrOwn, Task
\* One task moves.
<1>m. ASSUME NEW t \in Tasks, NEW r, BrOwned(t, r), bridge' = [bridge EXCEPT !.task[t] = r]
      PROVE  BrOwn'
  <2>1. bridge'.task = [bridge.task EXCEPT ![t] = r]
    BY <1>m DEF BrTyped
  <2>2. \A v \in Tasks : bridge'.task[v] = IF v = t THEN r ELSE bridge.task[v]
    BY <1>t, <2>1
  <2> QED
    BY <1>o, <1>m, <2>2 DEF BrOwn, Task
\* It is given an answer or an error where it is in an adapter, or an answer.
<1>c. ASSUME NEW t \in Tasks, NEW r \in BrTasks, NEW res \in BrAnswers, BrOwned(t, r),
             ~r.borrowed /\ res.kind = "answer" => res.of = t,
             res.kind \in {"answer", "error"}, r.slots = <<>> => res.kind = "answer"
      PROVE  BrOwned(t, Comes(r, res))
  <2> DEFINE at == IF r.slots = <<>> THEN "done" ELSE "outward"
             q == [r EXCEPT !.res = res, !.at = at]
  <2>1. Comes(r, res) = q
    BY DEF Comes
  <2>2. q.res = res /\ q.at = at /\ q.slots = r.slots /\ q.borrowed = r.borrowed
    BY DEF BrTasks
  <2> HIDE DEF q
  <2> QED
    BY <1>c, <2>1, <2>2 DEF BrOwned
<1>x. /\ ServiceError \in BrAnswers /\ ServiceError.kind = "error"
      /\ \A t \in Tasks : /\ Text(t) \in BrAnswers /\ Text(t).kind = "answer"
                          /\ Text(t).of = t
  BY DEF ServiceError, NoneYet, Text, BrAnswers, BrKinds, Holdable
<1>e. ASSUME NEW t \in Tasks, InLayer(t), NEW res \in {Text(t), ServiceError},
             bridge' = [bridge EXCEPT !.task[t] = Comes(Task(t), res)]
      PROVE  BrOwn'
  <2>1. Task(t).slots # <<>>
    BY <1>e DEF InLayer, Depth
  <2>2. /\ Task(t) \in BrTasks /\ BrOwned(t, Task(t)) /\ res \in BrAnswers
        /\ (res.kind = "answer" => res.of = t) /\ res.kind \in {"answer", "error"}
    BY <1>o, <1>x DEF Task
  <2>3. BrOwned(t, Comes(Task(t), res))
    BY <1>c, <2>1, <2>2
  <2> QED
    BY <1>e, <1>m, <2>3
<1>2. ASSUME NEW t \in Tasks, BrArrive(t) PROVE BrOwn'
  <2> DEFINE r == [Away EXCEPT !.at = "pipeline", !.call = t]
  <2>1. bridge' = [bridge EXCEPT !.task[t] = r]
    BY <1>2 DEF BrArrive
  <2>2. BrOwned(t, r)
    BY DEF Away, NoneYet, BrOwned
  <2> QED
    BY <1>m, <2>1, <2>2
<1>3. ASSUME NEW t \in Tasks, BrScope(t) PROVE BrOwn'
  <2> DEFINE old == bridge.task[t]
             slots == Append(old.slots, old.call)
             r == [old EXCEPT !.at = "inward", !.slots = slots]
  <2>1. old.at = "pipeline" /\ bridge' = [bridge EXCEPT !.task[t] = r]
    BY <1>3 DEF BrScope, Task
  <2>2. old \in BrTasks /\ old.slots \in Seq(Holdable) /\ BrOwned(t, old)
    BY <1>o DEF BrTasks
  <2>3. r.at = "inward" /\ r.slots = slots /\ r.res = old.res /\ r.borrowed = old.borrowed
    BY <2>2 DEF BrTasks
  <2>4. \A k \in DOMAIN slots :
          slots[k] = old.call \/ (k \in DOMAIN old.slots /\ slots[k] = old.slots[k])
    BY <2>2
  <2> HIDE DEF slots, r
  <2>5. BrOwned(t, r)
    BY <2>1, <2>2, <2>3, <2>4 DEF BrOwned
  <2> QED
    BY <1>m, <2>1, <2>5
<1>4. ASSUME NEW t \in Tasks, NEW body \in {"buffered", "sized", "stream"}, BrHandle(t, body)
      PROVE  BrOwn'
  <2> DEFINE old == bridge.task[t]
             buffered == body = "buffered"
             sized == body = "sized"
             measured == body # "stream"
             res == [kind |-> "answer", of |-> old.call, exact |-> buffered, length |-> sized,
                     sized |-> measured]
             ran == [bridge.ran EXCEPT ![old.call] = @ + 1]
  <2>1. old.at = "pipeline"
        /\ bridge' = [bridge EXCEPT !.ran = ran, !.task[t] = Comes(old, res)]
    BY <1>4 DEF BrHandle, Task
  <2> HIDE DEF ran
  <2>2. bridge'.task = [bridge.task EXCEPT ![t] = Comes(old, res)]
    BY <2>1 DEF BrTyped
  <2>3. old \in BrTasks /\ BrOwned(t, old) /\ old.call \in Holdable
    BY <1>o DEF BrTasks
  <2>4. res \in BrAnswers /\ res.kind = "answer" /\ res.of = old.call
    BY <2>3 DEF BrAnswers, BrKinds
  <2>5. ~old.borrowed => old.call = t
    BY <2>1, <2>3 DEF BrOwned
  <2> HIDE DEF res, old
  <2>6. BrOwned(t, Comes(old, res))
    BY <1>c, <2>3, <2>4, <2>5
  <2>7. \A v \in Tasks :
          bridge'.task[v] = IF v = t THEN Comes(old, res) ELSE bridge.task[v]
    BY <1>t, <2>2
  <2> QED
    BY <1>o, <2>6, <2>7 DEF BrOwn, Task
<1>5. ASSUME NEW t \in Tasks, BrWorker(t) \/ BrLayerAnswers(t, Text(t))
                              \/ BrLayerAnswers(t, ServiceError)
      PROVE  BrOwn'
  BY <1>5, <1>e DEF BrWorker, BrLayerAnswers, Task
\* What emptying the slot leaves.
<1>s. ASSUME NEW u \in Tasks, InLayer(u)
      PROVE  /\ Slot(u) \in Holdable /\ Emptied(bridge.task[u]) \in BrTasks
             /\ ~bridge.task[u].borrowed => Slot(u) \in {u, NoTask}
             /\ BrOwned(u, Emptied(bridge.task[u]))
             /\ Emptied(bridge.task[u]).borrowed = bridge.task[u].borrowed
             /\ Emptied(bridge.task[u]).res = bridge.task[u].res
  <2> DEFINE r == bridge.task[u]
             d == Depth(u)
             slots == [r.slots EXCEPT ![d] = NoTask]
             e == [r EXCEPT !.slots = slots]
  <2>1. /\ r \in BrTasks /\ r.slots \in Seq(Holdable) /\ d = Len(r.slots) /\ d \in Nat \ {0}
        /\ DOMAIN r.slots = 1..d /\ BrOwned(u, r) /\ r.at \in {"inward", "outward"}
    BY <1>o, <1>s DEF BrTasks, Depth, Task, InLayer
  <2>2. slots \in Seq(Holdable) /\ DOMAIN slots = 1..d
        /\ \A k \in 1..d : slots[k] \in {NoTask, r.slots[k]}
    BY <2>1 DEF Holdable
  <2>3. Emptied(r) = e
    BY <2>1 DEF Emptied
  <2>4. Slot(u) = r.slots[d] /\ d \in DOMAIN r.slots
    BY <2>1 DEF Slot, Task
  <2>5. e \in BrTasks /\ e.at = r.at /\ e.slots = slots /\ e.res = r.res
        /\ e.borrowed = r.borrowed
    BY <2>1, <2>2 DEF BrTasks
  <2> HIDE DEF r, d, slots, e
  <2>6. BrOwned(u, e)
    BY <2>1, <2>2, <2>5 DEF BrOwned
  <2>7. r.slots[d] \in Holdable /\ (~r.borrowed => r.slots[d] \in {u, NoTask})
    BY <2>1, <2>4 DEF BrOwned
  <2> QED
    BY <2>3, <2>4, <2>5, <2>6, <2>7 DEF r
<1>6. ASSUME NEW t \in Tasks, BrCall(t) PROVE BrOwn'
  <2> DEFINE e == Emptied(bridge.task[t])
             c == Slot(t)
             r == [e EXCEPT !.at = "pipeline", !.call = c]
  <2>1. CASE c = NoTask
    BY <1>6, <1>e, <2>1 DEF BrCall, Task
  <2>2. CASE c # NoTask
    <3>1. InLayer(t) /\ bridge' = [bridge EXCEPT !.task[t] = r]
      BY <1>6, <2>2 DEF BrCall
    <3>2. e \in BrTasks /\ BrOwned(t, e) /\ (~e.borrowed => c = t)
      BY <1>s, <2>2, <3>1
    <3> HIDE DEF e, c
    <3>3. /\ r.at = "pipeline" /\ r.call = c /\ r.slots = e.slots /\ r.res = e.res
          /\ r.borrowed = e.borrowed
      BY <3>2 DEF BrTasks
    <3> HIDE DEF r
    <3>4. BrOwned(t, r)
      BY <3>2, <3>3 DEF BrOwned
    <3> QED
      BY <1>m, <3>1, <3>4
  <2> QED
    BY <2>1, <2>2
<1>7. ASSUME NEW t \in Tasks, NEW u \in Tasks, BrBorrow(t, u) PROVE BrOwn'
  <2> DEFINE e == Emptied(bridge.task[u])
             c == Slot(u)
             r == [bridge.task[t] EXCEPT !.call = c, !.at = "pipeline", !.borrowed = TRUE]
  <2>1. CASE c = NoTask
    BY <1>7, <1>e, <2>1 DEF BrBorrow, Task
  <2>2. CASE c # NoTask
    <3>1. t # u /\ InLayer(u)
          /\ bridge' = [bridge EXCEPT !.task = [[bridge.task EXCEPT ![u] = e] EXCEPT ![t] = r]]
      BY <1>7, <1>t, <2>2 DEF BrBorrow, BrTyped
    <3>2. e \in BrTasks /\ BrOwned(u, e)
      BY <1>s, <3>1
    <3>3. r.at = "pipeline" /\ r.borrowed = TRUE
      BY <1>o DEF BrTasks
    <3> HIDE DEF e, c, r
    <3>4. BrOwned(t, r)
      BY <3>3 DEF BrOwned
    <3>5. bridge'.task = [[bridge.task EXCEPT ![u] = e] EXCEPT ![t] = r]
      BY <3>1 DEF BrTyped
    <3>6. \A v \in Tasks : bridge'.task[v] = IF v = t THEN r ELSE IF v = u THEN e
                                                ELSE bridge.task[v]
      BY <1>t, <3>1, <3>5
    <3> QED
      BY <1>o, <3>2, <3>4, <3>6 DEF BrOwn, Task
  <2> QED
    BY <2>1, <2>2
<1>8. ASSUME NEW t \in Tasks, BrRecodes(t) PROVE BrOwn'
  <2> DEFINE old == bridge.task[t]
             res == [old.res EXCEPT !.exact = FALSE, !.length = FALSE, !.sized = FALSE]
             r == [old EXCEPT !.res = res]
  <2>1. old.at = "outward" /\ old.res.kind = "answer"
        /\ bridge' = [bridge EXCEPT !.task[t] = r]
    BY <1>8, <1>t DEF BrRecodes, Task
  <2>2. old \in BrTasks /\ old.res \in BrAnswers /\ BrOwned(t, old)
    BY <1>o DEF BrTasks
  <2>3. res.kind = old.res.kind
    BY <2>2 DEF BrAnswers
  <2>4. res.of = old.res.of
    BY <2>2 DEF BrAnswers
  <2> HIDE DEF res
  <2>5. r.at = old.at /\ r.res = res /\ r.slots = old.slots /\ r.borrowed = old.borrowed
    BY <2>2 DEF BrTasks
  <2> HIDE DEF r, old
  <2>6. BrOwned(t, r)
    BY <2>1, <2>2, <2>3, <2>4, <2>5 DEF BrOwned
  <2> QED
    BY <1>m, <2>1, <2>6
<1>9. ASSUME NEW t \in Tasks, BrLeaves(t) PROVE BrOwn'
  <2> DEFINE old == bridge.task[t]
             n == Len(old.slots) - 1
             slots == SubSeq(old.slots, 1, n)
             out == [old EXCEPT !.slots = slots]
             l == old.res.length \/ old.res.exact
             res == Rewrapped(t, out.res)
  <2>1. old.at = "outward" /\ bridge' = [bridge EXCEPT !.task[t] = Comes(out, res)]
    BY <1>9 DEF BrLeaves, Task
  <2>2. old \in BrTasks /\ old.res \in BrAnswers /\ BrOwned(t, old)
        /\ old.slots \in Seq(Holdable)
    BY <1>o DEF BrTasks
  <2>3. /\ slots \in Seq(Holdable)
        /\ \A k \in DOMAIN slots : k \in DOMAIN old.slots /\ slots[k] = old.slots[k]
    BY <2>2
  <2> HIDE DEF slots
  <2>4. out \in BrTasks /\ out.at = old.at /\ out.slots = slots /\ out.res = old.res
        /\ out.borrowed = old.borrowed
    BY <2>2, <2>3 DEF BrTasks
  <2> HIDE DEF out, old
  <2>5. res \in BrAnswers /\ res.kind = "answer" /\ (res.of = old.res.of \/ res.of = t)
    <3>1. CASE old.res.kind = "error"
      BY <1>x, <2>4, <3>1 DEF Rewrapped
    <3>2. CASE old.res.kind # "error"
      <4>1. old.res.kind = "answer"
        BY <2>1, <2>2, <3>2 DEF BrOwned
      <4>2. res = [old.res EXCEPT !.exact = FALSE, !.length = l]
        BY <2>4, <3>2 DEF Rewrapped
      <4>3. l \in BOOLEAN
        BY <2>2 DEF BrAnswers
      <4> HIDE DEF l, res
      <4>4. res \in BrAnswers
        BY <2>2, <4>2, <4>3 DEF BrAnswers
      <4>5. res.kind = old.res.kind
        BY <2>2, <4>2 DEF BrAnswers
      <4>6. res.of = old.res.of
        BY <2>2, <4>2 DEF BrAnswers
      <4> QED
        BY <4>1, <4>4, <4>5, <4>6
    <3> QED
      BY <3>1, <3>2
  <2> HIDE DEF res
  <2>6. BrOwned(t, out)
    BY <2>1, <2>2, <2>3, <2>4 DEF BrOwned
  <2>7. ~out.borrowed => res.of = t
    <3>1. ~old.borrowed /\ old.res.kind = "answer" => old.res.of = t
      BY <2>2 DEF BrOwned
    <3>2. CASE old.res.kind = "answer"
      BY <2>4, <2>5, <3>1, <3>2
    <3>3. CASE old.res.kind = "error"
      BY <1>x, <2>4, <3>3 DEF Rewrapped, res
    <3> QED
      BY <2>1, <2>2, <3>2, <3>3 DEF BrOwned
  <2>8. BrOwned(t, Comes(out, res))
    BY <1>c, <2>4, <2>5, <2>6, <2>7
  <2> QED
    BY <1>m, <2>1, <2>8
<1>10. ASSUME NEW t \in Tasks, BrDropped(t) PROVE BrOwn'
  <2> DEFINE r == [Away EXCEPT !.at = "dropped"]
  <2>1. bridge' = [bridge EXCEPT !.task[t] = r]
    BY <1>10 DEF BrDropped
  <2>2. BrOwned(t, r)
    BY DEF Away, NoneYet, BrOwned
  <2> QED
    BY <1>m, <2>1, <2>2
<1> QED
  BY <1>1, <1>2, <1>3, <1>4, <1>5, <1>6, <1>7, <1>8, <1>9, <1>10 DEF BrNext

\* For any number of requests at once and any depth of adapters, a call is handled at
\* most once whatever the layers do, a request that is not dropped is answered, by
\* what was made for it unless its task ran the call of another, and a size that was
\* known where the answer was made is known when it leaves.
THEOREM HandledAtMostOnce == BrSpec => []HandledOnce
<1>1. BrIInv /\ BrOwn => HandledOnce
  BY DEF BrIInv, BrSize, BrOwn, BrOwned, HandledOnce
<1>2. BrInit => BrOwn
  BY DEF BrInit, BrRest, Away, NoneYet, BrOwn, BrOwned, Task
<1>3. BrIInv /\ BrOwn /\ [BrNext]_bridge => BrOwn'
  BY BrOwnSteps DEF BrIInv
<1> QED
  BY <1>1, <1>2, <1>3, BrStarts, BrSteps, PTL DEF BrSpec

-----------------------------------------------------------------------------
(* Compression: the negotiation.                                            *)

\* What a coding is offered at is a quality, by name or by the wildcard.
LEMMA OfferIsQuality ==
  ASSUME NEW accept \in AcceptEncodings, NEW coding
  PROVE  Offer(accept, coding).q \in Nat /\ Offer(accept, coding).named \in BOOLEAN
<1> DEFINE n == Len(accept)
           f == [k \in 1..n |-> accept[k].q]
           stars == Entries(accept, "*")
           named == Entries(accept, coding)
           any == {accept[k].q : k \in stars}
<1>a. /\ n \in Nat /\ DOMAIN accept = 1..n /\ \A k \in 1..n : accept[k].q \in Nat
  <2> DEFINE entry == [token: STRING, q: Nat]
  <2>1. \A e \in entry : e.q \in Nat
    OBVIOUS
  <2> HIDE DEF entry
  <2>2. accept \in Seq(entry)
    BY DEF AcceptEncodings, entry
  <2>3. Len(accept) \in Nat /\ DOMAIN accept = 1..Len(accept)
    BY <2>2
  <2>4. \A k \in 1..Len(accept) : accept[k] \in entry
    BY <2>2
  <2> QED
    BY <2>1, <2>3, <2>4
<1>1. /\ n \in Nat /\ DOMAIN accept = 1..n /\ \A k \in 1..n : accept[k].q \in Nat
      /\ f \in [1..n -> Nat] /\ \A k \in 1..n : f[k] = accept[k].q
      /\ stars \subseteq 1..n /\ named \subseteq 1..n
  BY <1>a DEF Entries
<1>2. Offer(accept, coding) = [q |-> IF named # {} THEN accept[FirstOf(named)].q
                                     ELSE IF any = {} THEN 0 ELSE Largest(any),
                               named |-> named # {}]
  BY DEF Offer
<1> HIDE DEF n, f, stars, named
<1>3. CASE named # {}
  <2>1. named \subseteq Nat
    BY <1>1
  <2>2. \E k \in named : \A l \in named : k <= l
    BY <1>3, <2>1, LeastElement
  <2>3. FirstOf(named) \in named
    BY <2>2 DEF FirstOf
  <2>4. FirstOf(named) \in 1..n
    BY <1>1, <2>3
  <2> HIDE DEF any
  <2>5. Offer(accept, coding) = [q |-> accept[FirstOf(named)].q, named |-> TRUE]
    BY <1>2, <1>3
  <2>6. Offer(accept, coding).q = accept[FirstOf(named)].q
    BY <2>5
  <2>7. Offer(accept, coding).named = TRUE
    BY <2>5
  <2>8. Offer(accept, coding).q \in Nat
    BY <1>1, <2>4, <2>6
  <2> QED
    BY <2>7, <2>8
<1>4. CASE named = {} /\ any = {}
  BY <1>2, <1>4
<1>5. CASE named = {} /\ any # {}
  <2>1. stars # {}
    BY <1>5
  <2>2. PICK k \in stars : \A l \in stars : f[l] <= f[k]
    BY <1>1, <2>1, GreatestElement
  <2>3. accept[k].q \in any /\ \A p \in any : accept[k].q >= p
    BY <1>1, <2>2
  <2>4. any \subseteq Nat
    BY <1>1
  <2> HIDE DEF any
  <2>5. Largest(any) \in any
    BY <2>3 DEF Largest
  <2>6. Largest(any) \in Nat
    BY <2>4, <2>5
  <2> QED
    BY <1>2, <1>5, <2>6
<1> QED
  BY <1>3, <1>4, <1>5

\* negotiate never agrees on a coding that the client gave no quality above zero:
\* among the usable ones there is one that is better than any other.
LEMMA NegotiatedIsAccepted ==
  ASSUME NEW accept \in AcceptEncodings, Negotiate(accept) # "identity"
  PROVE  Offer(accept, Negotiate(accept)).q > 0
<1> DEFINE n == Len(Preference)
           offers == [k \in DOMAIN Preference |-> Offer(accept, Preference[k])]
           usable == {k \in DOMAIN Preference : offers[k].q > 0}
           f == [k \in 1..n |-> offers[k].q]
           best(k) == \A l \in usable \ {k} : Better(offers[k], offers[l], k, l)
<1>1. n \in Nat /\ DOMAIN Preference = 1..n
  BY Floor
<1>2. \A k \in 1..n : offers[k] = Offer(accept, Preference[k])
  BY <1>1
<1>3. Negotiate(accept) = IF usable = {} THEN "identity"
                          ELSE Preference[CHOOSE k \in usable : best(k)]
  BY DEF Negotiate
<1>4. \A k \in 1..n : offers[k].q \in Nat /\ offers[k].named \in BOOLEAN
  BY <1>2, OfferIsQuality
<1>5. usable # {} /\ usable \subseteq 1..n /\ \A k \in usable : offers[k].q > 0
  BY <1>1, <1>3
<1> HIDE DEF offers, usable
<1>6. f \in [1..n -> Nat] /\ \A k \in 1..n : f[k] = offers[k].q
  BY <1>4
<1> HIDE DEF f, n
<1>7. PICK m \in usable : \A l \in usable : f[l] <= f[m]
  BY <1>1, <1>5, <1>6, GreatestElement
<1> DEFINE top == {k \in usable : f[k] = f[m]}
           called == IF \E k \in top : offers[k].named THEN {k \in top : offers[k].named} ELSE top
<1>a. top # {} /\ top \subseteq Nat
  <2>1. m \in usable /\ m \in top
    BY <1>7
  <2>2. top \subseteq usable
    OBVIOUS
  <2>3. usable \subseteq Nat
    BY <1>1, <1>5
  <2> HIDE DEF top, called
  <2> QED
    BY <2>1, <2>2, <2>3
<1>8. called # {} /\ called \subseteq top /\ called \subseteq Nat
  BY <1>a
<1>9. PICK j \in called : \A l \in called : j <= l
  BY <1>8, LeastElement
<1>10. j \in usable /\ f[j] = f[m]
  BY <1>8, <1>9
<1>11. ASSUME NEW l \in usable \ {j} PROVE Better(offers[j], offers[l], j, l)
  <2>1. /\ f[l] \in Nat /\ f[j] \in Nat /\ f[l] = offers[l].q /\ f[j] = offers[j].q
        /\ l \in Nat /\ j \in Nat /\ offers[l].named \in BOOLEAN /\ offers[j].named \in BOOLEAN
    BY <1>1, <1>4, <1>5, <1>6, <1>10
  <2>2. CASE f[l] # f[m]
    BY <1>7, <1>10, <2>1, <2>2 DEF Better
  <2>3. CASE f[l] = f[m]
    <3>1. l \in top
      BY <2>3
    <3>2. CASE l \in called
      <4>1. j < l
        BY <1>9, <2>1, <3>2
      <4>2. offers[j].named = offers[l].named
        BY <1>9, <2>1, <3>2
      <4> QED
        BY <1>10, <2>1, <2>3, <4>1, <4>2 DEF Better
    <3>3. CASE l \notin called
      <4>1. offers[j].named /\ ~offers[l].named
        BY <1>9, <3>1, <3>3
      <4> QED
        BY <1>10, <2>1, <2>3, <4>1 DEF Better
    <3> QED
      BY <3>2, <3>3
  <2> QED
    BY <2>2, <2>3
<1> DEFINE chosen == CHOOSE k \in usable : best(k)
<1>12. chosen \in usable
  BY <1>10, <1>11
<1>13. Negotiate(accept) = Preference[chosen]
  BY <1>3, <1>5
<1> HIDE DEF chosen
<1> QED
  BY <1>2, <1>5, <1>12, <1>13

-----------------------------------------------------------------------------
(* Pipeline: an answer on its way out of the onion.                         *)

PiSpec == PipeInit /\ [][PipeNext]_onion

AnswerFields ==
  {"status", "coding", "coded", "stream", "count", "declared", "ranges", "vary", "acao",
   "sec", "alt", "id", "must", "type", "body"}

\* What holds of an answer to q at every layer: what describes its body
\* describes the body it has, a coding is one that q accepts, and Vary says so.
Describes(res, q) ==
  /\ res.coding = res.coded
  /\ res.coded # "identity" =>
       "accept-encoding" \in res.vary /\ Offer(q.accept, res.coded).q > 0
  /\ res.declared /\ res.coding = "identity" => res.type = "text"
  /\ res.body # "none" => res.type = IF res.body = "envelope" THEN "json" ELSE res.body
  /\ res.status \in {401, 405} => res.must

\* What a layer has left on an answer that it has seen.
Marked(res, q, layer) ==
  /\ layer = "cors" =>
       /\ "origin" \in res.vary
       /\ OriginAllowed(q) => res.acao = IF Allowed = {"*"} THEN "*" ELSE q.origin
  /\ layer = "log" => res.id
  /\ layer = "altsvc" => res.alt

Good(res, q) == DOMAIN res = AnswerFields /\ Describes(res, q)

\* The layers from which the answer of a handler or of the router has come back.
Passed(o) ==
  o.res.status \in {200, 404, 405} =>
    \A k \in 1..Len(o.chain) : k > o.idx => Marked(o.res, o.req, o.chain[k])

Layered(o) ==
  /\ DOMAIN o = {"at", "idx", "chain", "scoped", "req", "res"}
  /\ o.at \in {"rest", "inward", "outward", "answered", "sent"}
  /\ \E S : o.chain \in Seq(S)
  /\ o.at = "inward" => o.idx \in 1..(Len(o.chain) + 1)
  /\ o.at = "outward" => o.idx \in 0..Len(o.chain)
  /\ o.at \in {"rest", "answered", "sent"} => o.idx = 0

PiIInv ==
  /\ Layered(onion)
  /\ onion.at # "rest" => onion.req \in Requests
  /\ onion.at \in {"outward", "answered", "sent"} => Good(onion.res, onion.req) /\ Passed(onion)
  /\ onion.at = "sent" => onion.res.sec # "none"

\* A text that the engine answers on its own is well described.
LEMMA PlainIsGood ==
  ASSUME NEW status \in Nat, status \notin {401, 405}, NEW q
  PROVE  Good(Plain(status), q) /\ Plain(status).status = status
BY DEF Good, Plain, Describes, AnswerFields

\* The fields of an answer that the layers touch.
LEMMA FieldsOfAnswers ==
  /\ "status" \in AnswerFields /\ "coding" \in AnswerFields /\ "coded" \in AnswerFields
  /\ "declared" \in AnswerFields /\ "vary" \in AnswerFields /\ "acao" \in AnswerFields
  /\ "sec" \in AnswerFields /\ "alt" \in AnswerFields /\ "id" \in AnswerFields
  /\ "type" \in AnswerFields /\ "body" \in AnswerFields /\ "count" \in AnswerFields
  /\ "must" \in AnswerFields /\ "ranges" \in AnswerFields
BY DEF AnswerFields

\* Saying one more thing in Vary takes nothing away.
LEMMA VaryKeeps ==
  ASSUME NEW res, NEW q, NEW field, Good(res, q)
  PROVE  LET r == VaryOn(res, field) IN
         /\ Good(r, q) /\ r.status = res.status /\ field \in r.vary /\ r.acao = res.acao
         /\ \A l : Marked(res, q, l) => Marked(r, q, l)
<1> DEFINE r == VaryOn(res, field)
<1>1. r = [res EXCEPT !.vary = res.vary \cup {field}]
  BY DEF VaryOn
<1>2. DOMAIN res = AnswerFields
  BY DEF Good
<1> HIDE DEF r
<1>3. DOMAIN r = AnswerFields
  BY <1>1, <1>2
<1>4. r.vary = res.vary \cup {field}
  BY <1>1, <1>2, FieldsOfAnswers
<1>5. /\ r.status = res.status /\ r.coding = res.coding /\ r.coded = res.coded
      /\ r.declared = res.declared /\ r.acao = res.acao /\ r.id = res.id /\ r.alt = res.alt
      /\ r.type = res.type /\ r.body = res.body /\ r.must = res.must
  BY <1>1, <1>2, FieldsOfAnswers
<1>6. Good(r, q)
  BY <1>3, <1>4, <1>5 DEF Good, Describes
<1>7. \A l : Marked(res, q, l) => Marked(r, q, l)
  BY <1>4, <1>5 DEF Marked
<1> QED
  BY <1>4, <1>5, <1>6, <1>7 DEF r

\* CORS, on the way out and as the answer to a preflight.
LEMMA CorsKeeps ==
  ASSUME NEW res, NEW q, Good(res, q)
  PROVE  LET r == Cors(res, q) IN
         /\ Good(r, q) /\ r.status = res.status /\ Marked(r, q, "cors")
         /\ \A l : Marked(res, q, l) => Marked(r, q, l)
<1> DEFINE origin == IF Allowed = {"*"} THEN "*" ELSE q.origin
           r == ApplyCommon(res, q)
<1>1. r = IF ~OriginAllowed(q) THEN res ELSE [res EXCEPT !.acao = origin]
  BY DEF ApplyCommon
<1>2. DOMAIN res = AnswerFields
  BY DEF Good
<1> HIDE DEF r
<1>3. DOMAIN r = AnswerFields
  BY <1>1, <1>2
<1>4. OriginAllowed(q) => r.acao = origin
  BY <1>1, <1>2, FieldsOfAnswers
<1>5. /\ r.status = res.status /\ r.coding = res.coding /\ r.coded = res.coded
      /\ r.declared = res.declared /\ r.vary = res.vary /\ r.id = res.id /\ r.alt = res.alt
      /\ r.type = res.type /\ r.body = res.body /\ r.must = res.must
  BY <1>1, <1>2, FieldsOfAnswers
<1>6. Good(r, q)
  BY <1>3, <1>5 DEF Good, Describes
<1>7. \A l : Marked(res, q, l) => Marked(r, q, l)
  BY <1>4, <1>5 DEF Marked
<1>8. Cors(res, q) = VaryOn(r, "origin")
  BY DEF Cors, r
<1>9. Marked(VaryOn(r, "origin"), q, "cors")
  BY <1>4, <1>6, VaryKeeps DEF Marked
<1> QED
  BY <1>5, <1>6, <1>7, <1>8, <1>9, VaryKeeps

\* Compression on the way out.
LEMMA SqueezedKeeps ==
  ASSUME NEW res, NEW q, Good(res, q), q.accept \in AcceptEncodings
  PROVE  LET r == Squeezed(res, q) IN
         /\ Good(r, q) /\ r.status = res.status
         /\ \A l : Marked(res, q, l) => Marked(r, q, l)
<1> DEFINE coding == Negotiate(q.accept)
           out == Compress(res, q.accept, q.head)
           wrote == [out EXCEPT !.coded = out.coding]
           r == VaryOn(wrote, "accept-encoding")
<1>1. Squeezed(res, q) = r
  BY DEF Squeezed
<1>2. DOMAIN res = AnswerFields
  BY DEF Good
<1>3. \/ out = res
      \/ /\ coding # "identity"
         /\ out = [res EXCEPT !.coding = coding, !.declared = ~res.stream /\ ~q.head,
                              !.ranges = FALSE]
  BY DEF Compress, Encoded
<1> HIDE DEF out, coding
<1>4. DOMAIN out = AnswerFields /\ DOMAIN wrote = AnswerFields
  BY <1>2, <1>3
<1>5. \/ out.coding = res.coding /\ out.declared = res.declared
      \/ coding # "identity" /\ out.coding = coding
  BY <1>2, <1>3, FieldsOfAnswers
<1>6. /\ out.status = res.status /\ out.vary = res.vary /\ out.acao = res.acao
      /\ out.id = res.id /\ out.alt = res.alt
      /\ out.type = res.type /\ out.body = res.body /\ out.must = res.must
  BY <1>2, <1>3, FieldsOfAnswers
<1>7. /\ wrote.coded = out.coding /\ wrote.coding = out.coding /\ wrote.declared = out.declared
      /\ wrote.status = res.status /\ wrote.vary = res.vary /\ wrote.acao = res.acao
      /\ wrote.id = res.id /\ wrote.alt = res.alt
      /\ wrote.type = res.type /\ wrote.body = res.body /\ wrote.must = res.must
  BY <1>4, <1>6, FieldsOfAnswers
<1> HIDE DEF wrote
<1>8. r = [wrote EXCEPT !.vary = wrote.vary \cup {"accept-encoding"}]
  BY DEF VaryOn
<1> HIDE DEF r
<1>9. DOMAIN r = AnswerFields /\ r.vary = res.vary \cup {"accept-encoding"}
  BY <1>4, <1>7, <1>8, FieldsOfAnswers
<1>10. /\ r.coded = out.coding /\ r.coding = out.coding /\ r.declared = out.declared
       /\ r.status = res.status /\ r.acao = res.acao /\ r.id = res.id /\ r.alt = res.alt
       /\ r.type = res.type /\ r.body = res.body /\ r.must = res.must
  BY <1>4, <1>7, <1>8, FieldsOfAnswers
<1>11. coding # "identity" => Offer(q.accept, coding).q > 0
  BY NegotiatedIsAccepted DEF coding
<1>12. r.coded # "identity" => Offer(q.accept, r.coded).q > 0
  BY <1>5, <1>10, <1>11 DEF Good, Describes
<1>13. r.declared /\ r.coding = "identity" => r.type = "text"
  BY <1>5, <1>10 DEF Good, Describes
<1>14. Good(r, q)
  BY <1>9, <1>10, <1>12, <1>13 DEF Good, Describes
<1>15. \A l : Marked(res, q, l) => Marked(r, q, l)
  BY <1>9, <1>10 DEF Marked
<1> QED
  BY <1>1, <1>10, <1>14, <1>15

\* The error pages on the way out.
LEMMA PagesKeep ==
  ASSUME NEW res, NEW q, Good(res, q)
  PROVE  LET r == Pages(res) IN
         /\ Good(r, q) /\ r.status = res.status
         /\ \A l : Marked(res, q, l) => Marked(r, q, l)
<1> DEFINE r == Pages(res)
<1>1. CASE res.status \notin Rendered
  BY <1>1 DEF Pages
<1>2. CASE res.status \in Rendered
  <2>1. r = [res EXCEPT !.body = "page", !.type = "page", !.coded = "identity",
                        !.coding = "identity", !.declared = FALSE]
    BY <1>2 DEF Pages
  <2>2. DOMAIN res = AnswerFields
    BY DEF Good
  <2> HIDE DEF r
  <2>3. DOMAIN r = AnswerFields
    BY <2>1, <2>2
  <2>4. r.body = "page" /\ r.type = "page" /\ r.coded = "identity" /\ r.coding = "identity"
    BY <2>1, <2>2, FieldsOfAnswers
  <2>5. r.declared = FALSE
    BY <2>1, <2>2, FieldsOfAnswers
  <2>6. /\ r.status = res.status /\ r.vary = res.vary /\ r.acao = res.acao
        /\ r.id = res.id /\ r.alt = res.alt /\ r.must = res.must
    BY <2>1, <2>2, FieldsOfAnswers
  <2>7. Good(r, q)
    BY <2>3, <2>4, <2>5, <2>6 DEF Good, Describes
  <2>8. \A l : Marked(res, q, l) => Marked(r, q, l)
    BY <2>6 DEF Marked
  <2> QED
    BY <2>6, <2>7, <2>8 DEF r
<1> QED
  BY <1>1, <1>2

\* The JSON errors on the way out.
LEMMA JsonKeeps ==
  ASSUME NEW res, NEW q, Good(res, q)
  PROVE  LET r == JsonErrors(res, q) IN
         /\ Good(r, q) /\ r.status = res.status
         /\ \A l : Marked(res, q, l) => Marked(r, q, l)
<1> DEFINE r == JsonErrors(res, q)
           body == IF res.body = "none" THEN "none" ELSE "envelope"
<1>1. CASE r = res
  BY <1>1
<1>2. CASE r # res
  <2>1. r = [res EXCEPT !.type = "json", !.declared = FALSE, !.count = res.count + 1,
                        !.body = body]
    BY <1>2 DEF JsonErrors
  <2>2. DOMAIN res = AnswerFields
    BY DEF Good
  <2> HIDE DEF r
  <2>3. DOMAIN r = AnswerFields
    BY <2>1, <2>2
  <2>4. r.body = body /\ r.type = "json"
    BY <2>1, <2>2, FieldsOfAnswers
  <2>5. r.declared = FALSE
    BY <2>1, <2>2, FieldsOfAnswers
  <2>6. /\ r.status = res.status /\ r.vary = res.vary /\ r.acao = res.acao
        /\ r.id = res.id /\ r.alt = res.alt /\ r.must = res.must
        /\ r.coding = res.coding /\ r.coded = res.coded
    BY <2>1, <2>2, FieldsOfAnswers
  <2>7. Good(r, q)
    BY <2>3, <2>4, <2>5, <2>6 DEF Good, Describes
  <2>8. \A l : Marked(res, q, l) => Marked(r, q, l)
    BY <2>6 DEF Marked
  <2> QED
    BY <2>6, <2>7, <2>8 DEF r
<1> QED
  BY <1>1, <1>2

\* The layers that set one header.
LEMMA HeaderKeeps ==
  ASSUME NEW res, NEW q, Good(res, q), NEW r,
         \E v : r \in {[res EXCEPT !.sec = v], [res EXCEPT !.alt = TRUE], [res EXCEPT !.id = TRUE]}
  PROVE  /\ Good(r, q) /\ r.status = res.status
         /\ \A l : Marked(res, q, l) => Marked(r, q, l)
<1>1. PICK v : r \in {[res EXCEPT !.sec = v], [res EXCEPT !.alt = TRUE], [res EXCEPT !.id = TRUE]}
  OBVIOUS
<1>2. DOMAIN res = AnswerFields
  BY DEF Good
<1>3. DOMAIN r = AnswerFields
  BY <1>1, <1>2
<1>4. /\ r.status = res.status /\ r.vary = res.vary /\ r.acao = res.acao /\ r.must = res.must
      /\ r.coding = res.coding /\ r.coded = res.coded /\ r.declared = res.declared
      /\ r.type = res.type /\ r.body = res.body
  BY <1>1, <1>2, FieldsOfAnswers
<1>5. r.id = res.id \/ r.id = TRUE
  BY <1>1, <1>2, FieldsOfAnswers
<1>6. r.alt = res.alt \/ r.alt = TRUE
  BY <1>1, <1>2, FieldsOfAnswers
<1>7. Good(r, q)
  BY <1>3, <1>4 DEF Good, Describes
<1>8. \A l : Marked(res, q, l) => Marked(r, q, l)
  BY <1>4, <1>5, <1>6 DEF Marked
<1> QED
  BY <1>4, <1>7, <1>8

\* Every layer on the way out leaves its own mark, and those of the layers within it.
LEMMA AfterKeeps ==
  ASSUME NEW res, NEW q \in Requests, NEW layer, Good(res, q)
  PROVE  LET r == After(layer, res, q) IN
         /\ Good(r, q) /\ r.status = res.status /\ Marked(r, q, layer)
         /\ \A l : Marked(res, q, l) => Marked(r, q, l)
<1> DEFINE r == After(layer, res, q)
           Remains == Good(r, q) /\ r.status = res.status
                   /\ \A l : Marked(res, q, l) => Marked(r, q, l)
<1>1. CASE layer = "security"
  <2>1. r = [res EXCEPT !.sec = IF res.sec = "none" THEN "default" ELSE res.sec]
    BY <1>1 DEF After, ApplyTo
  <2> HIDE DEF r
  <2>2. Remains
    BY <2>1, HeaderKeeps
  <2>3. Marked(r, q, layer)
    BY <1>1 DEF Marked
  <2> QED
    BY <2>2, <2>3 DEF r
<1>2. CASE layer = "altsvc"
  <2>1. r = [res EXCEPT !.alt = TRUE]
    BY <1>2 DEF After
  <2> HIDE DEF r
  <2>2. Remains
    BY <2>1, HeaderKeeps
  <2>3. r.alt = TRUE
    BY <2>1, FieldsOfAnswers DEF Good
  <2>4. Marked(r, q, layer)
    BY <1>2, <2>3 DEF Marked
  <2> QED
    BY <2>2, <2>4 DEF r
<1>3. CASE layer = "pages"
  <2>1. r = Pages(res)
    BY <1>3 DEF After
  <2> HIDE DEF r
  <2>2. Remains
    BY <2>1, PagesKeep
  <2>3. Marked(r, q, layer)
    BY <1>3 DEF Marked
  <2> QED
    BY <2>2, <2>3 DEF r
<1>4. CASE layer = "cors"
  <2>1. r = Cors(res, q)
    BY <1>4 DEF After
  <2> HIDE DEF r
  <2>2. Remains /\ Marked(r, q, layer)
    BY <1>4, <2>1, CorsKeeps
  <2> QED
    BY <2>2 DEF r
<1>5. CASE layer = "log"
  <2>1. r = [res EXCEPT !.id = TRUE]
    BY <1>5 DEF After
  <2> HIDE DEF r
  <2>2. Remains
    BY <2>1, HeaderKeeps
  <2>3. r.id = TRUE
    BY <2>1, FieldsOfAnswers DEF Good
  <2>4. Marked(r, q, layer)
    BY <1>5, <2>3 DEF Marked
  <2> QED
    BY <2>2, <2>4 DEF r
<1>6. CASE layer = "json"
  <2>1. r = JsonErrors(res, q)
    BY <1>6 DEF After
  <2> HIDE DEF r
  <2>2. Remains
    BY <2>1, JsonKeeps
  <2>3. Marked(r, q, layer)
    BY <1>6 DEF Marked
  <2> QED
    BY <2>2, <2>3 DEF r
<1>7. CASE layer = "compression"
  <2>1. r = Squeezed(res, q)
    BY <1>7 DEF After
  <2> HIDE DEF r
  <2>2. Remains
    BY <2>1, SqueezedKeeps, PipeInputs
  <2>3. Marked(r, q, layer)
    BY <1>7 DEF Marked
  <2> QED
    BY <2>2, <2>3 DEF r
<1>8. CASE layer \notin {"security", "altsvc", "pages", "cors", "log", "json", "compression"}
  <2>1. r = res
    BY <1>8 DEF After
  <2>2. Marked(res, q, layer)
    BY <1>8 DEF Marked
  <2> QED
    BY <2>1, <2>2
<1> QED
  BY <1>1, <1>2, <1>3, <1>4, <1>5, <1>6, <1>7, <1>8

\* What build leaves is a sequence of layers.
LEMMA BuiltIsLayered ==
  ASSUME NEW installed \in Installs
  PROVE  \E S : Built(installed) \in Seq(S)
<1> DEFINE layers == installed \o (IF Rendered = {} THEN <<>> ELSE <<"pages">>) \o <<"security">>
           chain == Built(installed)
           n == Len(layers)
<1>1. \E S : layers \in Seq(S)
  <2> DEFINE pages == IF Rendered = {} THEN <<>> ELSE <<"pages">>
             S == STRING \cup {"pages", "security"}
  <2>1. /\ \A x \in S : <<x>> \in Seq(S)
        /\ "pages" \in S /\ "security" \in S /\ STRING \subseteq S
    OBVIOUS
  <2> HIDE DEF S
  <2>2. pages \in Seq(S)
    <3>1. CASE Rendered = {}
      BY <3>1
    <3>2. CASE Rendered # {}
      BY <2>1, <3>2
    <3> QED
      BY <3>1, <3>2
  <2>3. installed \in Seq(S)
    <3> DEFINE strings == STRING
    <3>1. installed \in Seq(strings) /\ strings \subseteq S
      BY <2>1, PipeInputs
    <3> HIDE DEF strings
    <3> QED
      BY <3>1
  <2> HIDE DEF pages
  <2>4. installed \o pages \o <<"security">> \in Seq(S)
    BY <2>1, <2>2, <2>3
  <2> QED
    BY <2>4 DEF pages
<1>2. n \in Nat /\ DOMAIN layers = 1..n
  BY <1>1
<1>3. chain = Sorted(layers)
  BY DEF Built
<1> HIDE DEF layers, n
<1>4. PICK f : chain = [place \in 1..n |-> f[place]]
  <2> DEFINE f == Sorted(layers)
  <2>1. f = [place \in 1..n |-> f[place]]
    BY <1>2 DEF Sorted
  <2> QED
    BY <1>3, <2>1
<1> HIDE DEF chain
<1>5. chain \in Seq({f[place] : place \in 1..n})
  BY <1>2, <1>4
<1> QED
  BY <1>5 DEF chain

\* A layer or a handler answers: no layer that should have marked the answer is
\* within the one that gives it.
LEMMA Answers ==
  ASSUME PiIInv, onion.at = "inward", NEW res, Answering(res), Good(res, onion.req),
         res.status \in {200, 404, 405} => onion.idx = Len(onion.chain) + 1
  PROVE  PiIInv'
<1> DEFINE o == onion'
<1>1. o = [onion EXCEPT !.at = "outward", !.idx = onion.idx - 1, !.res = res]
  BY DEF Answering
<1>2. /\ DOMAIN onion = {"at", "idx", "chain", "scoped", "req", "res"}
      /\ onion.idx \in 1..(Len(onion.chain) + 1) /\ onion.req \in Requests
      /\ \E S : onion.chain \in Seq(S)
  BY DEF PiIInv, Layered
<1> HIDE DEF o
<1>3. /\ DOMAIN o = {"at", "idx", "chain", "scoped", "req", "res"}
      /\ o.at = "outward" /\ o.idx = onion.idx - 1 /\ o.chain = onion.chain
      /\ o.req = onion.req /\ o.res = res
  BY <1>1, <1>2
<1>4. Len(onion.chain) \in Nat
  BY <1>2
<1>5. Layered(o)
  BY <1>2, <1>3, <1>4 DEF Layered
<1>6. Passed(o)
  BY <1>2, <1>3, <1>4 DEF Passed
<1> QED
  BY <1>2, <1>3, <1>5, <1>6 DEF PiIInv, o

\* What replaces an answer from without owes nothing to the layers.
LEMMA CutOff ==
  ASSUME PiIInv, NEW o, o = onion', NEW status \in Nat,
         status \notin {200, 401, 404, 405},
         DOMAIN o = {"at", "idx", "chain", "scoped", "req", "res"},
         o.at = "answered", o.idx = 0, o.chain = onion.chain, o.req \in Requests,
         o.res = Plain(status)
  PROVE  PiIInv'
<1>1. Layered(o)
  BY DEF PiIInv, Layered
<1>2. Good(o.res, o.req) /\ o.res.status = status
  BY PlainIsGood
<1>3. Passed(o)
  BY <1>2 DEF Passed
<1> QED
  BY <1>1, <1>2, <1>3 DEF PiIInv

\* Every step of respond, of the chain in both directions and of handle keeps it.
LEMMA PiSteps == PiIInv /\ [PipeNext]_onion => PiIInv'
<1> SUFFICES ASSUME PiIInv, [PipeNext]_onion PROVE PiIInv'
  OBVIOUS
<1>d. /\ DOMAIN onion = {"at", "idx", "chain", "scoped", "req", "res"}
      /\ \E S : onion.chain \in Seq(S)
  BY DEF PiIInv, Layered
<1>l. Len(onion.chain) \in Nat /\ DOMAIN onion.chain = 1..Len(onion.chain)
  BY <1>d
<1>r. onion.at = "inward" => onion.idx \in 1..(Len(onion.chain) + 1) /\ onion.req \in Requests
  BY DEF PiIInv, Layered
<1>1. ASSUME NEW q \in Requests, NEW i \in Installs, Respond(q, i) PROVE PiIInv'
  <2>1. CASE RefusalOf(q) # 0
    <3>1. onion' = [onion EXCEPT !.at = "answered", !.req = q, !.res = Plain(RefusalOf(q))]
      BY <1>1, <2>1 DEF Respond
    <3>2. RefusalOf(q) \in {413, 400}
      BY <2>1 DEF RefusalOf
    <3>3. onion.idx = 0
      BY <1>1 DEF Respond, PiIInv, Layered
    <3>4. /\ DOMAIN onion' = {"at", "idx", "chain", "scoped", "req", "res"}
          /\ onion'.at = "answered" /\ onion'.idx = 0 /\ onion'.chain = onion.chain
          /\ onion'.req = q /\ onion'.res = Plain(RefusalOf(q))
      BY <1>d, <3>1, <3>3
    <3> QED
      BY <3>2, <3>4, CutOff
  <2>2. CASE RefusalOf(q) = 0
    <3>1. onion' = [at |-> "inward", idx |-> 1, chain |-> Built(i), scoped |-> FALSE,
                    req |-> q, res |-> Plain(0)]
      BY <1>1, <2>2 DEF Respond
    <3>2. PICK S : Built(i) \in Seq(S)
      BY BuiltIsLayered
    <3>3. Len(Built(i)) \in Nat
      BY <3>2
    <3>4. Layered(onion')
      BY <3>1, <3>2, <3>3 DEF Layered
    <3> QED
      BY <3>1, <3>4 DEF PiIInv
  <2> QED
    BY <2>1, <2>2
<1>2. ASSUME Inward PROVE PiIInv'
  <2>1. CASE Layer = "cors" /\ onion.req.preflight
    <3> DEFINE res == Cors(Plain(204), onion.req)
    <3>1. Answering(res) /\ onion.at = "inward"
      BY <1>2, <2>1 DEF Inward
    <3>2. Good(res, onion.req) /\ res.status = 204
      BY PlainIsGood, CorsKeeps
    <3> HIDE DEF res
    <3> QED
      BY <3>1, <3>2, Answers
  <2>2. CASE ~(Layer = "cors" /\ onion.req.preflight)
    <3>1. /\ onion' = [onion EXCEPT !.idx = onion.idx + 1]
          /\ onion.at = "inward" /\ onion.idx <= Len(onion.chain)
      BY <1>2, <2>2 DEF Inward
    <3>2. /\ DOMAIN onion' = {"at", "idx", "chain", "scoped", "req", "res"}
          /\ onion'.at = "inward" /\ onion'.idx = onion.idx + 1 /\ onion'.chain = onion.chain
          /\ onion'.req = onion.req
      BY <1>d, <3>1
    <3>3. Layered(onion')
      BY <1>d, <1>l, <1>r, <3>1, <3>2 DEF Layered
    <3> QED
      BY <1>r, <3>1, <3>2, <3>3 DEF PiIInv
  <2> QED
    BY <2>1, <2>2
<1>3. ASSUME GateRefuses PROVE PiIInv'
  <2> DEFINE body == IF onion.req.head /\ Layer = "scope gate" THEN "none" ELSE "text"
             res == [Plain(401) EXCEPT !.must = TRUE, !.body = body]
  <2>1. Answering(res) /\ onion.at = "inward"
    BY <1>3 DEF GateRefuses, Plain
  <2>2. /\ DOMAIN res = AnswerFields /\ res.status = 401 /\ res.coding = "identity"
        /\ res.coded = "identity" /\ res.type = "text" /\ res.body = body
    BY DEF Plain, AnswerFields
  <2>3. res.must = TRUE
    BY DEF Plain
  <2> HIDE DEF res, body
  <2>4. Good(res, onion.req)
    BY <2>2, <2>3 DEF Good, Describes, body
  <2> QED
    BY <2>1, <2>2, <2>4, Answers
<1>4. ASSUME NEW layers \in Scopes, EnterScope(layers) PROVE PiIInv'
  <2>1. /\ onion.at = "inward" /\ onion.idx = Len(onion.chain) + 1
        /\ onion' = [onion EXCEPT !.scoped = TRUE, !.chain = onion.chain \o layers]
    BY <1>4 DEF EnterScope, Spent
  <2>2. /\ DOMAIN onion' = {"at", "idx", "chain", "scoped", "req", "res"}
        /\ onion'.at = "inward" /\ onion'.idx = onion.idx
        /\ onion'.chain = onion.chain \o layers /\ onion'.req = onion.req
    BY <1>d, <2>1
  <2>3. PICK S : onion.chain \in Seq(S)
    BY <1>d
  <2>4. layers \in Seq(STRING)
    BY PipeInputs
  <2>5. onion.chain \in Seq(S \cup STRING) /\ layers \in Seq(S \cup STRING)
    BY <2>3, <2>4
  <2>6. /\ onion'.chain \in Seq(S \cup STRING)
        /\ Len(onion'.chain) = Len(onion.chain) + Len(layers) /\ Len(layers) \in Nat
    BY <2>2, <2>5
  <2>7. Layered(onion')
    BY <1>l, <2>1, <2>2, <2>6 DEF Layered
  <2> QED
    BY <1>r, <2>1, <2>2, <2>7 DEF PiIInv
<1>5. ASSUME NEW s \in {200, 401, 404, 405}, NEW own \in BOOLEAN, Handle(s, own) PROVE PiIInv'
  <2> DEFINE body == IF onion.req.head THEN "none" ELSE "text"
             sec == IF own THEN "own" ELSE "none"
             must == s \in {401, 405}
             res == [Plain(s) EXCEPT !.must = must, !.count = MinSize, !.body = body, !.sec = sec]
  <2>1. Answering(res) /\ onion.at = "inward" /\ onion.idx = Len(onion.chain) + 1
    BY <1>5 DEF Handle, Spent, Plain
  <2>2. /\ DOMAIN res = AnswerFields /\ res.status = s /\ res.coding = "identity"
        /\ res.coded = "identity" /\ res.type = "text" /\ res.body = body
    BY DEF Plain, AnswerFields
  <2>3. res.must = must
    BY DEF Plain
  <2>4. s \in {401, 405} => res.must
    BY <2>3
  <2>5. s \in {200, 401, 404, 405}
    OBVIOUS
  <2> HIDE DEF res, body, must
  <2>6. Good(res, onion.req)
    BY <2>2, <2>4 DEF Good, Describes, body
  <2> QED
    BY <2>1, <2>6, Answers
<1>6. ASSUME Outward PROVE PiIInv'
  <2> DEFINE layer == onion.chain[onion.idx]
             res == After(layer, onion.res, onion.req)
  <2>1. /\ onion' = [onion EXCEPT !.idx = onion.idx - 1, !.res = res]
        /\ onion.at = "outward" /\ onion.idx > 0
    BY <1>6 DEF Outward, Layer
  <2>2. /\ onion.idx \in 1..Len(onion.chain) /\ onion.req \in Requests
        /\ Good(onion.res, onion.req) /\ Passed(onion)
    BY <1>l, <2>1 DEF PiIInv, Layered
  <2>3. /\ Good(res, onion.req) /\ res.status = onion.res.status
        /\ Marked(res, onion.req, layer)
        /\ \A l : Marked(onion.res, onion.req, l) => Marked(res, onion.req, l)
    BY <2>2, AfterKeeps
  <2> HIDE DEF res
  <2>4. /\ DOMAIN onion' = {"at", "idx", "chain", "scoped", "req", "res"}
        /\ onion'.at = "outward" /\ onion'.idx = onion.idx - 1 /\ onion'.chain = onion.chain
        /\ onion'.req = onion.req /\ onion'.res = res
    BY <1>d, <2>1
  <2>5. Layered(onion')
    BY <1>d, <1>l, <2>2, <2>4 DEF Layered
  <2>6. Passed(onion')
    <3> SUFFICES ASSUME res.status \in {200, 404, 405},
                        NEW k \in 1..Len(onion.chain), k > onion.idx - 1
                 PROVE  Marked(res, onion.req, onion.chain[k])
      BY <2>4 DEF Passed
    <3>1. CASE k = onion.idx
      BY <2>3, <3>1
    <3>2. CASE k # onion.idx
      <4>1. k > onion.idx
        BY <1>l, <2>2, <3>2
      <4>2. Marked(onion.res, onion.req, onion.chain[k])
        BY <2>2, <2>3, <4>1 DEF Passed
      <4> QED
        BY <2>3, <4>2
    <3> QED
      BY <3>1, <3>2
  <2> QED
    BY <2>2, <2>3, <2>4, <2>5, <2>6 DEF PiIInv
<1>7. ASSUME Emerges PROVE PiIInv'
  <2>1. onion' = [onion EXCEPT !.at = "answered"] /\ onion.at = "outward" /\ onion.idx = 0
    BY <1>7 DEF Emerges
  <2>2. /\ DOMAIN onion' = {"at", "idx", "chain", "scoped", "req", "res"}
        /\ onion'.at = "answered" /\ onion'.idx = 0 /\ onion'.chain = onion.chain
        /\ onion'.req = onion.req /\ onion'.res = onion.res
    BY <1>d, <2>1
  <2> QED
    BY <1>d, <2>1, <2>2 DEF PiIInv, Layered, Passed
<1>8. ASSUME Panics PROVE PiIInv'
  <2>1. onion' = [onion EXCEPT !.at = "answered", !.idx = 0, !.res = Plain(500)]
        /\ onion.at \in {"inward", "outward"}
    BY <1>8 DEF Panics
  <2>2. /\ DOMAIN onion' = {"at", "idx", "chain", "scoped", "req", "res"}
        /\ onion'.at = "answered" /\ onion'.idx = 0 /\ onion'.chain = onion.chain
        /\ onion'.req = onion.req /\ onion'.res = Plain(500)
    BY <1>d, <2>1
  <2>3. onion.req \in Requests
    BY <2>1 DEF PiIInv
  <2> QED
    BY <2>2, <2>3, CutOff
<1>9. ASSUME TimesOut PROVE PiIInv'
  <2>1. onion' = [onion EXCEPT !.at = "answered", !.idx = 0, !.res = Plain(408)]
        /\ onion.at \in {"inward", "outward"}
    BY <1>9 DEF TimesOut
  <2>2. /\ DOMAIN onion' = {"at", "idx", "chain", "scoped", "req", "res"}
        /\ onion'.at = "answered" /\ onion'.idx = 0 /\ onion'.chain = onion.chain
        /\ onion'.req = onion.req /\ onion'.res = Plain(408)
    BY <1>d, <2>1
  <2>3. onion.req \in Requests
    BY <2>1 DEF PiIInv
  <2> QED
    BY <2>2, <2>3, CutOff
<1>10. ASSUME SendAnswer PROVE PiIInv'
  <2> DEFINE sec == IF onion.res.sec = "none" THEN "default" ELSE onion.res.sec
             res == [onion.res EXCEPT !.sec = sec]
  <2>1. onion' = [onion EXCEPT !.at = "sent", !.res = res] /\ onion.at = "answered"
    BY <1>10 DEF SendAnswer, Dressed, ApplyTo
  <2>2. Good(onion.res, onion.req) /\ Passed(onion) /\ onion.req \in Requests /\ onion.idx = 0
    BY <2>1 DEF PiIInv, Layered
  <2>3. sec # "none" /\ res.sec = sec
    BY <2>2, FieldsOfAnswers DEF Good
  <2>4. /\ Good(res, onion.req) /\ res.status = onion.res.status
        /\ \A l : Marked(onion.res, onion.req, l) => Marked(res, onion.req, l)
    BY <2>2, HeaderKeeps
  <2> HIDE DEF res, sec
  <2>5. /\ DOMAIN onion' = {"at", "idx", "chain", "scoped", "req", "res"}
        /\ onion'.at = "sent" /\ onion'.idx = 0 /\ onion'.chain = onion.chain
        /\ onion'.req = onion.req /\ onion'.res = res
    BY <1>d, <2>1, <2>2
  <2>6. Layered(onion')
    BY <1>d, <2>5 DEF Layered
  <2>7. Passed(onion')
    BY <2>2, <2>4, <2>5 DEF Passed
  <2> QED
    BY <2>2, <2>3, <2>4, <2>5, <2>6, <2>7 DEF PiIInv
<1>11. ASSUME Forgotten PROVE PiIInv'
  BY <1>11 DEF Forgotten, PipeRest, PiIInv, Layered
<1>12. CASE UNCHANGED onion
  BY <1>12 DEF PiIInv
<1> QED
  BY <1>1, <1>2, <1>3, <1>4, <1>5, <1>6, <1>7, <1>8, <1>9, <1>10, <1>11, <1>12 DEF PipeNext

\* With no request the invariant holds.
LEMMA PiStarts == PipeInit => PiIInv
BY DEF PipeInit, PipeRest, PiIInv, Layered

\* What was kept layer by layer, of the answer that leaves.
LEMMA SentIsMarked ==
  ASSUME PiIInv, onion.at = "sent"
  PROVE  /\ Good(onion.res, onion.req) /\ onion.res.sec # "none" /\ onion.req \in Requests
         /\ onion.res.status \in {200, 404, 405} =>
              \A l : Installed(l) => Marked(onion.res, onion.req, l)
<1>1. Good(onion.res, onion.req) /\ onion.res.sec # "none" /\ onion.req \in Requests
  BY DEF PiIInv
<1>2. Passed(onion) /\ onion.idx = 0
  BY DEF PiIInv, Layered
<1>3. DOMAIN onion.chain = 1..Len(onion.chain)
  <2>1. PICK S : onion.chain \in Seq(S)
    BY DEF PiIInv, Layered
  <2> QED
    BY <2>1
<1>4. ASSUME onion.res.status \in {200, 404, 405}, NEW k \in 1..Len(onion.chain)
      PROVE  Marked(onion.res, onion.req, onion.chain[k])
  BY <1>2, <1>4 DEF Passed
<1> QED
  BY <1>1, <1>3, <1>4 DEF Installed

\* In whatever order CORS, compression, the error pages and the gates were installed,
\* on the application and on a scope, and for any Accept-Encoding and any origins:
\* an answer that a shared cache keeps is right for every request that its Vary
\* lets the cache give it to.
THEOREM CachesServeRight == PiSpec => []CacheServesRight
<1>1. PiIInv => CacheServesRight
  <2> SUFFICES ASSUME PiIInv, Cacheable, NEW q \in Requests, ~q.preflight, Keyed(q)
               PROVE  /\ onion.res.coded # "identity" => Offer(q.accept, onion.res.coded).q > 0
                      /\ OriginAllowed(q) /\ Installed("cors")
                           => onion.res.acao \in {"*", q.origin}
    BY DEF CacheServesRight
  <2>1. onion.at = "sent" /\ onion.res.status \in {200, 404, 405}
    BY DEF Cacheable
  <2>2. /\ Good(onion.res, onion.req)
        /\ \A l : Installed(l) => Marked(onion.res, onion.req, l)
    BY <2>1, SentIsMarked
  <2>3. onion.res.coded # "identity" => Offer(q.accept, onion.res.coded).q > 0
    BY <2>2 DEF Good, Describes, Keyed
  <2>4. ASSUME OriginAllowed(q), Installed("cors") PROVE onion.res.acao \in {"*", q.origin}
    <3>1. Marked(onion.res, onion.req, "cors")
      BY <2>2, <2>4
    <3>2. q.origin = onion.req.origin
      BY <3>1 DEF Marked, Keyed
    <3>3. OriginAllowed(onion.req)
      BY <2>4, <3>2 DEF OriginAllowed
    <3> QED
      BY <3>1, <3>2, <3>3 DEF Marked
  <2> QED
    BY <2>3, <2>4
<1> QED
  BY <1>1, PiStarts, PiSteps, PTL DEF PiSpec

\* In the same generality: every answer leaves with the security headers, what
\* describes its body describes the body that is sent, a 401 or a 405 keeps its
\* header, and an answer of the router's carries the request id and Alt-Svc.
THEOREM AnswersLeaveDressed == PiSpec => []AnswersDressed
<1>1. PiIInv => AnswersDressed
  <2> SUFFICES ASSUME PiIInv, onion.at = "sent" PROVE AnswersDressed
    BY DEF AnswersDressed
  <2>1. /\ Good(onion.res, onion.req) /\ onion.res.sec # "none"
        /\ onion.res.status \in {404, 405} =>
             /\ Installed("log") => onion.res.id
             /\ Installed("altsvc") => onion.res.alt
    BY SentIsMarked DEF Marked
  <2> QED
    BY <2>1 DEF AnswersDressed, Good, Describes
<1> QED
  BY <1>1, PiStarts, PiSteps, PTL DEF PiSpec

-----------------------------------------------------------------------------
(* Download: a file in pieces.                                              *)

DlSpec == DlInit /\ [][DlNext]_download

DlFields == {"phase", "disk", "query", "stat", "answer", "opened", "raced", "copy"}
DlPhases == {"unmounted", "idle", "asked", "astray", "stated", "answered"}
QueryFields ==
  {"method", "accept", "range", "ifMatch", "ifUnmodified", "ifNoneMatch", "ifModified",
   "ifRangeTag", "ifRangeDate"}
FileFields ==
  {"status", "first", "count", "stream", "declared", "ranges", "tag", "date", "coding"}
CopyFields == {"sources", "have", "whole", "resumable", "tag", "date"}

\* What the client has is of v, in one coding, and so are its validators.
Holds(copy, v) ==
  \E coding :
    /\ DOMAIN copy = CopyFields
    /\ copy.sources = {<<v, coding>>} /\ copy.tag = EntityTag(v) /\ copy.date = v.second
    /\ copy.resumable => coding = "identity"

\* It has nothing, or a version no later than second.
KeptFrom(copy, second) ==
  copy = NoCopy \/ \E v \in Versions : Holds(copy, v) /\ v.second <= second

Resuming(q) == q.ifRangeTag # NoTag \/ q.ifRangeDate # NoDate

\* A client only names validators of what it has.
Asks(q, copy) ==
  /\ q.accept \in AcceptEncodings
  /\ q.ifNoneMatch # NoTag \/ q.ifModified # NoDate =>
       copy # NoCopy /\ q.ifModified = copy.date /\ q.ifNoneMatch \in {NoTag, copy.tag}
  /\ Resuming(q) =>
       /\ copy # NoCopy /\ copy.resumable
       /\ q.ifRangeTag = copy.tag \/ (q.ifRangeTag = NoTag /\ q.ifRangeDate = copy.date)

\* What an answer about v says, whatever Compression made of it.
About(a, q, v) ==
  /\ a.status \in {200, 206} => a.tag = EntityTag(v) /\ a.date = v.second
  /\ a.status = 304 => NotModified(q, v)
  /\ a.status \in {206, 416} /\ Resuming(q) => IfRangeMatches(q.ifRangeTag, q.ifRangeDate, v)

Coded(a, q) ==
  a.coding # "identity" =>
    Offer(q.accept, a.coding).q > 0 /\ a.status \notin {206, 304, 416} /\ a.ranges = FALSE

Asked(d) ==
  /\ d.phase \in {"asked", "stated", "answered"} => Asks(d.query, d.copy)
  /\ d.phase \in {"stated", "answered"} =>
       /\ d.stat \in Versions /\ d.stat.second <= d.disk.second
       /\ About(d.answer, d.query, d.stat)
       /\ ~d.raced => KeptFrom(d.copy, d.stat.second)

DlTyped(d) ==
  /\ DOMAIN d = DlFields /\ d.phase \in DlPhases
  /\ IF d.phase = "unmounted" THEN d.disk = NoVersion ELSE d.disk \in Versions
  /\ DOMAIN d.answer = FileFields

DlIInv ==
  LET d == download IN
  /\ DlTyped(d) /\ Asked(d)
  /\ ~d.raced => KeptFrom(d.copy, d.disk.second)
  /\ Coded(d.answer, d.query)
  /\ d.phase \in {"unmounted", "idle", "asked"} => d.answer = Answered(0)
  /\ d.phase = "stated" => d.answer.coding = "identity"
  /\ d.phase = "astray" => d.answer.status \notin {304, 416}
  /\ d.phase = "answered" => d.raced \/ d.opened = d.stat

\* The fields and the phases that the steps name.
LEMMA DlNames ==
  /\ \A f \in {"phase", "disk", "query", "stat", "answer", "opened", "raced", "copy"} : f \in DlFields
  /\ \A f \in {"status", "first", "count", "stream", "declared", "ranges", "tag", "date", "coding"} :
       f \in FileFields
  /\ \A f \in {"accept", "range", "ifNoneMatch", "ifModified", "ifRangeTag", "ifRangeDate",
               "ifMatch", "ifUnmodified", "method"} : f \in QueryFields
  /\ \A p \in {"unmounted", "idle", "asked", "astray", "stated", "answered"} : p \in DlPhases
BY DEF DlFields, FileFields, QueryFields, DlPhases

\* A validator tells versions apart, and is not one of the two that name none.
LEMMA TagsTell ==
  ASSUME NEW v \in Versions
  PROVE  /\ EntityTag(v) # NoTag /\ EntityTag(v) # AnyTag /\ v.second \in Nat
         /\ \A w \in Versions : EntityTag(v) = EntityTag(w) \/ v.second = w.second => v = w
BY Distinct DEF EntityTag, NoTag, AnyTag

\* An answer that names no content, ...
LEMMA Answereds ==
  ASSUME NEW status
  PROVE  LET a == Answered(status) IN
         /\ DOMAIN a = FileFields /\ a.coding = "identity" /\ a.status = status
BY DEF Answered, FileFields

\* ... and one that carries a part of a version or all of it.
LEMMA Contents ==
  ASSUME NEW status, NEW v, NEW from, NEW count
  PROVE  LET a == Content(status, v, from, count) IN
         /\ DOMAIN a = FileFields /\ a.coding = "identity" /\ a.status = status
         /\ a.tag = EntityTag(v) /\ a.date = v.second
<1> DEFINE x == [Answered(status) EXCEPT !.first = from, !.count = count, !.stream = TRUE,
                                         !.declared = TRUE, !.ranges = TRUE]
           a == Content(status, v, from, count)
<1>1. DOMAIN x = FileFields /\ x.coding = "identity" /\ x.status = status
  BY Answereds, DlNames
<1>2. a = [x EXCEPT !.tag = EntityTag(v), !.date = v.second]
  BY DEF Content, Validated
<1> HIDE DEF x, a
<1>3. DOMAIN a = FileFields /\ a.coding = "identity" /\ a.status = status
  BY <1>1, <1>2, DlNames
<1>4. a.tag = EntityTag(v) /\ a.date = v.second
  BY <1>1, <1>2, DlNames
<1> QED
  BY <1>3, <1>4 DEF a

\* What the stat of the file decides is about the version it saw.
LEMMA FileAnswers ==
  ASSUME NEW q, NEW v
  PROVE  LET a == FileAnswer(q, v) IN
         DOMAIN a = FileFields /\ a.coding = "identity" /\ About(a, q, v)
<1> DEFINE a == FileAnswer(q, v)
           span == RangeOf(q, v)
<1>1. CASE PreconditionFails(q, v)
  <2>1. a = Answered(412)
    BY <1>1 DEF FileAnswer
  <2> QED
    BY <2>1, Answereds DEF About
<1>2. CASE ~PreconditionFails(q, v) /\ NotModified(q, v)
  <2>1. a = [Answered(304) EXCEPT !.tag = EntityTag(v), !.date = v.second]
    BY <1>2 DEF FileAnswer, Validated
  <2> HIDE DEF a
  <2>2. DOMAIN a = FileFields /\ a.coding = "identity" /\ a.status = 304
    BY <2>1, Answereds, DlNames
  <2>3. About(a, q, v)
    BY <1>2, <2>2 DEF About
  <2> QED
    BY <2>2, <2>3 DEF a
<1>3. CASE ~PreconditionFails(q, v) /\ ~NotModified(q, v)
  <2>1. a = ForSpan(span, v)
    BY <1>3 DEF FileAnswer
  <2>2. CASE Resuming(q) /\ ~IfRangeMatches(q.ifRangeTag, q.ifRangeDate, v)
    <3>1. span = WholeFile
      BY <2>2 DEF RangeOf, Resuming
    <3>2. a = Content(200, v, 0, v.length)
      BY <2>1, <3>1 DEF ForSpan, WholeFile, Span
    <3> QED
      BY <3>2, Contents DEF About
  <2>3. CASE Resuming(q) => IfRangeMatches(q.ifRangeTag, q.ifRangeDate, v)
    <3>1. \/ a = [Answered(416) EXCEPT !.ranges = TRUE]
          \/ a = Content(206, v, span.first, span.last - span.first + 1)
          \/ a = Content(200, v, 0, v.length)
      BY <2>1 DEF ForSpan
    <3> HIDE DEF a, span
    <3>2. CASE a = [Answered(416) EXCEPT !.ranges = TRUE]
      <4>1. DOMAIN a = FileFields /\ a.coding = "identity" /\ a.status = 416
        BY <3>2, Answereds, DlNames
      <4> QED
        BY <2>3, <4>1 DEF About, a
    <3>3. CASE a = Content(206, v, span.first, span.last - span.first + 1)
      BY <2>3, <3>3, Contents DEF About, a
    <3>4. CASE a = Content(200, v, 0, v.length)
      BY <3>4, Contents DEF About, a
    <3> QED
      BY <3>1, <3>2, <3>3, <3>4
  <2> QED
    BY <2>2, <2>3
<1> QED
  BY <1>1, <1>2, <1>3

\* What dispatch and Compression make of an answer that has no coding yet.
LEMMA SentKeeps ==
  ASSUME NEW a, NEW q, DOMAIN a = FileFields, a.coding = "identity", q.accept \in AcceptEncodings
  PROVE  LET s == Sent(a, q) IN
         /\ DOMAIN s = FileFields /\ s.status = a.status /\ s.tag = a.tag /\ s.date = a.date
         /\ Coded(s, q)
<1> DEFINE x == Strip(a, q)
           s == Sent(a, q)
           head == q.method = "HEAD"
           coding == Negotiate(q.accept)
<1>1. x = a \/ x = [a EXCEPT !.stream = FALSE, !.declared = TRUE]
  BY DEF Strip
<1>2. \/ s = x
      \/ /\ coding # "identity" /\ x.status \notin {204, 206, 304, 416}
         /\ s = [x EXCEPT !.coding = coding, !.declared = ~x.stream /\ ~head, !.ranges = FALSE]
  BY DEF Sent, Compress, Encoded, ShouldCompress
<1> HIDE DEF x, s, head, coding
<1>3. /\ DOMAIN x = FileFields /\ x.status = a.status /\ x.tag = a.tag /\ x.date = a.date
      /\ x.coding = "identity"
  BY <1>1, DlNames
<1>4. DOMAIN s = FileFields /\ s.status = a.status /\ s.tag = a.tag /\ s.date = a.date
  <2>1. DOMAIN s = DOMAIN x
    BY <1>2
  <2>2. s.status = x.status
    <3> DEFINE declared == ~x.stream /\ ~head
    <3>1. s = x \/ s = [x EXCEPT !.coding = coding, !.declared = declared, !.ranges = FALSE]
      BY <1>2
    <3> HIDE DEF declared
    <3> QED
      BY ONLY <3>1, <1>3, DlNames
  <2>3. s.tag = x.tag
    BY <1>2, <1>3, DlNames
  <2>4. s.date = x.date
    BY <1>2, <1>3, DlNames
  <2> QED
    BY <1>3, <2>1, <2>2, <2>3, <2>4
<1>5. CASE s = x
  BY <1>3, <1>4, <1>5 DEF Coded, s
<1>6. CASE s # x
  <2>1. s.coding = coding
    BY <1>2, <1>3, <1>6, DlNames
  <2>2. s.ranges = FALSE
    BY <1>2, <1>3, <1>6, DlNames
  <2>3. coding # "identity" => Offer(q.accept, coding).q > 0
    BY NegotiatedIsAccepted DEF coding
  <2>4. Coded(s, q)
    BY <1>2, <1>3, <1>4, <1>6, <2>1, <2>2, <2>3 DEF Coded
  <2> QED
    BY <1>4, <2>4 DEF s
<1> QED
  BY <1>5, <1>6

\* A step that only asks: the query names what the client has.
LEMMA Asking ==
  ASSUME DlIInv, download.phase = "idle", NEW q, download' = Ask(q), Asks(q, download.copy)
  PROVE  DlIInv'
<1>1. download' = [download EXCEPT !.phase = "asked", !.query = q]
  BY DEF Ask
<1>2. DOMAIN download = DlFields /\ download.answer = Answered(0)
  BY DEF DlIInv, DlTyped
<1>3. /\ DOMAIN download' = DlFields /\ download'.phase = "asked" /\ download'.query = q
      /\ download'.disk = download.disk /\ download'.answer = download.answer
      /\ download'.raced = download.raced /\ download'.copy = download.copy
  BY <1>1, <1>2, DlNames
<1>4. DlTyped(download')
  BY <1>3, DlNames DEF DlIInv, DlTyped
<1>5. Asked(download')
  BY <1>3 DEF Asked
<1>6. Coded(download'.answer, q)
  BY <1>2, <1>3, Answereds DEF Coded
<1> QED
  BY <1>2, <1>3, <1>4, <1>5, <1>6 DEF DlIInv

\* The client is done with an answer, and keeps copy.
LEMMA Forgetting ==
  ASSUME DlIInv, download.phase # "unmounted", NEW copy,
         download' = [download EXCEPT !.phase = "idle", !.query = NoQuery, !.stat = NoVersion,
                                      !.opened = NoVersion, !.answer = Answered(0), !.copy = copy],
         ~download.raced => KeptFrom(copy, download.disk.second)
  PROVE  DlIInv'
<1>1. DOMAIN download = DlFields
  BY DEF DlIInv, DlTyped
<1>2. /\ DOMAIN download' = DlFields /\ download'.phase = "idle"
      /\ download'.disk = download.disk /\ download'.answer = Answered(0)
      /\ download'.raced = download.raced /\ download'.copy = copy
  BY <1>1, DlNames
<1>3. DlTyped(download')
  BY <1>2, DlNames, Answereds DEF DlIInv, DlTyped
<1>4. Asked(download')
  BY <1>2 DEF Asked
<1>5. Coded(download'.answer, download'.query)
  BY <1>2, Answereds DEF Coded
<1> QED
  BY <1>2, <1>3, <1>4, <1>5 DEF DlIInv

\* What the client has after an answer whose file was not replaced under it.
LEMMA Receiving ==
  ASSUME DlIInv, download.phase = "answered", ~download.raced, NEW n
  PROVE  KeptFrom(Received(download.copy, n), download.disk.second)
<1> DEFINE a == download.answer
           c == download.copy
           v == download.stat
           q == download.query
           r == Received(c, n)
<1>1. /\ v \in Versions /\ v.second <= download.disk.second /\ download.opened = v
      /\ About(a, q, v) /\ Coded(a, q) /\ Asks(q, c)
      /\ KeptFrom(c, v.second) /\ KeptFrom(c, download.disk.second)
  BY DEF DlIInv, Asked
<1>2. Source = <<v, a.coding>>
  BY <1>1 DEF Source
<1>3. CASE a.status = 206 /\ Continues
  <2>1. r = [c EXCEPT !.sources = c.sources \cup {Source}, !.have = c.have + n,
                      !.whole = n = a.count]
    BY <1>3 DEF Received
  <2>2. Resuming(q)
    BY <1>3 DEF Continues, Resuming
  <2>3. IfRangeMatches(q.ifRangeTag, q.ifRangeDate, v)
    BY <1>1, <1>3, <2>2 DEF About
  <2>4. /\ c # NoCopy /\ c.resumable
        /\ q.ifRangeTag = c.tag \/ (q.ifRangeTag = NoTag /\ q.ifRangeDate = c.date)
    BY <1>1, <2>2 DEF Asks
  <2>5. PICK w \in Versions : Holds(c, w) /\ w.second <= v.second
    BY <1>1, <2>4 DEF KeptFrom
  <2>6. /\ DOMAIN c = CopyFields /\ c.sources = {<<w, "identity">>}
        /\ c.tag = EntityTag(w) /\ c.date = w.second
    BY <2>4, <2>5 DEF Holds
  <2>7. w = v
    BY <1>1, <2>3, <2>4, <2>6, TagsTell DEF IfRangeMatches
  <2>8. a.coding = "identity"
    BY <1>1, <1>3 DEF Coded
  <2> HIDE DEF r, c
  <2>9. DOMAIN r = CopyFields /\ r.tag = c.tag /\ r.date = c.date
    BY <2>1, <2>6 DEF CopyFields
  <2>10. r.sources = {<<v, "identity">>}
    <3>1. r.sources = c.sources \cup {Source}
      BY <2>1, <2>6 DEF CopyFields
    <3> QED
      BY <1>2, <2>6, <2>7, <2>8, <3>1
  <2>11. Holds(r, v)
    BY <2>6, <2>7, <2>9, <2>10 DEF Holds
  <2> QED
    BY <1>1, <2>11 DEF KeptFrom, r, c
<1>4. CASE ~(a.status = 206 /\ Continues) /\ a.status \in {200, 206}
  <2> DEFINE whole == a.status = 200 /\ n = a.count
             resumable == a.ranges /\ a.first = 0
  <2>1. r = [sources |-> {Source}, have |-> n, whole |-> whole, resumable |-> resumable,
             tag |-> a.tag, date |-> a.date]
    BY <1>4 DEF Received
  <2>2. a.tag = EntityTag(v) /\ a.date = v.second
    BY <1>1, <1>4 DEF About
  <2>3. resumable => a.coding = "identity"
    BY <1>1 DEF Coded
  <2> HIDE DEF whole, resumable
  <2>4. /\ DOMAIN r = CopyFields /\ r.sources = {<<v, a.coding>>}
        /\ r.tag = EntityTag(v) /\ r.date = v.second
    BY <1>2, <2>1, <2>2 DEF CopyFields
  <2>5. r.resumable = resumable
    BY <2>1
  <2>6. Holds(r, v)
    BY <2>3, <2>4, <2>5 DEF Holds
  <2> QED
    BY <1>1, <2>6 DEF KeptFrom
<1>5. CASE a.status \notin {200, 206}
  <2>1. r = NoCopy \/ r = c
    BY <1>5 DEF Received
  <2> QED
    BY <1>1, <2>1 DEF KeptFrom
<1> QED
  BY <1>3, <1>4, <1>5

\* Before the directory is mounted the invariant holds.
LEMMA DlStarts == DlInit => DlIInv
<1> SUFFICES ASSUME DlInit PROVE DlIInv
  OBVIOUS
<1>1. /\ DOMAIN download = DlFields /\ download.phase = "unmounted"
      /\ download.disk = NoVersion /\ download.answer = Answered(0)
      /\ download.copy = NoCopy
  BY DEF DlInit, DlFields
<1>2. DlTyped(download)
  BY <1>1, DlNames, Answereds DEF DlTyped
<1>3. Asked(download) /\ KeptFrom(download.copy, download.disk.second)
  BY <1>1 DEF Asked, KeptFrom
<1>4. Coded(download.answer, download.query)
  BY <1>1, Answereds DEF Coded
<1> QED
  BY <1>1, <1>2, <1>3, <1>4 DEF DlIInv

\* A query without a validator claims nothing of the copy.
LEMMA AsksPlainly ==
  ASSUME NEW q, NEW copy, q.accept \in AcceptEncodings, q.ifNoneMatch = NoTag,
         q.ifModified = NoDate, q.ifRangeTag = NoTag, q.ifRangeDate = NoDate
  PROVE  Asks(q, copy)
BY DEF Asks, Resuming

\* ... nor does the empty one.
LEMMA NoQueryFields ==
  /\ DOMAIN NoQuery = QueryFields /\ NoQuery.accept \in AcceptEncodings
  /\ NoQuery.ifNoneMatch = NoTag /\ NoQuery.ifModified = NoDate
  /\ NoQuery.ifRangeTag = NoTag /\ NoQuery.ifRangeDate = NoDate
BY DEF NoQuery, QueryFields, AcceptEncodings

\* Every step of the client, of the server and of who replaces the file keeps it.
LEMMA DlSteps == DlIInv /\ [DlNext]_download => DlIInv'
<1> SUFFICES ASSUME DlIInv, [DlNext]_download PROVE DlIInv'
  OBVIOUS
<1>d. DOMAIN download = DlFields /\ DlTyped(download)
  BY DEF DlIInv, DlTyped
<1>a. \A accept \in Accepts : accept \in AcceptEncodings
  BY Distinct
<1>1. ASSUME NEW v \in Versions, Mount(v) PROVE DlIInv'
  <2>1. download.phase = "unmounted" /\ download' = [download EXCEPT !.phase = "idle", !.disk = v]
    BY <1>1 DEF Mount
  <2>2. /\ DOMAIN download' = DlFields /\ download'.phase = "idle" /\ download'.disk = v
        /\ download'.answer = download.answer /\ download'.query = download.query
        /\ download'.raced = download.raced /\ download'.copy = download.copy
    BY <1>d, <2>1, DlNames
  <2>3. DlTyped(download') /\ Asked(download')
    BY <2>2, DlNames DEF DlIInv, DlTyped, Asked
  <2>4. ~download.raced => KeptFrom(download.copy, v.second)
    <3>1. v.second \in Nat /\ download.disk.second = 0
      BY <1>d, <2>1, TagsTell DEF DlTyped, NoVersion
    <3> QED
      BY <3>1, TagsTell DEF DlIInv, KeptFrom
  <2> QED
    BY <2>1, <2>2, <2>3, <2>4 DEF DlIInv
<1>2. ASSUME NEW v \in Versions, Replace(v) PROVE DlIInv'
  <2>1. /\ download.phase \in {"idle", "stated"} /\ v.second > download.disk.second
        /\ download' = [download EXCEPT !.disk = v]
    BY <1>2 DEF Replace
  <2>2. /\ DOMAIN download' = DlFields /\ download'.phase = download.phase
        /\ download'.disk = v /\ download'.stat = download.stat
        /\ download'.answer = download.answer /\ download'.query = download.query
        /\ download'.raced = download.raced /\ download'.copy = download.copy
    BY <1>d, <2>1, DlNames
  <2>3. v.second \in Nat /\ download.disk.second \in Nat
    BY <1>d, <2>1, TagsTell DEF DlTyped
  <2>4. DlTyped(download')
    BY <2>1, <2>2, DlNames DEF DlIInv, DlTyped
  <2>5. Asked(download')
    <3>1. ASSUME download.phase = "stated" PROVE download.stat.second <= v.second
      <4>1. download.stat.second \in Nat /\ download.stat.second <= download.disk.second
        BY <3>1, TagsTell DEF DlIInv, Asked
      <4> QED
        BY <2>1, <2>3, <4>1
    <3> QED
      BY <2>1, <2>2, <3>1 DEF DlIInv, Asked
  <2>6. ~download.raced => KeptFrom(download.copy, v.second)
    BY <2>1, <2>3, TagsTell DEF DlIInv, KeptFrom
  <2> QED
    BY <2>1, <2>2, <2>4, <2>5, <2>6 DEF DlIInv
<1>3. ASSUME NEW accept \in Accepts, NEW range, Fetch(accept, range) PROVE DlIInv'
  <2> DEFINE q == [NoQuery EXCEPT !.accept = accept, !.range = range]
  <2>1. download.phase = "idle" /\ download' = Ask(q)
    BY <1>3 DEF Fetch
  <2>2. /\ q.accept = accept /\ q.ifNoneMatch = NoTag /\ q.ifModified = NoDate
        /\ q.ifRangeTag = NoTag /\ q.ifRangeDate = NoDate
    BY NoQueryFields, DlNames
  <2> HIDE DEF q
  <2> QED
    BY <1>a, <2>1, <2>2, AsksPlainly, Asking
<1>4. ASSUME NEW accept \in Accepts, AskHead(accept) PROVE DlIInv'
  <2> DEFINE q == [NoQuery EXCEPT !.method = "HEAD", !.accept = accept]
  <2>1. download.phase = "idle" /\ download' = Ask(q)
    BY <1>4 DEF AskHead
  <2>2. /\ q.accept = accept /\ q.ifNoneMatch = NoTag /\ q.ifModified = NoDate
        /\ q.ifRangeTag = NoTag /\ q.ifRangeDate = NoDate
    BY NoQueryFields, DlNames
  <2> HIDE DEF q
  <2> QED
    BY <1>a, <2>1, <2>2, AsksPlainly, Asking
<1>5. ASSUME NEW accept \in Accepts, NEW byDate \in BOOLEAN, Resume(accept, byDate) PROVE DlIInv'
  <2> DEFINE c == download.copy
             range == Span("from", c.have, 0)
             tag == IF byDate THEN NoTag ELSE c.tag
             date == IF byDate THEN c.date ELSE NoDate
             q == [NoQuery EXCEPT !.accept = accept, !.range = range,
                                  !.ifRangeTag = tag, !.ifRangeDate = date]
  <2>1. download.phase = "idle" /\ c.resumable /\ c.have > 0 /\ download' = Ask(q)
    BY <1>5 DEF Resume
  <2>2. c # NoCopy
    BY <2>1 DEF NoCopy
  <2>3. tag = c.tag \/ (tag = NoTag /\ date = c.date)
    OBVIOUS
  <2> HIDE DEF range, tag, date
  <2>4. /\ q.accept = accept /\ q.ifNoneMatch = NoTag /\ q.ifModified = NoDate
        /\ q.ifRangeTag = tag /\ q.ifRangeDate = date
    BY NoQueryFields, DlNames
  <2> HIDE DEF q
  <2>5. Asks(q, c)
    BY <1>a, <2>1, <2>2, <2>3, <2>4 DEF Asks
  <2> QED
    BY <2>1, <2>5, Asking
<1>6. ASSUME NEW accept \in Accepts, NEW byDate \in BOOLEAN, Revalidate(accept, byDate)
      PROVE  DlIInv'
  <2> DEFINE c == download.copy
             tag == IF byDate THEN NoTag ELSE c.tag
             q == [NoQuery EXCEPT !.accept = accept, !.ifNoneMatch = tag, !.ifModified = c.date]
  <2>1. download.phase = "idle" /\ c.whole /\ download' = Ask(q)
    BY <1>6 DEF Revalidate
  <2>2. c # NoCopy
    BY <2>1 DEF NoCopy
  <2>3. tag \in {NoTag, c.tag}
    OBVIOUS
  <2> HIDE DEF tag
  <2>4. /\ q.accept = accept /\ q.ifNoneMatch = tag /\ q.ifModified = c.date
        /\ q.ifRangeTag = NoTag /\ q.ifRangeDate = NoDate
    BY NoQueryFields, DlNames
  <2> HIDE DEF q
  <2>5. Asks(q, c)
    BY <1>a, <2>2, <2>3, <2>4 DEF Asks, Resuming
  <2> QED
    BY <2>1, <2>5, Asking
<1>7. ASSUME NEW byDate \in BOOLEAN, AskSame(byDate) PROVE DlIInv'
  <2> DEFINE c == download.copy
             tag == IF byDate THEN NoTag ELSE c.tag
             q == [NoQuery EXCEPT !.ifMatch = tag, !.ifUnmodified = c.date]
  <2>1. download.phase = "idle" /\ download' = Ask(q)
    BY <1>7 DEF AskSame
  <2>2. /\ q.accept \in AcceptEncodings /\ q.ifNoneMatch = NoTag /\ q.ifModified = NoDate
        /\ q.ifRangeTag = NoTag /\ q.ifRangeDate = NoDate
    BY NoQueryFields, DlNames
  <2> HIDE DEF q
  <2> QED
    BY <2>1, <2>2, AsksPlainly, Asking
<1>8. ASSUME NEW where, Astray(where) PROVE DlIInv'
  <2> DEFINE a == InsteadOfFile(where)
             s == Sent(a, download.query)
  <2>1. /\ download.phase = "asked"
        /\ download' = [download EXCEPT !.phase = "astray", !.answer = s]
    BY <1>8 DEF Astray
  <2>2. download.query.accept \in AcceptEncodings
    BY <2>1 DEF DlIInv, Asked, Asks
  <2>3. DOMAIN a = FileFields /\ a.coding = "identity" /\ a.status \in {200, 308, 404}
    <3>1. \/ a = [Answered(200) EXCEPT !.count = MinSize, !.declared = TRUE]
          \/ a = Answered(308) \/ a = Answered(404)
      BY DEF InsteadOfFile
    <3> HIDE DEF a
    <3>2. CASE a = [Answered(200) EXCEPT !.count = MinSize, !.declared = TRUE]
      <4>1. /\ DOMAIN a = DOMAIN Answered(200) /\ a.coding = Answered(200).coding
            /\ a.status = Answered(200).status
        BY <3>2, Answereds, DlNames
      <4> QED
        BY <4>1, Answereds
    <3> QED
      BY <3>1, <3>2, Answereds
  <2> HIDE DEF a
  <2>4. DOMAIN s = FileFields /\ s.status = a.status /\ Coded(s, download.query)
    BY <2>2, <2>3, SentKeeps
  <2> HIDE DEF s
  <2>5. /\ DOMAIN download' = DlFields /\ download'.phase = "astray"
        /\ download'.disk = download.disk /\ download'.answer = s
        /\ download'.query = download.query
        /\ download'.raced = download.raced /\ download'.copy = download.copy
    BY <1>d, <2>1, DlNames
  <2>6. DlTyped(download') /\ Asked(download')
    BY <2>1, <2>4, <2>5, DlNames DEF DlIInv, DlTyped, Asked
  <2> QED
    BY <2>3, <2>4, <2>5, <2>6 DEF DlIInv
<1>9. ASSUME NEW where, Stat(where) PROVE DlIInv'
  <2> DEFINE a == FileAnswer(download.query, download.disk)
  <2>1. /\ download.phase = "asked"
        /\ download' = [download EXCEPT !.phase = "stated", !.stat = download.disk, !.answer = a]
    BY <1>9 DEF Stat
  <2>2. /\ DOMAIN a = FileFields /\ a.coding = "identity"
        /\ About(a, download.query, download.disk)
    BY FileAnswers
  <2> HIDE DEF a
  <2>3. /\ DOMAIN download' = DlFields /\ download'.phase = "stated"
        /\ download'.disk = download.disk /\ download'.stat = download.disk
        /\ download'.answer = a /\ download'.query = download.query
        /\ download'.raced = download.raced /\ download'.copy = download.copy
    BY <1>d, <2>1, DlNames
  <2>4. download.disk \in Versions /\ download.disk.second \in Nat
    BY <1>d, <2>1, TagsTell DEF DlTyped
  <2>5. DlTyped(download')
    BY <2>2, <2>3, <2>4, DlNames DEF DlTyped
  <2>6. Asked(download')
    BY <2>1, <2>2, <2>3, <2>4 DEF DlIInv, Asked
  <2> QED
    BY <2>2, <2>3, <2>5, <2>6 DEF DlIInv, Coded
<1>10. ASSUME OpenFile PROVE DlIInv'
  <2> DEFINE s == Sent(download.answer, download.query)
             torn == download.raced \/ download.disk # download.stat
  <2>1. /\ download.phase = "stated"
        /\ download' = [download EXCEPT !.phase = "answered", !.opened = download.disk,
                                        !.raced = torn, !.answer = s]
    BY <1>10 DEF OpenFile
  <2>2. /\ DOMAIN s = FileFields /\ s.status = download.answer.status
        /\ s.tag = download.answer.tag /\ s.date = download.answer.date
        /\ Coded(s, download.query)
    <3>1. /\ DOMAIN download.answer = FileFields /\ download.answer.coding = "identity"
          /\ download.query.accept \in AcceptEncodings
      BY <2>1 DEF DlIInv, DlTyped, Asked, Asks
    <3> QED
      BY <3>1, SentKeeps
  <2>3. ~torn => ~download.raced /\ download.disk = download.stat
    OBVIOUS
  <2> HIDE DEF s, torn
  <2>4. /\ DOMAIN download' = DlFields /\ download'.phase = "answered"
        /\ download'.disk = download.disk /\ download'.stat = download.stat
        /\ download'.answer = s /\ download'.query = download.query
        /\ download'.opened = download.disk /\ download'.copy = download.copy
    BY <1>d, <2>1, DlNames
  <2>5. download'.raced = torn
    BY <1>d, <2>1, DlNames
  <2>6. DlTyped(download')
    BY <2>1, <2>2, <2>4, DlNames DEF DlIInv, DlTyped
  <2>7. About(s, download.query, download.stat)
    BY <2>1, <2>2 DEF DlIInv, Asked, About
  <2>8. Asked(download')
    BY <2>1, <2>3, <2>4, <2>5, <2>7 DEF DlIInv, Asked
  <2> QED
    BY <2>2, <2>3, <2>4, <2>5, <2>6, <2>8 DEF DlIInv
<1>11. ASSUME Return PROVE DlIInv'
  <2>1. /\ download.phase = "astray"
        /\ download' = [download EXCEPT !.phase = "idle", !.query = NoQuery, !.stat = NoVersion,
                                        !.opened = NoVersion, !.answer = Answered(0)]
    BY <1>11 DEF Return, Forget
  <2>2. download' = [download EXCEPT !.phase = "idle", !.query = NoQuery, !.stat = NoVersion,
                                     !.opened = NoVersion, !.answer = Answered(0),
                                     !.copy = download.copy]
    BY <1>d, <2>1, DlNames
  <2>3. ~download.raced => KeptFrom(download.copy, download.disk.second)
    BY DEF DlIInv
  <2> QED
    BY <2>1, <2>2, <2>3, Forgetting
<1>12. ASSUME NEW n, TakeAnswer(n) PROVE DlIInv'
  <2> DEFINE copy == IF download.query.method = "HEAD" THEN download.copy
                     ELSE Received(download.copy, n)
  <2>1. download.phase = "answered" /\ download' = [Forget EXCEPT !.copy = copy]
    <3>1. Forget.copy = download.copy
      BY <1>d, DlNames DEF Forget
    <3> QED
      BY <1>12, <3>1 DEF TakeAnswer
  <2>2. ~download.raced => KeptFrom(copy, download.disk.second)
    BY <2>1, Receiving DEF DlIInv
  <2> HIDE DEF copy
  <2>3. download' = [download EXCEPT !.phase = "idle", !.query = NoQuery, !.stat = NoVersion,
                                     !.opened = NoVersion, !.answer = Answered(0), !.copy = copy]
    BY <2>1 DEF Forget
  <2> QED
    BY <2>1, <2>2, <2>3, Forgetting
<1>13. CASE UNCHANGED download
  BY <1>13 DEF DlIInv
<1> QED
  BY <1>1, <1>2, <1>3, <1>4, <1>5, <1>6, <1>7, <1>8, <1>9, <1>10, <1>11, <1>12, <1>13 DEF DlNext

\* For any versions of the file and any headers: unless the file is replaced between
\* the stat and the open, a client that resumes and revalidates has bytes of one
\* version in one coding, a 304 or a retractable 416 is only said of what it has;
\* and no coding is sent that it did not accept.
THEOREM CopiesAreOne == DlSpec => []CopyIsOne
<1>1. DlIInv => CopyIsOne
  <2> SUFFICES ASSUME DlIInv PROVE CopyIsOne
    OBVIOUS
  <2> DEFINE c == download.copy
             a == download.answer
             v == download.stat
             q == download.query
  <2>1. a.coding # "identity" => Offer(q.accept, a.coding).q > 0
    BY DEF DlIInv, Coded
  <2>2. ASSUME ~download.raced PROVE Cardinality(c.sources) <= 1
    <3>1. CASE c = NoCopy
      BY <3>1, FS_EmptySet DEF NoCopy
    <3>2. CASE c # NoCopy
      <4>1. PICK w \in Versions : Holds(c, w)
        BY <2>2, <3>2 DEF DlIInv, KeptFrom
      <4>2. PICK coding : c.sources = {<<w, coding>>}
        BY <4>1 DEF Holds
      <4>3. Cardinality({<<w, coding>>}) = 1
        BY FS_Singleton
      <4> QED
        BY <4>2, <4>3
    <3> QED
      BY <3>1, <3>2
  <2>3. ASSUME ~download.raced, a.status \in {304, 416}, NEW w \in Versions, Holds(c, w),
               a.status = 416 => Continues
        PROVE  w = v
    <3>1. download.phase \in {"stated", "answered"}
      BY <2>3, Answereds DEF DlIInv, DlTyped, DlPhases
    <3>2. /\ Asks(q, c) /\ About(a, q, v) /\ v \in Versions /\ KeptFrom(c, v.second)
      BY <2>3, <3>1 DEF DlIInv, Asked
    <3>3. c.sources # {} /\ c.tag = EntityTag(w) /\ c.date = w.second
      BY <2>3 DEF Holds
    <3>4. w.second <= v.second
      BY <2>3, <3>2, TagsTell DEF KeptFrom, Holds, NoCopy
    <3>5. CASE a.status = 304
      <4>1. NotModified(q, v)
        BY <3>2, <3>5 DEF About
      <4>2. q.ifModified = c.date /\ q.ifNoneMatch \in {NoTag, c.tag}
        BY <3>2, <4>1 DEF NotModified, Asks
      <4>3. CASE q.ifNoneMatch # NoTag
        BY <3>2, <3>3, <4>1, <4>2, <4>3, TagsTell DEF NotModified, EtagMatches
      <4>4. CASE q.ifNoneMatch = NoTag
        <5>1. v.second <= w.second
          BY <3>3, <4>1, <4>2, <4>4 DEF NotModified
        <5>2. v.second = w.second
          BY <3>2, <3>4, <5>1, TagsTell
        <5> QED
          BY <3>2, <5>2, TagsTell
      <4> QED
        BY <4>3, <4>4
    <3>6. CASE a.status = 416
      <4>1. Resuming(q) /\ IfRangeMatches(q.ifRangeTag, q.ifRangeDate, v)
        BY <2>3, <3>2, <3>6 DEF Continues, Resuming, About
      <4> QED
        BY <3>2, <3>3, <4>1, TagsTell DEF Asks, IfRangeMatches
    <3> QED
      BY <2>3, <3>5, <3>6
  <2>4. ASSUME ~download.raced, a.status \in {304, 416}, a.status = 416 => Continues,
               NEW s \in c.sources
        PROVE  s[1] = v
    <3>1. PICK w \in Versions : Holds(c, w)
      BY <2>4 DEF DlIInv, KeptFrom, NoCopy
    <3>2. s[1] = w
      BY <2>4, <3>1 DEF Holds
    <3> QED
      BY <2>3, <2>4, <3>1, <3>2
  <2> QED
    BY <2>1, <2>2, <2>4 DEF CopyIsOne
<1> QED
  BY <1>1, DlStarts, DlSteps, PTL DEF DlSpec

-----------------------------------------------------------------------------
(* RateLimit: the table of schedules.                                       *)

(* The rate, the bound on the table and the bound on a key's debt, for any  *)
(* keys, threads, rates and tolerances, and for readings of the clock that  *)
(* reach the table in any order.                                            *)

\* Pruning leaves room for one entry, whatever it keeps.
LEMMA PruneLeavesRoom ==
  ASSUME RlTypeOK, NEW n \in Nat, NEW left \in Pruned(n)
  PROVE  /\ left \subseteq Tracked /\ IsFiniteSet(left)
         /\ Cardinality(left) \in Nat /\ Cardinality(left) < MaxKeys
<1>1. Tracked \subseteq Key /\ IsFiniteSet(Tracked)
  BY KeyFinite, FS_Subset DEF Tracked
<1>2. left \subseteq Tracked
  BY DEF Pruned, Survivors, Unexpired
<1>3. IsFiniteSet(left) /\ Cardinality(left) \in Nat
  BY <1>1, <1>2, FS_Subset, FS_CardinalityType
<1>4. Target < MaxKeys
  BY MaxKeysPositive DEF Target
<1>5. Cardinality(Tracked) \in Nat
  BY <1>1, FS_CardinalityType
<1>6. Unexpired(n) \subseteq Tracked
  BY DEF Unexpired
<1>7. Cardinality(Unexpired(n)) \in Nat
  BY <1>1, <1>6, FS_Subset, FS_CardinalityType
<1>8. Cardinality(left) < MaxKeys
  <2>1. CASE Cardinality(Tracked) < MaxKeys
    <3>1. ~(Cardinality(Tracked) >= MaxKeys)
      BY <1>5, <2>1, MaxKeysPositive
    <3> QED
      BY <2>1, <3>1 DEF Pruned
  <2>2. CASE ~(Cardinality(Tracked) < MaxKeys)
    <3>1. left \in Survivors(n)
      BY <1>5, <2>2, MaxKeysPositive DEF Pruned
    <3>2. CASE Cardinality(Unexpired(n)) < MaxKeys
      BY <3>1, <3>2 DEF Survivors
    <3>3. CASE ~(Cardinality(Unexpired(n)) < MaxKeys)
      <4>1. Cardinality(left) = Target
        BY <3>1, <3>3 DEF Survivors
      <4> QED
        BY <1>4, <4>1
    <3> QED
      BY <3>2, <3>3
  <2> QED
    BY <2>1, <2>2
<1> QED
  BY <1>2, <1>3, <1>8

\* An admitted request was no further ahead than the tolerance, and its entry
\* pays for it.
LEMMA AdmittedEntry ==
  ASSUME RlTypeOK, NEW n \in Nat, NEW left \in SUBSET Tracked, NEW k \in Key,
         ~Rejected(left, k, n)
  PROVE  /\ Schedule(left, k, n) \in Nat
         /\ Schedule(left, k, n) <= n + Tolerance
         /\ Entry(left, k, n) \in Nat
         /\ Entry(left, k, n) >= Schedule(left, k, n) + Emission
         /\ Entry(left, k, n) >= n + Emission
         /\ Entry(left, k, n) <= n + Tolerance + Emission
<1> DEFINE s == Schedule(left, k, n)
<1>1. s \in Nat
  BY DEF Schedule, Tracked, RlTypeOK, Absent
<1>2. s <= n + Tolerance
  BY <1>1, TimesAreNat DEF Rejected, Earliest
<1>3. Entry(left, k, n) = (IF s > n THEN s ELSE n) + Emission
  BY DEF Entry, Later
<1> HIDE DEF s
<1>4. /\ Entry(left, k, n) \in Nat
      /\ Entry(left, k, n) >= s + Emission
      /\ Entry(left, k, n) >= n + Emission
      /\ Entry(left, k, n) <= n + Tolerance + Emission
  BY <1>1, <1>2, <1>3, TimesAreNat
<1> QED
  BY <1>1, <1>2, <1>4 DEF s

-----------------------------------------------------------------------------
(* RlIInv is inductive.                                                       *)

\* An empty table satisfies the invariant.
LEMMA RlInitKeeps == RlInit => RlIInv
<1> SUFFICES ASSUME RlInit PROVE RlIInv
  OBVIOUS
<1>1. RlTypeOK
  BY TimesAreNat DEF RlInit, RlTypeOK, Absent
<1>2. Tracked = {}
  BY DEF RlInit, Tracked
<1>3. TableBounded
  BY <1>2, FS_EmptySet, MaxKeysPositive DEF TableBounded
<1>4. ReadingsPast /\ TatBounded /\ WindowCharged /\ RateConforms
  BY <1>2, TimesAreNat DEF RlInit, ReadingsPast, TatBounded, WindowCharged, RateConforms
<1> QED
  BY <1>1, <1>3, <1>4 DEF RlIInv

\* Admitting a request keeps it: the schedule is charged and room was made.
LEMMA AdmitKeeps ==
  ASSUME RlIInv, NEW t \in Thread, asking[t] # None, NEW left \in Pruned(now[t]),
         Admit(left, asking[t], now[t]),
         asking' = [asking EXCEPT ![t] = None], UNCHANGED <<clock, now>>
  PROVE  RlIInv'
<1> DEFINE k == asking[t]
           n == now[t]
           e == Entry(left, k, n)
           s == Schedule(left, k, n)
<1> USE DEF RlIInv
<1>1. k \in Key /\ n \in Nat /\ n <= clock /\ clock \in Nat
  BY DEF RlTypeOK, ReadingsPast
<1>2. /\ left \subseteq Tracked /\ IsFiniteSet(left)
      /\ Cardinality(left) \in Nat /\ Cardinality(left) < MaxKeys
  BY <1>1, PruneLeavesRoom
<1>3. /\ s \in Nat /\ s <= n + Tolerance /\ e \in Nat /\ e >= s + Emission
      /\ e >= n + Emission /\ e <= n + Tolerance + Emission
  BY <1>1, <1>2, AdmittedEntry DEF Admit
<1>4. tat' = [x \in Key |-> IF x = k THEN e ELSE IF x \in left THEN tat[x] ELSE Absent]
  BY DEF Admit
<1>5. k \in left => s = tat[k]
  BY DEF Schedule
<1>6. PICK restart \in BOOLEAN :
        LET fresh == restart \/ k \notin left \/ first[k] = Absent IN
        /\ first' = [x \in Key |-> IF x = k THEN (IF fresh THEN n ELSE first[k])
                                   ELSE IF x \in left THEN first[x] ELSE Absent]
        /\ last' = [last EXCEPT ![k] = n]
        /\ cost' = [cost EXCEPT ![k] = IF fresh THEN Emission ELSE @ + Emission]
  BY DEF Admit, Record
<1> DEFINE fresh == restart \/ k \notin left \/ first[k] = Absent
<1>7. /\ first' = [x \in Key |-> IF x = k THEN (IF fresh THEN n ELSE first[k])
                                 ELSE IF x \in left THEN first[x] ELSE Absent]
      /\ last' = [last EXCEPT ![k] = n]
      /\ cost' = [cost EXCEPT ![k] = IF fresh THEN Emission ELSE cost[k] + Emission]
  BY <1>6 DEF RlTypeOK
<1>8. /\ ~fresh => k \in left /\ first[k] \in Nat /\ cost[k] \in Nat
      /\ ~fresh => first[k] + cost[k] <= s
  BY <1>1, <1>5 DEF RlTypeOK, WindowCharged
<1> HIDE DEF k, n, e, s, fresh
<1>9. tat' \in [Key -> Nat \cup {Absent}]
  BY <1>3, <1>4 DEF RlTypeOK
<1>10. first' \in [Key -> Nat \cup {Absent}] /\ last' \in [Key -> Nat] /\ cost' \in [Key -> Nat]
  BY <1>1, <1>7, <1>8, TimesAreNat DEF RlTypeOK
<1>11. RlTypeOK'
  BY <1>9, <1>10 DEF RlTypeOK
<1>12. ReadingsPast'
  BY DEF ReadingsPast
<1>13. Tracked' = left \cup {k}
  BY <1>1, <1>2, <1>3, <1>4 DEF Tracked, Absent
<1>14. TableBounded'
  <2>1. Cardinality(left \cup {k}) =
          IF k \in left THEN Cardinality(left) ELSE Cardinality(left) + 1
    BY <1>2, FS_AddElement
  <2>2. Cardinality(Tracked') <= MaxKeys
    BY <1>2, <1>13, <2>1, MaxKeysPositive
  <2> QED
    BY <2>2 DEF TableBounded
<1>15. TatBounded'
  <2> SUFFICES ASSUME NEW x \in Tracked'
               PROVE  tat'[x] <= clock + Tolerance + Emission
    BY DEF TatBounded
  <2>1. CASE x = k
    BY <1>1, <1>3, <1>4, <2>1, TimesAreNat
  <2>2. CASE x # k
    BY <1>2, <1>4, <1>13, <2>2 DEF TatBounded, Tracked
  <2> QED
    BY <2>1, <2>2
<1>16. WindowCharged' /\ RateConforms'
  <2> SUFFICES ASSUME NEW x \in Key, first'[x] # Absent
               PROVE  /\ x \in Tracked' /\ first'[x] + cost'[x] <= tat'[x]
                      /\ cost'[x] - Emission <= (last'[x] - first'[x]) + Tolerance
    BY DEF WindowCharged, RateConforms
  <2>1. CASE x # k
    <3>1. x \in left /\ first'[x] = first[x] /\ tat'[x] = tat[x]
          /\ cost'[x] = cost[x] /\ last'[x] = last[x]
      BY <1>4, <1>7, <2>1 DEF RlTypeOK
    <3> QED
      BY <1>13, <3>1 DEF WindowCharged, RateConforms
  <2>2. CASE x = k /\ fresh
    <3>1. first'[x] = n /\ tat'[x] = e /\ cost'[x] = Emission /\ last'[x] = n
      BY <1>4, <1>7, <2>2 DEF RlTypeOK
    <3> QED
      BY <1>1, <1>3, <1>13, <2>2, <3>1, TimesAreNat
  <2>3. CASE x = k /\ ~fresh
    <3>1. /\ first'[x] = first[k] /\ tat'[x] = e
          /\ cost'[x] = cost[k] + Emission /\ last'[x] = n
      BY <1>4, <1>7, <2>3 DEF RlTypeOK
    <3> QED
      BY <1>1, <1>3, <1>8, <1>13, <2>3, <3>1, TimesAreNat
  <2> QED
    BY <2>1, <2>2, <2>3
<1> QED
  BY <1>11, <1>12, <1>14, <1>15, <1>16

\* Refusing a request keeps it: nothing is charged.
LEMMA RejectKeeps ==
  ASSUME RlIInv, NEW t \in Thread, asking[t] # None, NEW left \in Pruned(now[t]),
         Reject(left, asking[t], now[t]),
         asking' = [asking EXCEPT ![t] = None], UNCHANGED <<clock, now>>
  PROVE  RlIInv'
<1> USE DEF RlIInv
<1>1. /\ left \subseteq Tracked /\ IsFiniteSet(left)
      /\ Cardinality(left) \in Nat /\ Cardinality(left) < MaxKeys
  BY PruneLeavesRoom DEF RlTypeOK
<1>2. /\ tat' = [x \in Key |-> IF x \in left THEN tat[x] ELSE Absent]
      /\ first' = [x \in Key |-> IF x \in left THEN first[x] ELSE Absent]
      /\ UNCHANGED <<last, cost>>
  BY DEF Reject
<1>3. Tracked' = left
  BY <1>1, <1>2 DEF Tracked
<1>4. RlTypeOK' /\ ReadingsPast'
  BY <1>2 DEF RlTypeOK, ReadingsPast
<1>5. TableBounded'
  BY <1>1, <1>3, MaxKeysPositive DEF TableBounded
<1>6. TatBounded' /\ WindowCharged' /\ RateConforms'
  BY <1>1, <1>2, <1>3 DEF TatBounded, WindowCharged, RateConforms, Tracked
<1> QED
  BY <1>4, <1>5, <1>6

\* The invariant is inductive.
LEMMA RlNextKeeps == RlIInv /\ [RlNext]_rlVars => RlIInv'
<1> SUFFICES ASSUME RlIInv, [RlNext]_rlVars PROVE RlIInv'
  OBVIOUS
<1> USE DEF RlIInv
<1>1. ASSUME NEW t \in Thread, Check(t) PROVE RlIInv'
  BY <1>1, AdmitKeeps, RejectKeeps DEF Check
<1>2. ASSUME NEW t \in Thread, NEW k \in Key, ReadClock(t, k) PROVE RlIInv'
  <2>1. UNCHANGED <<clock, tat, window>> /\ now' = [now EXCEPT ![t] = clock]
        /\ asking' = [asking EXCEPT ![t] = k]
    BY <1>2 DEF ReadClock
  <2>2. RlTypeOK' /\ ReadingsPast'
    BY <2>1 DEF RlTypeOK, ReadingsPast, window
  <2> QED
    BY <2>1, <2>2 DEF TableBounded, TatBounded, WindowCharged, RateConforms, Tracked, window
<1>3. ASSUME Tick PROVE RlIInv'
  <2>1. UNCHANGED <<tat, asking, now, window>> /\ clock' = clock + 1
    BY <1>3 DEF Tick
  <2>2. RlTypeOK' /\ ReadingsPast'
    BY <2>1 DEF RlTypeOK, ReadingsPast, window
  <2>3. TatBounded'
    BY <2>1, TimesAreNat DEF RlTypeOK, TatBounded, Tracked
  <2> QED
    BY <2>1, <2>2, <2>3 DEF TableBounded, WindowCharged, RateConforms, Tracked, window
<1>4. ASSUME UNCHANGED rlVars PROVE RlIInv'
  BY <1>4 DEF rlVars, window, RlTypeOK, ReadingsPast, TableBounded, TatBounded,
              WindowCharged, RateConforms, Tracked
<1> QED
  BY <1>1, <1>2, <1>3, <1>4 DEF RlNext

-----------------------------------------------------------------------------
\* The inductive invariant holds of every behaviour.
THEOREM RateInvariance == RlSpec => []RlIInv
BY RlInitKeeps, RlNextKeeps, PTL DEF RlSpec

\* The limiter keeps its rate: the admissions of a key that keeps its entry
\* conform, also when requests reach the table with stale readings.
THEOREM RateIsKept == RlSpec => []RateConforms
<1>1. RlIInv => RateConforms
  BY DEF RlIInv
<1> QED
  BY <1>1, RateInvariance, PTL

\* The table never outgrows max_keys.
THEOREM TableIsBounded == RlSpec => []TableBounded
<1>1. RlIInv => TableBounded
  BY DEF RlIInv
<1> QED
  BY <1>1, RateInvariance, PTL

\* No key owes more than its tolerance and one request.
THEOREM DebtIsBounded == RlSpec => []TatBounded
<1>1. RlIInv => TatBounded
  BY DEF RlIInv
<1> QED
  BY <1>1, RateInvariance, PTL

\* The table keeps to its memory bound, and its debts to theirs.
THEOREM TableIsKept == RlSpec => []TableKept
BY TableIsBounded, DebtIsBounded, PTL DEF TableKept

-----------------------------------------------------------------------------
(* RedisSessions: fixation and revocation.                                  *)

(* Fixation and revocation of server-side sessions, for any number of       *)
(* requests, users and identifiers.                                         *)
(*                                                                         *)
(* The inductive invariant says what a request in flight may still write,   *)
(* and where: under an identifier that was minted for whoever it carries,   *)
(* which nobody else has arrived with when it is new, and which no          *)
(* withdrawal names unless it raced with the request.                       *)

AllKnown ==
  /\ revoked \subseteq known
  /\ \A r \in Request : arrived[r] \in known \cup {NoId}

\* What a request works on at each of its stages.
AtItsStage ==
  \A r \in Request :
    /\ stage[r] \in {"idle", "loading", "logout"} => sid[r] = NoId
    /\ stage[r] \notin {"deleting", "writing"} => target[r] = NoId
    /\ stage[r] \in {"deleting", "logout"} => arrived[r] # NoId /\ sid[r] = NoId
    /\ stage[r] = "handling" => sid[r] \in {NoId, arrived[r]}

\* A session is never more than its identifier was minted as.
MayCarry(i, u) == i \in minted /\ u \in {NoUser, mintedFor[i]}

Carries ==
  \A r \in Request :
    /\ stage[r] = "handling" /\ sid[r] # NoId => MayCarry(sid[r], who[r])
    /\ stage[r] \in {"deleting", "writing"} =>
         MayCarry(target[r], who[r]) /\ sid[r] \in {NoId, target[r]}

\* Nobody has a new identifier before its cookie went out.
StillToIssue ==
  \A r, q \in Request :
    stage[r] \in {"deleting", "writing"} /\ sid[r] = NoId => arrived[q] # target[r]

NobodyHas ==
  \A i \in revoked \ raced :
    i \notin live /\ \A r \in Request : sid[r] # i /\ target[r] # i

RsIInv == NoElevation /\ AllKnown /\ AtItsStage /\ Carries /\ StillToIssue /\ NobodyHas

-----------------------------------------------------------------------------
(* What a handler may leave of a session, and what becomes of a request.    *)

\* A session that keeps its identifier keeps who it is, or loses it.
LEMMA ChangedKeeps ==
  ASSUME NEW s \in SessionState, NEW t \in Changed(s)
  PROVE  /\ t \in SessionState
         /\ t.sid # NoId => t.sid = s.sid /\ t.who \in {s.who, NoUser}
<1>1. PICK v \in {s, Expire(s)} :
        \/ t \in {v, [v EXCEPT !.data = TRUE], [v EXCEPT !.sid = NoId], Logout}
        \/ \E u \in User : t = Login(v, u)
  BY DEF Changed
<1>2. v \in SessionState /\ v.sid = s.sid /\ v.who \in {s.who, NoUser}
  BY DEF SessionState, Expire
<1>3. CASE t \in {v, [v EXCEPT !.data = TRUE]}
  BY <1>2, <1>3 DEF SessionState
<1>4. CASE t = [v EXCEPT !.sid = NoId]
  <2>1. t = [sid |-> NoId, who |-> v.who, data |-> v.data]
    BY <1>2, <1>4 DEF SessionState
  <2> QED
    BY <1>2, <2>1 DEF SessionState
<1>6. CASE t = Logout
  BY <1>6 DEF SessionState, Logout
<1>5. CASE \E u \in User : t = Login(v, u)
  BY <1>2, <1>5 DEF SessionState, Login
<1> QED
  BY <1>1, <1>3, <1>4, <1>5, <1>6

\* What a request is working on is a session.
LEMMA LoadedIsSession ==
  ASSUME RsTypeOK, NEW r \in Request
  PROVE  /\ Loaded(r) \in SessionState
         /\ Loaded(r).sid = sid[r] /\ Loaded(r).who = who[r]
  BY DEF RsTypeOK, Loaded, SessionState

InFlightOK == RsTypeOK /\ AllKnown /\ AtItsStage /\ Carries /\ StillToIssue

\* A request that is over is at its stage, and holds nothing.
LEMMA FinishKeeps ==
  ASSUME InFlightOK, NEW r \in Request, RsFinish(r), UNCHANGED supply, revoked' \subseteq known,
         raced' \subseteq revoked',
         live' \subseteq Id, uid' \in [Id -> User \cup {NoUser}], kept' \in [Id -> BOOLEAN]
  PROVE  /\ InFlightOK'
         /\ \A q \in Request : sid'[q] \in {sid[q], NoId} /\ target'[q] \in {target[q], NoId}
<1>1. RsTypeOK /\ RsTypeOK'
  BY DEF InFlightOK, RsFinish, To, RsTypeOK, Stages, supply
<1>2. /\ stage'[r] = "idle" /\ arrived'[r] = NoId /\ sid'[r] = NoId /\ target'[r] = NoId
      /\ \A q \in Request \ {r} : /\ stage'[q] = stage[q] /\ arrived'[q] = arrived[q]
                                 /\ sid'[q] = sid[q] /\ target'[q] = target[q] /\ who'[q] = who[q]
  BY <1>1 DEF RsFinish, To, RsTypeOK
<1>3. AllKnown' /\ AtItsStage'
  BY <1>2 DEF InFlightOK, AllKnown, AtItsStage, supply
<1>4. Carries'
  BY <1>2 DEF InFlightOK, Carries, MayCarry, supply
<1>5. StillToIssue'
  <2> SUFFICES ASSUME NEW p \in Request, NEW q \in Request, sid'[p] = NoId,
                      stage'[p] \in {"deleting", "writing"}
               PROVE  arrived'[q] # target'[p]
    BY DEF StillToIssue
  <2>1. p # r /\ target'[p] = target[p] /\ arrived[q] # target[p]
    BY <1>2 DEF InFlightOK, StillToIssue
  <2>2. target[p] # NoId
    BY <1>1, <1>2, <2>1, NotAnId DEF InFlightOK, Carries, MayCarry, RsTypeOK
  <2> QED
    BY <1>2, <2>1, <2>2
<1> QED
  BY <1>1, <1>2, <1>3, <1>4, <1>5 DEF InFlightOK

-----------------------------------------------------------------------------
(* RsIInv is inductive.                                                       *)

\* Every store starts with the invariant.
LEMMA RsInitKeeps == RsInit => RsIInv
BY DEF RsInit, RsIInv, NoElevation, RsTypeOK, Stages, AllKnown, AtItsStage, Carries, StillToIssue,
       NobodyHas

\* A request arrives with an identifier that nobody had to guess.
LEMMA RsArriveKeeps ==
  ASSUME RsIInv, NEW r \in Request, NEW p \in Id \cup {NoId}, RsArrive(r, p)
  PROVE  RsIInv'
<1>1. RsTypeOK /\ RsTypeOK'
  BY DEF RsArrive, To, RsIInv, NoElevation, RsTypeOK, Stages, redis, session, withdrawals
<1>2. /\ UNCHANGED <<live, uid, kept, sid, who, data, target, minted, mintedFor, revoked, raced>>
      /\ stage[r] = "idle" /\ stage'[r] = "loading" /\ arrived'[r] = p
      /\ \A q \in Request \ {r} : stage'[q] = stage[q] /\ arrived'[q] = arrived[q]
      /\ known \subseteq known' /\ p \in known' \cup {NoId}
      /\ \A q \in Request : p # NoId => p # target[q]
  BY <1>1 DEF RsArrive, To, RsTypeOK, redis, session, withdrawals
<1>3. NoElevation' /\ NobodyHas'
  BY <1>1, <1>2 DEF RsIInv, NoElevation, NobodyHas
<1>4. AllKnown' /\ AtItsStage'
  BY <1>1, <1>2 DEF RsIInv, AllKnown, AtItsStage
<1>5. Carries'
  BY <1>2 DEF RsIInv, Carries, MayCarry
<1>6. StillToIssue'
  <2> SUFFICES ASSUME NEW q \in Request, sid[q] = NoId, stage[q] \in {"deleting", "writing"}
               PROVE  p # target[q]
    BY <1>2 DEF RsIInv, StillToIssue
  <2>1. target[q] # NoId
    BY <1>1, NotAnId DEF RsIInv, Carries, MayCarry, RsTypeOK
  <2> QED
    BY <1>2, <2>1
<1> QED
  BY <1>3, <1>4, <1>5, <1>6 DEF RsIInv

\* It has loaded the record it named, or nothing.
LEMMA RsLoadKeeps ==
  ASSUME RsIInv, NEW r \in Request, RsLoad(r)
  PROVE  RsIInv'
<1>1. RsTypeOK /\ RsTypeOK'
  BY DEF RsLoad, To, RsIInv, NoElevation, RsTypeOK, Stages, redis, session, supply, withdrawals
<1>2. /\ UNCHANGED <<live, uid, kept, arrived, target, known, minted, mintedFor, revoked, raced>>
      /\ stage[r] = "loading" /\ stage'[r] = "handling"
      /\ \A q \in Request \ {r} : stage'[q] = stage[q] /\ sid'[q] = sid[q] /\ who'[q] = who[q]
      /\ \/ sid'[r] = sid[r] /\ sid[r] = NoId
         \/ arrived[r] \in live /\ sid'[r] = arrived[r] /\ who'[r] = uid[arrived[r]]
  BY <1>1 DEF RsLoad, To, RsTypeOK, redis, session, supply, withdrawals, RsIInv, AtItsStage
<1>3. NoElevation' /\ AllKnown'
  BY <1>1, <1>2 DEF RsIInv, NoElevation, AllKnown
<1>4. AtItsStage'
  BY <1>2 DEF RsIInv, AtItsStage
<1>5. Carries'
  BY <1>1, <1>2 DEF RsIInv, NoElevation, Carries, MayCarry, RsTypeOK
<1>6. StillToIssue'
  BY <1>2 DEF RsIInv, StillToIssue
<1>7. NobodyHas'
  BY <1>1, <1>2, NotAnId DEF RsIInv, NobodyHas, RsTypeOK
<1> QED
  BY <1>3, <1>4, <1>5, <1>6, <1>7 DEF RsIInv

\* A handler leaves its session alone, or hands one to the store.
LEMMA RsHandleKeeps ==
  ASSUME RsIInv, NEW r \in Request, RsHandle(r)
  PROVE  RsIInv'
<1>1. RsTypeOK /\ InFlightOK /\ stage[r] = "handling"
      /\ UNCHANGED <<live, uid, kept, revoked, raced>>
  BY DEF RsHandle, RsIInv, NoElevation, InFlightOK, redis, withdrawals
<1>2. CASE RsFinish(r) /\ UNCHANGED supply
  <2>1. /\ InFlightOK'
        /\ \A q \in Request : sid'[q] \in {sid[q], NoId} /\ target'[q] \in {target[q], NoId}
    BY <1>1, <1>2, FinishKeeps DEF InFlightOK, AllKnown, RsTypeOK
  <2>2. NoElevation'
    BY <1>1, <1>2, <2>1 DEF RsIInv, NoElevation, InFlightOK, supply
  <2>3. NobodyHas'
    BY <1>1, <2>1, NotAnId DEF RsIInv, NobodyHas, RsTypeOK
  <2> QED
    BY <2>1, <2>2, <2>3 DEF RsIInv, InFlightOK
<1>3. ASSUME NEW s \in Changed(Loaded(r)), Store(r, s) PROVE RsIInv'
  <2>1. /\ s \in SessionState
        /\ s.sid # NoId => s.sid = sid[r] /\ s.who \in {who[r], NoUser}
    BY <1>1, ChangedKeeps, LoadedIsSession
  <2>2. /\ s.sid \in Id \cup {NoId} /\ s.who \in User \cup {NoUser} /\ s.data \in BOOLEAN
    BY <2>1 DEF SessionState
  <2>3. CASE Empty(s)
    <3>1. /\ arrived[r] # NoId /\ To(r, "logout") /\ Begin(r, s)
          /\ UNCHANGED <<target, supply, arrived>> /\ s.sid = NoId
      BY <1>3, <2>3 DEF Store, Empty
    <3>2. RsTypeOK'
      BY <1>1, <2>2, <3>1 DEF RsTypeOK, Stages, To, Begin, supply
    <3>3. /\ stage'[r] = "logout" /\ sid'[r] = NoId /\ UNCHANGED <<known, minted, mintedFor>>
          /\ \A q \in Request \ {r} : stage'[q] = stage[q] /\ sid'[q] = sid[q] /\ who'[q] = who[q]
      BY <1>1, <3>1 DEF To, Begin, RsTypeOK, supply
    <3>4. NoElevation' /\ AllKnown' /\ AtItsStage'
      BY <1>1, <3>1, <3>2, <3>3 DEF RsIInv, NoElevation, AllKnown, AtItsStage
    <3>5. Carries' /\ StillToIssue'
      BY <3>1, <3>3 DEF RsIInv, Carries, MayCarry, StillToIssue
    <3>6. NobodyHas'
      BY <1>1, <3>1, <3>3, NotAnId DEF RsIInv, NobodyHas, RsTypeOK
    <3> QED
      BY <3>4, <3>5, <3>6 DEF RsIInv
  <2>4. CASE ~Empty(s)
    <3>1. PICK i \in RsTarget(r, s) :
            /\ Mint(i, s) /\ target' = [target EXCEPT ![r] = i]
            /\ To(r, IF arrived[r] \notin {NoId, i} THEN "deleting" ELSE "writing")
            /\ Begin(r, s) /\ UNCHANGED arrived
      BY <1>3, <2>4 DEF Store
    <3>2. /\ i \in Id /\ i # NoId
          /\ IF s.sid # NoId
             THEN i = sid[r] /\ i = arrived[r] /\ i \in known /\ MayCarry(i, s.who)
             ELSE i \notin known
      BY <1>1, <2>1, <2>2, <3>1, NotAnId
      DEF RsTarget, Fresh, RsIInv, Carries, AtItsStage, MayCarry, RsTypeOK
    <3>3. /\ known \subseteq known' /\ minted \subseteq minted' /\ minted' \subseteq known'
          /\ known' \subseteq Id /\ mintedFor' \in [Id -> User \cup {NoUser}]
          /\ \A k \in known : mintedFor'[k] = mintedFor[k]
          /\ i \in minted' /\ s.who \in {NoUser, mintedFor'[i]}
      BY <1>1, <2>2, <3>1, <3>2 DEF Mint, MayCarry, RsTypeOK, supply
    <3>4. RsTypeOK'
      BY <1>1, <2>2, <3>1, <3>2, <3>3 DEF RsTypeOK, Stages, To, Begin
    <3>5. /\ stage'[r] = IF arrived[r] \notin {NoId, i} THEN "deleting" ELSE "writing"
          /\ sid'[r] = s.sid /\ who'[r] = s.who /\ target'[r] = i /\ UNCHANGED arrived
          /\ \A q \in Request \ {r} : /\ stage'[q] = stage[q] /\ sid'[q] = sid[q]
                                     /\ who'[q] = who[q] /\ target'[q] = target[q]
      BY <1>1, <3>1 DEF To, Begin, RsTypeOK
    <3>6. NoElevation'
      BY <1>1, <3>3, <3>4 DEF RsIInv, NoElevation, RsTypeOK
    <3>7. AllKnown'
      BY <1>1, <3>3, <3>5 DEF RsIInv, AllKnown
    <3>8. AtItsStage'
      BY <3>2, <3>5 DEF RsIInv, AtItsStage
    <3>9. Carries'
      BY <1>1, <2>1, <3>2, <3>3, <3>5 DEF RsIInv, Carries, MayCarry, RsTypeOK
    <3>10. StillToIssue'
      <4>1. ASSUME s.sid = NoId, NEW q \in Request PROVE arrived[q] # i
        BY <3>2, <4>1 DEF RsIInv, AllKnown
      <4> QED
        BY <3>5, <4>1 DEF RsIInv, StillToIssue
    <3>11. NobodyHas'
      BY <1>1, <2>1, <3>2, <3>5, NotAnId DEF RsIInv, NobodyHas, AllKnown, RsTypeOK
    <3> QED
      BY <3>6, <3>7, <3>8, <3>9, <3>10, <3>11 DEF RsIInv
  <2> QED
    BY <2>3, <2>4
<1> QED
  BY <1>2, <1>3 DEF RsHandle

\* What a command may do to Redis: records go, or one that the request may carry
\* is written.
Records == live \subseteq minted /\ \A i \in live : uid[i] \in {NoUser, mintedFor[i]}

\* A record that goes takes no other with it.
LEMMA DropKeeps ==
  ASSUME RsTypeOK, Records, UNCHANGED supply, NEW i \in Id, RsDrop(i) \/ UNCHANGED redis
  PROVE  /\ Records' /\ live' \subseteq live
         /\ live' \subseteq Id /\ uid' \in [Id -> User \cup {NoUser}] /\ kept' \in [Id -> BOOLEAN]
BY DEF RsTypeOK, Records, RsDrop, supply, redis

\* The request goes on as before, on its second attempt or with its write.
LEMMA GoesOn ==
  ASSUME InFlightOK, NEW r \in Request, UNCHANGED <<arrived, session, target, supply>>,
         NEW s \in Stages, stage[r] \in {"deleting", "writing", "logout"},
         s = stage[r] \/ (stage[r] = "deleting" /\ s = "writing"),
         stage' = [stage EXCEPT ![r] = s], retried' \in [Request -> BOOLEAN],
         revoked' \subseteq known, raced' \subseteq revoked',
         live' \subseteq Id, uid' \in [Id -> User \cup {NoUser}], kept' \in [Id -> BOOLEAN]
  PROVE  InFlightOK'
<1>1. UNCHANGED <<arrived, sid, who, data, target, known, minted, mintedFor>>
  BY DEF session, supply
<1>2. RsTypeOK /\ RsTypeOK'
  BY <1>1 DEF InFlightOK, RsTypeOK
<1>3. stage'[r] = s /\ \A q \in Request \ {r} : stage'[q] = stage[q]
  BY <1>2 DEF RsTypeOK
<1>4. AllKnown'
  BY <1>1 DEF InFlightOK, AllKnown
<1>5. AtItsStage'
  BY <1>1, <1>3 DEF InFlightOK, AtItsStage
<1>6. Carries'
  BY <1>1, <1>3 DEF InFlightOK, Carries, MayCarry
<1>7. StillToIssue'
  BY <1>1, <1>3 DEF InFlightOK, StillToIssue
<1> QED
  BY <1>2, <1>4, <1>5, <1>6, <1>7 DEF InFlightOK

\* A DEL, answered or not.
LEMMA RsDeleteKeeps ==
  ASSUME RsIInv, NEW r \in Request, Delete(r)
  PROVE  RsIInv'
<1>1. /\ RsTypeOK /\ InFlightOK /\ Records /\ UNCHANGED supply
      /\ stage[r] \in {"deleting", "logout"} /\ arrived[r] \in Id /\ arrived[r] # NoId
      /\ arrived[r] \in known
  BY DEF Delete, RsIInv, NoElevation, InFlightOK, Records, AtItsStage, AllKnown, RsTypeOK
<1>2. /\ Records' /\ live' \subseteq live
      /\ live' \subseteq Id /\ uid' \in [Id -> User \cup {NoUser}] /\ kept' \in [Id -> BOOLEAN]
  BY <1>1, DropKeeps DEF Delete, Acknowledged, Deleted
<1>3. CASE Acknowledged(r)
  <2>1. /\ live' = live \ {arrived[r]} /\ Withdraw(r)
        /\ revoked' \subseteq known /\ raced' \subseteq revoked'
    BY <1>1, <1>3 DEF Acknowledged, Deleted, RsDrop, Withdraw, RsTypeOK, InFlightOK, AllKnown
  <2>2. /\ InFlightOK'
        /\ \A q \in Request : sid'[q] \in {sid[q], NoId} /\ target'[q] \in {target[q], NoId}
    <3>1. CASE RsFinish(r)
      BY <1>1, <1>2, <2>1, <3>1, FinishKeeps
    <3>2. CASE stage[r] = "deleting" /\ To(r, "writing") /\ UNCHANGED <<arrived, session, target>>
      <4>1. InFlightOK'
        BY <1>1, <1>2, <2>1, <3>2, GoesOn DEF To, RsTypeOK, Stages
      <4> QED
        BY <3>2, <4>1 DEF session
    <3> QED
      BY <1>1, <1>3, <3>1, <3>2 DEF Acknowledged
  <2>3. NobodyHas'
    <3> SUFFICES ASSUME NEW i \in revoked' \ raced'
                 PROVE  i \notin live' /\ \A q \in Request : sid'[q] # i /\ target'[q] # i
      BY DEF NobodyHas
    <3>1. i # NoId
      BY <1>1, <2>1, NotAnId DEF RsTypeOK
    <3>2. CASE i \in revoked \ raced
      BY <1>2, <2>2, <3>1, <3>2 DEF RsIInv, NobodyHas
    <3>3. CASE i \notin revoked \ raced
      <4>1. i = arrived[r] /\ ~Elsewhere(r)
        BY <2>1, <3>3 DEF Withdraw
      <4>2. \A q \in Request : sid[q] # i
        BY <1>1, <4>1 DEF Elsewhere, RsIInv, AtItsStage
      <4>3. ASSUME NEW q \in Request, target[q] = i PROVE FALSE
        <5>1. stage[q] \in {"deleting", "writing"}
          BY <3>1, <4>3 DEF RsIInv, AtItsStage
        <5>2. sid[q] = NoId
          BY <4>2, <4>3, <5>1 DEF RsIInv, Carries
        <5> QED
          BY <4>1, <4>3, <5>1, <5>2 DEF RsIInv, StillToIssue
      <4> QED
        BY <2>1, <2>2, <3>1, <4>1, <4>2, <4>3
    <3> QED
      BY <3>2, <3>3
  <2> QED
    BY <1>2, <2>2, <2>3 DEF RsIInv, NoElevation, InFlightOK, Records
<1>4. CASE ~Acknowledged(r)
  <2>1. /\ UNCHANGED withdrawals
        /\ Retry(r) \/ RsFinish(r)
    BY <1>4 DEF Delete, Retry
  <2>2. revoked' \subseteq known /\ raced' \subseteq revoked'
    BY <1>1, <2>1 DEF withdrawals, RsTypeOK, InFlightOK, AllKnown
  <2>3. /\ InFlightOK'
        /\ \A q \in Request : sid'[q] \in {sid[q], NoId} /\ target'[q] \in {target[q], NoId}
    <3>1. CASE RsFinish(r)
      BY <1>1, <1>2, <2>2, <3>1, FinishKeeps
    <3>2. CASE Retry(r)
      <4>1. /\ UNCHANGED <<arrived, session, target, stage>> /\ stage[r] \in Stages
            /\ stage' = [stage EXCEPT ![r] = stage[r]] /\ retried' \in [Request -> BOOLEAN]
        BY <1>1, <3>2 DEF Retry, RsTypeOK
      <4>2. InFlightOK'
        BY <1>1, <1>2, <2>2, <4>1, GoesOn
      <4> QED
        BY <4>1, <4>2 DEF session
    <3> QED
      BY <2>1, <3>1, <3>2
  <2>4. NobodyHas'
    BY <1>1, <1>2, <2>1, <2>3, NotAnId DEF RsIInv, NobodyHas, RsTypeOK, withdrawals
  <2> QED
    BY <1>2, <2>3, <2>4 DEF RsIInv, NoElevation, InFlightOK, Records
<1> QED
  BY <1>3, <1>4

\* A SET, answered or not.
LEMMA RsWriteKeeps ==
  ASSUME RsIInv, NEW r \in Request, Write(r)
  PROVE  RsIInv'
<1>1. /\ RsTypeOK /\ InFlightOK /\ Records /\ UNCHANGED supply /\ UNCHANGED withdrawals
      /\ stage[r] = "writing" /\ MayCarry(target[r], who[r]) /\ target[r] \in Id
  BY DEF Write, Retry, RsIInv, NoElevation, InFlightOK, Records, Carries, MayCarry, RsTypeOK
<1>2. /\ Records' /\ live' \subseteq live \cup {target[r]}
      /\ live' \subseteq Id /\ uid' \in [Id -> User \cup {NoUser}] /\ kept' \in [Id -> BOOLEAN]
  <2>1. CASE Written(r)
    BY <1>1, <2>1 DEF Written, Records, MayCarry, RsTypeOK, supply
  <2>2. CASE UNCHANGED redis
    BY <1>1, <2>2, DropKeeps
  <2> QED
    BY <2>1, <2>2 DEF Write
<1>3. Retry(r) \/ RsFinish(r)
  BY DEF Write
<1>4. revoked' \subseteq known /\ raced' \subseteq revoked'
  BY <1>1 DEF withdrawals, RsTypeOK, InFlightOK, AllKnown
<1>5. /\ InFlightOK'
      /\ \A q \in Request : sid'[q] \in {sid[q], NoId} /\ target'[q] \in {target[q], NoId}
  <2>1. CASE RsFinish(r)
    BY <1>1, <1>2, <1>4, <2>1, FinishKeeps
  <2>2. CASE Retry(r)
    <3>1. /\ UNCHANGED <<arrived, session, target, stage>> /\ stage[r] \in Stages
          /\ stage' = [stage EXCEPT ![r] = stage[r]] /\ retried' \in [Request -> BOOLEAN]
      BY <1>1, <2>2 DEF Retry, RsTypeOK
    <3>2. InFlightOK'
      BY <1>1, <1>2, <1>4, <3>1, GoesOn
    <3> QED
      BY <3>1, <3>2 DEF session
  <2> QED
    BY <1>3, <2>1, <2>2
<1>6. NobodyHas'
  <2>1. target[r] \notin revoked \ raced
    BY DEF RsIInv, NobodyHas
  <2> QED
    BY <1>1, <1>2, <1>5, <2>1, NotAnId DEF RsIInv, NobodyHas, RsTypeOK, withdrawals
<1> QED
  BY <1>2, <1>5, <1>6 DEF RsIInv, NoElevation, InFlightOK, Records

\* Every step of a request, or of the clock, keeps the invariant.
LEMMA RsNextKeeps == RsIInv /\ [RsNext]_rsVars => RsIInv'
<1> SUFFICES ASSUME RsIInv, [RsNext]_rsVars PROVE RsIInv'
  OBVIOUS
<1>1. RsTypeOK /\ InFlightOK /\ Records
  BY DEF RsIInv, NoElevation, InFlightOK, Records
<1>2. ASSUME NEW r \in Request, Cancel(r) PROVE RsIInv'
  <2>1. UNCHANGED <<redis, supply, withdrawals>> /\ RsFinish(r)
    BY <1>2 DEF Cancel
  <2>2. /\ InFlightOK'
        /\ \A q \in Request : sid'[q] \in {sid[q], NoId} /\ target'[q] \in {target[q], NoId}
    BY <1>1, <2>1, FinishKeeps DEF redis, withdrawals, RsTypeOK, InFlightOK, AllKnown
  <2>3. Records' /\ NobodyHas'
    BY <1>1, <2>1, <2>2, NotAnId
    DEF RsIInv, NobodyHas, RsTypeOK, Records, redis, supply, withdrawals
  <2> QED
    BY <2>2, <2>3 DEF RsIInv, NoElevation, InFlightOK, Records
<1>3. ASSUME NEW i \in Id, Expiry(i) PROVE RsIInv'
  <2>1. /\ RsDrop(i)
        /\ UNCHANGED <<stage, arrived, sid, who, data, target, retried, known, minted, mintedFor,
                       revoked, raced>>
    BY <1>3 DEF Expiry, session, supply, withdrawals
  <2>2. /\ Records' /\ live' \subseteq live
        /\ live' \subseteq Id /\ uid' \in [Id -> User \cup {NoUser}] /\ kept' \in [Id -> BOOLEAN]
    BY <1>1, <2>1, DropKeeps DEF supply
  <2>3. RsTypeOK' /\ AllKnown' /\ AtItsStage' /\ Carries' /\ StillToIssue'
    BY <1>1, <2>1, <2>2
    DEF InFlightOK, RsTypeOK, AllKnown, AtItsStage, Carries, MayCarry, StillToIssue
  <2>4. NobodyHas'
    BY <2>1, <2>2 DEF RsIInv, NobodyHas
  <2> QED
    BY <2>2, <2>3, <2>4 DEF RsIInv, NoElevation, Records
<1>4. CASE UNCHANGED rsVars
  <2>1. UNCHANGED <<live, uid, kept, stage, arrived, sid, who, data, target, retried, known,
                    minted, mintedFor, revoked, raced>>
    BY <1>4 DEF rsVars, redis, session, supply, withdrawals
  <2> QED
    BY <2>1 DEF RsIInv, NoElevation, RsTypeOK, AllKnown, AtItsStage, Carries, MayCarry,
                StillToIssue, NobodyHas
<1> QED
  BY <1>2, <1>3, <1>4, RsArriveKeeps, RsLoadKeeps, RsHandleKeeps, RsDeleteKeeps, RsWriteKeeps
  DEF RsNext

\* The invariant that the other theorems rest on always holds.
THEOREM SessionInvariance == RsSpec => []RsIInv
<1> QED
  BY RsInitKeeps, RsNextKeeps, PTL DEF RsSpec

-----------------------------------------------------------------------------
(* What it says.                                                            *)

\* For any number of requests at once, no identifier ever carries more than the
\* login it was minted for, and none that the store did not mint carries anything.
THEOREM NothingIsElevated == RsSpec => []NoElevation
<1>1. RsIInv => NoElevation
  BY DEF RsIInv
<1> QED
  BY <1>1, SessionInvariance, PTL

\* A withdrawal that Redis acknowledged stays one unless another request had the
\* session loaded, whatever was retried, lost or cancelled around it.
THEOREM WithdrawalsStick == RsSpec => []WithdrawnAlone
<1>1. RsIInv => WithdrawnAlone
  BY DEF RsIInv, NobodyHas, WithdrawnAlone
<1> QED
  BY <1>1, SessionInvariance, PTL

-----------------------------------------------------------------------------
(* ApiDocument: the document and the routes.                                *)

ApSpec == ApiInit /\ [][ApiNext]_api

Inventory == ApiRoutes \cup {OwnRoute}

\* What is listed is what was known, whatever the order of registering and listing; the
\* document is not offered before it is mounted.
ApIInv ==
  /\ DOMAIN api = {"phase", "routes", "listed", "described", "drift", "offered", "known"}
  /\ api.routes \in Seq(Inventory) /\ api.listed \in Seq(Inventory)
  /\ ToSet(api.listed) = api.known
  /\ \A r \in api.known : Own(r) /\ r \in ToSet(api.routes)
  /\ api.phase = "unbuilt" => api.offered = {}
  /\ DocumentHonest

\* An application with no routes and no document satisfies the invariant.
LEMMA ApStarts == ApiInit => ApIInv
<1>1. ToSet(<<>>) = {}
  BY DEF ToSet
<1> QED
  BY <1>1 DEF ApiInit, ApiRest, ApIInv, DocumentHonest, Inventory

\* What is in two sequences is in the one after the other.
LEMMA ApJoined ==
  ASSUME NEW S, NEW p \in Seq(S), NEW q \in Seq(S)
  PROVE  ToSet(p \o q) = ToSet(p) \cup ToSet(q)
<1>1. /\ Len(p \o q) = Len(p) + Len(q) /\ Len(p) \in Nat /\ Len(q) \in Nat
      /\ \A k \in 1..Len(p) : (p \o q)[k] = p[k]
      /\ \A k \in 1..Len(q) : (p \o q)[Len(p) + k] = q[k]
  OBVIOUS
<1>2. ASSUME NEW k \in 1..Len(p \o q) PROVE (p \o q)[k] \in ToSet(p) \cup ToSet(q)
  <2>1. CASE k <= Len(p)
    BY <1>1, <2>1 DEF ToSet
  <2>2. CASE ~(k <= Len(p))
    <3>1. k - Len(p) \in 1..Len(q) /\ k = Len(p) + (k - Len(p))
      BY <1>1, <2>2
    <3>2. (p \o q)[k] = q[k - Len(p)]
      BY <1>1, <3>1
    <3> QED
      BY <3>1, <3>2 DEF ToSet
  <2> QED
    BY <2>1, <2>2
<1>3. ASSUME NEW k \in 1..Len(p) PROVE p[k] \in ToSet(p \o q)
  BY <1>1 DEF ToSet
<1>4. ASSUME NEW k \in 1..Len(q) PROVE q[k] \in ToSet(p \o q)
  <2>1. Len(p) + k \in 1..Len(p \o q) /\ (p \o q)[Len(p) + k] = q[k]
    BY <1>1
  <2> DEFINE both == p \o q
  <2>2. both \in Seq(S)
    OBVIOUS
  <2> HIDE DEF both
  <2> QED
    BY <2>1, <2>2 DEF ToSet, both
<1>5. /\ \A x : x \in ToSet(p) <=> \E k \in 1..Len(p) : p[k] = x
      /\ \A x : x \in ToSet(q) <=> \E k \in 1..Len(q) : q[k] = x
  BY DEF ToSet
<1>6. \A x : x \in ToSet(p \o q) <=> \E k \in 1..Len(p \o q) : (p \o q)[k] = x
  <2> DEFINE both == p \o q
  <2>1. both \in Seq(S)
    OBVIOUS
  <2> HIDE DEF both
  <2>2. \A x : x \in ToSet(both) <=> \E k \in 1..Len(both) : both[k] = x
    BY <2>1 DEF ToSet
  <2> QED
    BY <2>2 DEF both
<1> QED
  BY <1>2, <1>3, <1>4, <1>5, <1>6

\* from_routes lists the application's own routes, and all of them.
LEMMA ApListing ==
  ASSUME ApIInv, FromRoutes
  PROVE  ApIInv'
<1> DEFINE N == NewRoutes
           Pushed(n) == CHOOSE k \in N : Cardinality({j \in N : j <= k}) = n
           more == [n \in 1..Cardinality(N) |-> api.routes[Pushed(n)]]
           S == Inventory
           routes == api.routes
           listed == api.listed
           seen == {r \in ToSet(routes) : Own(r)}
<1>1. /\ routes \in Seq(S) /\ listed \in Seq(S) /\ Len(routes) \in Nat
      /\ DOMAIN routes = 1..Len(routes)
      /\ \A k \in 1..Len(routes) : routes[k] \in S
  BY DEF ApIInv
<1>2. /\ N \subseteq 1..Len(routes)
      /\ \A k \in N : Own(routes[k])
  BY <1>1 DEF NewRoutes
<1>2a. \A k \in 1..Len(routes) :
         Own(routes[k]) /\ routes[k] \notin ToSet(listed)
           /\ (\A j \in 1..(k - 1) : routes[j] # routes[k]) => k \in N
  BY <1>1 DEF NewRoutes
<1>3. IsFiniteSet(N) /\ Cardinality(N) \in Nat
  <2>1. IsFiniteSet(1..Len(routes))
    BY <1>1, FS_Interval
  <2> QED
    BY <1>2, <2>1, FS_Subset, FS_CardinalityType
<1> HIDE DEF N
<1>4. \A n \in 1..Cardinality(N) : Pushed(n) \in N
  <2> TAKE n \in 1..Cardinality(N)
  <2>1. \E k \in N : Cardinality({j \in N : j <= k}) = n
    BY <1>1, <1>2, IthElement
  <2> QED
    BY <2>1
\* Every new route is pushed.
<1>5. \A k \in N : \E n \in 1..Cardinality(N) : Pushed(n) = k
  <2> TAKE k \in N
  <2> DEFINE Upto(m) == {j \in N : j <= m}
             n == Cardinality(Upto(k))
  <2>1. Upto(k) \subseteq N /\ k \in Upto(k)
    BY <1>1, <1>2
  <2>2. n \in 1..Cardinality(N)
    <3> HIDE DEF Upto
    <3>1. IsFiniteSet(Upto(k)) /\ n <= Cardinality(N)
      BY <1>3, <2>1, FS_Subset
    <3>2. n \in Nat /\ (n = 0 => Upto(k) = {})
      BY <3>1, FS_CardinalityType, FS_EmptySet
    <3> HIDE DEF n
    <3> QED
      BY <1>3, <2>1, <3>1, <3>2
  <2>3. \A a, b \in N : Cardinality(Upto(a)) = Cardinality(Upto(b)) => a = b
    BY <1>1, <1>2, RankIsOwn
  <2>4. Pushed(n) \in N /\ Cardinality(Upto(Pushed(n))) = n
    BY DEF Pushed
  <2>5. Pushed(n) = k
    <3> HIDE DEF Upto, Pushed
    <3> QED
      BY <2>3, <2>4
  <2> HIDE DEF n, Pushed
  <2> QED
    BY <2>2, <2>5
<1>6. /\ more \in Seq(S) /\ Len(more) = Cardinality(N)
      /\ \A n \in 1..Len(more) : more[n] = routes[Pushed(n)] /\ Pushed(n) \in N
  <2> HIDE DEF Pushed
  <2>1. \A n \in 1..Cardinality(N) : routes[Pushed(n)] \in S
    BY <1>1, <1>2, <1>4
  <2> QED
    BY <1>3, <1>4, <2>1
<1>7. api' = [api EXCEPT !.known = seen, !.listed = @ \o more] /\ api.phase = "unbuilt"
  BY DEF FromRoutes, N
<1> HIDE DEF more, routes, listed, S, Pushed
<1>8. /\ ToSet(listed) \subseteq ToSet(routes) /\ \A r \in ToSet(listed) : Own(r)
  BY DEF ApIInv, routes, listed
<1>9. ToSet(more) \subseteq seen
  <2>1. \A n \in 1..Len(more) : more[n] \in seen
    BY <1>1, <1>2, <1>6 DEF ToSet
  <2> QED
    BY <1>6, <2>1 DEF ToSet
<1>10. seen \subseteq ToSet(listed) \cup ToSet(more)
  <2> SUFFICES ASSUME NEW r \in seen, r \notin ToSet(listed) PROVE r \in ToSet(more)
    OBVIOUS
  <2> DEFINE Positions == {k \in 1..Len(routes) : routes[k] = r}
  <2>1. Positions # {} /\ Positions \subseteq Nat
    BY <1>1 DEF ToSet
  <2>2. PICK k \in Positions : \A j \in Positions : k <= j
    <3> HIDE DEF Positions
    <3> QED
      BY <2>1, LeastElement
  <2>3. k \in 1..Len(routes) /\ routes[k] = r /\ \A j \in 1..(k - 1) : routes[j] # routes[k]
    BY <1>1, <2>2
  <2>4. k \in N
    BY <1>2a, <2>3
  <2>5. PICK n \in 1..Cardinality(N) : Pushed(n) = k
    BY <1>5, <2>4
  <2>6. n \in 1..Len(more) /\ more[n] = r
    BY <1>6, <2>3, <2>5
  <2> QED
    BY <1>6, <2>6 DEF ToSet
<1>11. ToSet(listed \o more) = seen
  <2>1. ToSet(listed \o more) = ToSet(listed) \cup ToSet(more)
    BY <1>1, <1>6, ApJoined
  <2> QED
    BY <1>8, <1>9, <1>10, <2>1
<1> HIDE DEF seen
<1>12. /\ DOMAIN api' = DOMAIN api
       /\ api'.phase = api.phase /\ api'.routes = api.routes /\ api'.offered = api.offered
       /\ api'.listed = listed \o more /\ api'.known = seen
  BY <1>7 DEF ApIInv, listed
<1>13. listed \o more \in Seq(S)
  BY <1>1, <1>6
<1>14. \A r \in seen : Own(r) /\ r \in ToSet(api'.routes)
  BY <1>12 DEF seen, routes
<1> QED
  BY <1>1, <1>7, <1>11, <1>12, <1>13, <1>14 DEF ApIInv, DocumentHonest, S, routes, listed

\* to_value and mount: one operation per path and method, and the drift is of this list.
LEMMA ApMounting ==
  ASSUME ApIInv, MountDocument
  PROVE  ApIInv'
<1> DEFINE listed == api.listed
           inventory == api.known
           item(k) == [path |-> listed[k].template, method |-> listed[k].method,
                       route |-> listed[k], described |-> listed[k] \in api.described]
           KeyOf(k) == <<listed[k].template, listed[k].method>>
<1>1. /\ DOMAIN api' = DOMAIN api
      /\ api'.phase = "mounted" /\ api'.offered = ToValue
      /\ api'.drift = Undescribed \cup Drifted
      /\ api'.routes = Append(api.routes, OwnRoute)
      /\ api'.listed = listed /\ api'.described = api.described /\ api'.known = inventory
      /\ api.phase = "unbuilt"
  BY DEF MountDocument, ApIInv
<1>2. listed \in Seq(Inventory) /\ DOMAIN listed = 1..Len(listed) /\ Len(listed) \in Nat
  BY DEF ApIInv
<1>3. /\ api'.routes \in Seq(Inventory)
      /\ \A r \in inventory : Own(r) /\ r \in ToSet(api'.routes)
  <2>1. api.routes \in Seq(Inventory) /\ OwnRoute \in Inventory
    BY DEF ApIInv, Inventory
  <2>2. ToSet(api.routes) \subseteq ToSet(Append(api.routes, OwnRoute))
    BY <2>1 DEF ToSet
  <2>3. Append(api.routes, OwnRoute) \in Seq(Inventory)
    BY <2>1
  <2> QED
    BY <1>1, <2>2, <2>3 DEF ApIInv
<1>3a. ToSet(listed) = inventory
  BY DEF ApIInv
<1>4. \A o : o \in ToValue <=>
        \E k \in DOMAIN listed : /\ o = item(k)
                                 /\ \A l \in DOMAIN listed : l > k => KeyOf(l) # KeyOf(k)
  BY DEF ToValue
<1>5. ASSUME NEW o \in ToValue, NEW p \in ToValue, o.path = p.path, o.method = p.method
      PROVE  o = p
  <2>1. PICK k \in DOMAIN listed : /\ o = item(k)
                                   /\ \A l \in DOMAIN listed : l > k => KeyOf(l) # KeyOf(k)
    BY <1>4
  <2>2. PICK m \in DOMAIN listed : /\ p = item(m)
                                   /\ \A l \in DOMAIN listed : l > m => KeyOf(l) # KeyOf(m)
    BY <1>4
  <2>3. KeyOf(k) = KeyOf(m)
    BY <1>5, <2>1, <2>2
  <2> HIDE DEF KeyOf, item
  <2>4. k = m
    BY <1>2, <2>1, <2>2, <2>3
  <2> QED
    BY <2>1, <2>2, <2>4
<1>6. ASSUME NEW o \in ToValue
      PROVE  /\ o.route \in inventory /\ o.path = o.route.template /\ o.method = o.route.method
             /\ o.described <=> o.route \in api.described
  <2>1. PICK k \in DOMAIN listed : o = item(k)
    BY <1>4
  <2>2. listed[k] \in inventory
    BY <1>3a DEF ToSet
  <2> QED
    BY <2>1, <2>2
\* Of the routes written alike, the last one is offered.
<1>7. ASSUME NEW r \in inventory
      PROVE  \E o \in ToValue : o.path = r.template /\ o.method = r.method
  <2> DEFINE K == {k \in DOMAIN listed : KeyOf(k) = <<r.template, r.method>>}
  <2>1. K \subseteq 1..Len(listed) /\ K # {}
    BY <1>2, <1>3a DEF ToSet
  <2> DEFINE f == [k \in 1..Len(listed) |-> k]
  <2>2. f \in [1..Len(listed) -> Nat]
    OBVIOUS
  <2>3. PICK k \in K : \A l \in K : f[l] <= f[k]
    <3> HIDE DEF K, f
    <3> QED
      BY <1>2, <2>1, <2>2, GreatestElement
  <2>4. \A l \in DOMAIN listed : l > k => KeyOf(l) # KeyOf(k)
    <3>1. k \in 1..Len(listed) /\ KeyOf(k) = <<r.template, r.method>>
      BY <1>2, <2>3
    <3> HIDE DEF KeyOf
    <3>2. \A l \in 1..Len(listed) : KeyOf(l) = KeyOf(k) => l \in K
      BY <1>2, <3>1
    <3> HIDE DEF K
    <3>3. \A l \in K : l \in 1..Len(listed) => l <= k
      BY <2>3, <3>1
    <3> QED
      BY <1>2, <3>1, <3>2, <3>3
  <2>5. item(k) \in ToValue
    <3> HIDE DEF item
    <3> QED
      BY <1>4, <2>4
  <2>6. item(k).path = r.template /\ item(k).method = r.method
    OBVIOUS
  <2> HIDE DEF item
  <2> QED
    BY <2>5, <2>6
<1>8. Undescribed \cup Drifted = (inventory \ api.described) \cup (api.described \ inventory)
  BY <1>3a DEF Undescribed, Drifted
<1>9. DocumentHonest'
  <2> DEFINE drift == (inventory \ api.described) \cup (api.described \ inventory)
  <2>1. \A o, p \in api'.offered : o.path = p.path /\ o.method = p.method => o = p
    BY <1>1, <1>5
  <2>2. \A o \in api'.offered : o.route \in ToSet(api'.routes)
    BY <1>1, <1>3, <1>6
  <2>3. {<<o.path, o.method>> : o \in api'.offered} = {<<r.template, r.method>> : r \in api'.known}
    <3>1. \A o \in api'.offered : \E r \in inventory : <<o.path, o.method>> = <<r.template, r.method>>
      BY <1>1, <1>6
    <3>2. \A r \in inventory : \E o \in api'.offered : <<o.path, o.method>> = <<r.template, r.method>>
      BY <1>1, <1>7
    <3> QED
      BY <1>1, <3>1, <3>2
  <2>4. api'.drift = drift
    BY <1>1, <1>8
  <2>5. ASSUME api'.drift = {}
        PROVE  (\A o \in api'.offered : o.described) /\ api'.described \subseteq ToSet(api'.routes)
    <3>1. inventory = api.described
      BY <2>4, <2>5
    <3> QED
      BY <1>1, <1>3, <1>6, <3>1
  <2> QED
    BY <1>1, <2>1, <2>2, <2>3, <2>4, <2>5 DEF DocumentHonest
<1> QED
  BY <1>1, <1>2, <1>3, <1>3a, <1>9 DEF ApIInv

\* Every step of the application and of its document keeps it.
LEMMA ApSteps == ApIInv /\ [ApiNext]_api => ApIInv'
<1> SUFFICES ASSUME ApIInv, [ApiNext]_api PROVE ApIInv'
  OBVIOUS
<1>1. ASSUME NEW r \in ApiRoutes, RegisterRoute(r) PROVE ApIInv'
  <2>1. /\ DOMAIN api' = DOMAIN api /\ api'.routes = Append(api.routes, r)
        /\ api'.phase = api.phase /\ api'.listed = api.listed /\ api'.offered = api.offered
        /\ api'.described = api.described /\ api'.drift = api.drift /\ api'.known = api.known
    BY <1>1 DEF RegisterRoute, ApIInv
  <2>2. api.routes \in Seq(Inventory) /\ r \in Inventory
    BY DEF ApIInv, Inventory
  <2>3. Append(api.routes, r) \in Seq(Inventory)
    BY <2>2
  <2>4. ToSet(api.routes) \subseteq ToSet(Append(api.routes, r))
    BY <2>2 DEF ToSet
  <2> QED
    BY <2>1, <2>3, <2>4 DEF ApIInv, DocumentHonest
<1>2. ASSUME NEW r \in ApiRoutes, Describe(r) PROVE ApIInv'
  BY <1>2 DEF Describe, ApIInv, DocumentHonest
<1>3. CASE FromRoutes
  BY <1>3, ApListing
<1>4. CASE MountDocument
  BY <1>4, ApMounting
<1>5. CASE BuildApi
  BY <1>5 DEF BuildApi, ApIInv, DocumentHonest
<1>6. CASE UNCHANGED api
  BY <1>6 DEF ApIInv, DocumentHonest
<1> QED
  BY <1>1, <1>2, <1>3, <1>4, <1>5, <1>6 DEF ApiNext

\* However registering, listing and describing interleave before the mount, and
\* whatever is registered after it, the document of churust-openapi offers what was
\* registered when it last looked, an operation for each method of a path, and the
\* drift it reports is all there is of these routes and of the descriptions.
THEOREM DocumentsAreHonest == ApSpec => []DocumentHonest
<1>1. ApIInv => DocumentHonest
  BY DEF ApIInv
<1> QED
  BY <1>1, ApStarts, ApSteps, PTL DEF ApSpec

=============================================================================
