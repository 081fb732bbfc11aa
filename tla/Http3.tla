--------------------------------- MODULE Http3 ---------------------------------
(***************************************************************************)
(* http3.rs: the QUIC accept loop and its two budgets, the connections and  *)
(* the tasks that answer their request streams.                             *)
(*                                                                         *)
(* quinn's endpoint and its own idle timeout are the environment.           *)
(***************************************************************************)
EXTENDS Integers, FiniteSets

CONSTANTS
  QuicPeer,       \* connections
  NoPeer,         \* none of them
  QuicSettings,   \* records [connections, handshakes, shakeLimit, keepAlive, streams]
  QuicIdleMax,    \* the largest idle timeout QUIC can carry
  DefaultIdle,    \* DEFAULT_IDLE_MS
  DefaultStreams  \* DEFAULT_MAX_STREAMS

ASSUME QuicNumbers ==
  /\ IsFiniteSet(QuicPeer) /\ NoPeer \notin QuicPeer
  /\ QuicIdleMax \in Nat /\ DefaultIdle \in Nat \ {0} /\ DefaultStreams \in Nat \ {0}
  /\ DefaultIdle <= QuicIdleMax
  /\ QuicSettings \subseteq [connections: Nat, handshakes: Nat, shakeLimit: Nat,
                             keepAlive: Nat, streams: Nat]

\* loop: of accept_loop; incoming: the connection it waits to give a slot;
\* at[c]: where a connection is; age[c]: time since its task was spawned;
\* open[c]: its request streams; tasks[c]: its request tasks.
VARIABLE quic

NoSettings == [connections |-> 0, handshakes |-> 0, shakeLimit |-> 0, keepAlive |-> 0,
               streams |-> 0]

H3Init ==
  quic = [loop |-> "unbound", cfg |-> NoSettings, slots |-> 0, shakes |-> 0,
          incoming |-> NoPeer, at |-> [c \in QuicPeer |-> "away"],
          age |-> [c \in QuicPeer |-> 0], quiet |-> [c \in QuicPeer |-> 0],
          tasks |-> [c \in QuicPeer |-> 0]]

H3AtRest == quic.loop = "unbound"

-----------------------------------------------------------------------------
(* TransportLimits: what 0 means is not the same over QUIC.                 *)

IdleMsFor(keepAlive) == IF keepAlive = 0 THEN DefaultIdle ELSE keepAlive

MaxStreamsFor(streams) == IF streams = 0 THEN DefaultStreams ELSE streams

\* serve: a keep_alive_ms that no idle timeout can express is refused.
Bind(s) ==
  /\ quic.loop = "unbound"
  /\ quic' = IF IdleMsFor(s.keepAlive) > QuicIdleMax THEN [quic EXCEPT !.loop = "refused"]
             ELSE [quic EXCEPT !.loop = "accepting", !.cfg = s, !.slots = s.connections,
                               !.shakes = s.handshakes]

-----------------------------------------------------------------------------
(* accept_loop and the head of a connection's task.                         *)

Move(c, place) == [quic EXCEPT !.at[c] = place]

Arrive(c) ==
  /\ quic.at[c] = "away" /\ quic.loop \in {"accepting", "acquiring"}
  /\ quic' = Move(c, "queued")

EndpointAccept(c) ==
  /\ quic.loop = "accepting" /\ quic.at[c] = "queued"
  /\ quic' = [Move(c, "incoming") EXCEPT !.loop = "acquiring", !.incoming = c]

\* A budget of 0 is no budget.
Limited(n) == n > 0

Spawn ==
  LET c == quic.incoming IN
  /\ quic.loop = "acquiring"
  /\ Limited(quic.cfg.connections) => quic.slots > 0
  /\ quic' = [Move(c, "waiting") EXCEPT
                !.loop = "accepting", !.incoming = NoPeer, !.age[c] = 0,
                !.slots = IF Limited(quic.cfg.connections) THEN @ - 1 ELSE @]

EndpointCloses ==
  /\ quic.loop = "accepting"
  /\ quic' = [quic EXCEPT !.loop = "closed",
                          !.at = [c \in QuicPeer |-> IF @[c] = "queued" THEN "away" ELSE @[c]]]

ShakePermit(c) ==
  /\ quic.at[c] = "waiting" /\ (Limited(quic.cfg.handshakes) => quic.shakes > 0)
  /\ quic' = [Move(c, "shaking") EXCEPT
                !.shakes = IF Limited(quic.cfg.handshakes) THEN @ - 1 ELSE @]

\* queue_and_shake is over, one way or the other.
ShakeOver(c) ==
  IF quic.at[c] = "shaking" /\ Limited(quic.cfg.handshakes) THEN quic.shakes + 1
                                                           ELSE quic.shakes

SlotBack == IF Limited(quic.cfg.connections) THEN quic.slots + 1 ELSE quic.slots

Shaken(c) ==
  /\ quic.at[c] = "shaking"
  /\ quic' = [Move(c, "served") EXCEPT !.shakes = ShakeOver(c), !.quiet[c] = 0]

ShakeAbandoned(c) ==
  quic' = [Move(c, "gone") EXCEPT !.shakes = ShakeOver(c), !.slots = SlotBack]

ShakeFails(c) == quic.at[c] = "shaking" /\ ShakeAbandoned(c)

Unproven(c) == quic.at[c] \in {"waiting", "shaking"}

Late(c) == Limited(quic.cfg.shakeLimit) /\ quic.age[c] >= quic.cfg.shakeLimit

\* Mutant: only the handshake is timed, not the wait for the budget.
ShakeOverdue_shaking(c) == quic.at[c] = "shaking" /\ Late(c)

ShakeOverdue(c) == Unproven(c) /\ Late(c)

ShakeTimesOut(c) == ShakeOverdue(c) /\ ShakeAbandoned(c)

-----------------------------------------------------------------------------
(* serve_connection: one task per request stream; the connection's task     *)
(* ends with the connection and leaves them behind.                         *)

AcceptStream(c) ==
  /\ quic.at[c] = "served" /\ quic.tasks[c] < MaxStreamsFor(quic.cfg.streams)
  /\ quic' = [quic EXCEPT !.tasks[c] = @ + 1, !.quiet[c] = 0]

RequestEnds(c) ==
  /\ quic.tasks[c] > 0
  /\ quic' = [quic EXCEPT !.tasks[c] = @ - 1, !.quiet[c] = 0]

ConnectionOver(c) ==
  /\ quic.at[c] = "served"
  /\ quic' = [Move(c, "gone") EXCEPT !.slots = SlotBack]

\* quinn's idle timeout: nothing went either way for that long.
IdleExpired(c) == quic.at[c] = "served" /\ quic.quiet[c] >= IdleMsFor(quic.cfg.keepAlive)
IdleTimesOut(c) == IdleExpired(c) /\ ConnectionOver(c)

Reconnect(c) ==
  /\ quic.at[c] = "gone" /\ quic.tasks[c] = 0
  /\ quic' = Move(c, "away")

H3Tick ==
  /\ \E c \in QuicPeer : Unproven(c) \/ quic.at[c] = "served"
  /\ \A c \in QuicPeer : ~ShakeOverdue(c) /\ ~IdleExpired(c)
  /\ quic' = [quic EXCEPT
       !.age = [c \in QuicPeer |-> IF Unproven(c) /\ Limited(quic.cfg.shakeLimit)
                                   THEN @[c] + 1 ELSE @[c]],
       !.quiet = [c \in QuicPeer |-> IF quic.at[c] = "served"
                                     THEN @[c] + 1 ELSE @[c]]]

H3Next ==
  \/ \E s \in QuicSettings : Bind(s)
  \/ Spawn \/ EndpointCloses \/ H3Tick
  \/ \E c \in QuicPeer :
       \/ Arrive(c) \/ EndpointAccept(c) \/ ShakePermit(c) \/ Shaken(c)
       \/ ShakeFails(c) \/ ShakeTimesOut(c)
       \/ AcceptStream(c) \/ RequestEnds(c) \/ ConnectionOver(c) \/ IdleTimesOut(c)
       \/ Reconnect(c)

-----------------------------------------------------------------------------
At(places) == Cardinality({c \in QuicPeer : quic.at[c] \in places})

\* The two budgets of the TCP engine hold over QUIC as well, whatever way a
\* connection ends: a permit is out exactly for the connections whose task is
\* alive, a handshake permit exactly for those that shake hands, and no peer
\* that has not proved itself holds its slot beyond tls_handshake_timeout_ms, the
\* time it queues for the handshake budget included.
QuicBudgetsExact ==
  quic.loop \notin {"unbound", "refused"} =>
    /\ Limited(quic.cfg.connections) =>
         quic.slots >= 0 /\ quic.slots + At({"waiting", "shaking", "served"}) = quic.cfg.connections
    /\ Limited(quic.cfg.handshakes) =>
         quic.shakes >= 0 /\ quic.shakes + At({"shaking"}) = quic.cfg.handshakes
    /\ Limited(quic.cfg.shakeLimit) =>
         \A c \in QuicPeer : Unproven(c) => quic.age[c] <= quic.cfg.shakeLimit
=============================================================================
