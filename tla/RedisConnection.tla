--------------------------- MODULE RedisConnection ---------------------------
(***************************************************************************)
(* RedisBackend: the one multiplexed connection that every session command  *)
(* shares, dialled outside the lock and dialled again when it fails.        *)
(*                                                                         *)
(* Redis goes away and comes back, which breaks every connection there is.  *)
(* RedisSessions looks at a command as answered or not; this module says    *)
(* when it is not.                                                          *)
(***************************************************************************)
EXTENDS Integers, FiniteSets

CONSTANTS
  Command,   \* the commands in flight
  Sockets    \* the connections that may be dialled: 1 .. Sockets

ASSUME SocketBound == Sockets \in Nat

NoSocket == 0

\* up: whether Redis answers; alive: the connections that work; dialled: how
\* many there were; cache: the shared one; at, attempt, conn: each command's
\* run; met: history, the broken connections and the refused dials it met.
VARIABLE redis_conn

Unstarted == [at |-> "idle", attempt |-> 0, conn |-> NoSocket, met |-> {}, refused |-> FALSE]

RcRest == [on |-> FALSE, up |-> TRUE, alive |-> {}, dialled |-> 0, cache |-> NoSocket,
           cmd |-> [c \in Command |-> Unstarted]]
RcInit == redis_conn = RcRest
RcAtRest == ~redis_conn.on

Cmd(c) == redis_conn.cmd[c]
NewSocket == redis_conn.dialled + 1

\* RedisStore::connect proves the endpoint; from_client dials nothing.
RcOpen(eager) ==
  /\ ~redis_conn.on
  /\ redis_conn' = [RcRest EXCEPT !.on = TRUE,
       !.alive = IF eager THEN {1} ELSE {}, !.dialled = IF eager THEN 1 ELSE 0,
       !.cache = IF eager THEN 1 ELSE NoSocket]

RcRun(c) ==
  /\ redis_conn.on /\ Cmd(c).at = "idle"
  /\ redis_conn' = [redis_conn EXCEPT !.cmd[c] = [Unstarted EXCEPT !.at = "connecting"]]

\* connection(), under the lock: a clone of what is there.
RcClone(c) ==
  /\ Cmd(c).at = "connecting"
  /\ redis_conn' = [redis_conn EXCEPT !.cmd[c] =
       IF redis_conn.cache = NoSocket THEN [@ EXCEPT !.at = "dialling"]
       ELSE [@ EXCEPT !.at = "asking", !.conn = redis_conn.cache]]

\* The dial, with the lock released.
RcDialled(c) ==
  /\ Cmd(c).at = "dialling" /\ redis_conn.up /\ NewSocket <= Sockets
  /\ redis_conn' = [redis_conn EXCEPT !.cmd[c] = [@ EXCEPT !.at = "dialled", !.conn = NewSocket],
                                      !.dialled = NewSocket, !.alive = @ \cup {NewSocket}]

RcRefused(c) ==
  /\ Cmd(c).at = "dialling" /\ ~redis_conn.up
  /\ redis_conn' = [redis_conn EXCEPT !.cmd[c] = [@ EXCEPT !.at = "failed", !.refused = TRUE]]

\* The lock again: the first one to finish is kept, the others drop theirs.
Shared(c) == IF redis_conn.cache = NoSocket THEN Cmd(c).conn ELSE redis_conn.cache

RcShare(c) ==
  /\ Cmd(c).at = "dialled"
  /\ redis_conn' = [redis_conn EXCEPT !.cmd[c] = [@ EXCEPT !.at = "asking", !.conn = Shared(c)],
                                      !.cache = Shared(c)]

\* query_async on a connection that works.
RcAnswered(c) ==
  /\ Cmd(c).at = "asking" /\ Cmd(c).conn \in redis_conn.alive
  /\ redis_conn' = [redis_conn EXCEPT !.cmd[c] = Unstarted]

\* Mutant: the connection that has just failed stays in the cache.
EmptiedCache_kept(cache) == cache

\* ... and on a broken one: the cache is emptied, whatever it holds by now.
EmptiedCache(cache) == NoSocket

RcBroken(c) ==
  /\ Cmd(c).at = "asking" /\ Cmd(c).conn \notin redis_conn.alive
  /\ LET again == Cmd(c).attempt = 0 IN
     redis_conn' = [redis_conn EXCEPT
       !.cmd[c] = [@ EXCEPT !.met = Cmd(c).met \cup {Cmd(c).conn}, !.attempt = 1, !.conn = NoSocket,
                            !.at = IF again THEN "connecting" ELSE "failed"],
       !.cache = IF again THEN EmptiedCache(@) ELSE @]

\* The caller has its None, or is gone.
RcEnd(c) ==
  /\ Cmd(c).at # "idle"
  /\ redis_conn' = [redis_conn EXCEPT !.cmd[c] = Unstarted]

\* Redis restarts, or the network fails it for a while.
RcDown == redis_conn.on /\ redis_conn.up
            /\ redis_conn' = [redis_conn EXCEPT !.up = FALSE, !.alive = {}]
RcUp == redis_conn.on /\ ~redis_conn.up /\ redis_conn' = [redis_conn EXCEPT !.up = TRUE]

RcNext ==
  \/ \E e \in BOOLEAN : RcOpen(e)
  \/ \E c \in Command : RcRun(c)
  \/ \E c \in Command : RcClone(c)
  \/ \E c \in Command : RcDialled(c)
  \/ \E c \in Command : RcRefused(c)
  \/ \E c \in Command : RcShare(c)
  \/ \E c \in Command : RcAnswered(c)
  \/ \E c \in Command : RcBroken(c)
  \/ \E c \in Command : RcEnd(c)
  \/ RcDown
  \/ RcUp

-----------------------------------------------------------------------------
(* Properties.                                                              *)

\* A command is given up only for a reason that was not in the cache when it
\* began its second attempt: Redis refused a dial, or two different connections
\* broke under it.  One dead connection costs a command one attempt, however
\* many others share it, drop it and dial at the same time.
GivesUpForCause ==
  \A c \in Command :
    Cmd(c).at = "failed" => Cmd(c).refused \/ Cardinality(Cmd(c).met) = 2
=============================================================================
