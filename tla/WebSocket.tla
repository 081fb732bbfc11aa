------------------------------- MODULE WebSocket -------------------------------
(***************************************************************************)
(* ws.rs: the WebSocketUpgrade extractor, and the task that on_upgrade      *)
(* spawns, which races the application's callback against the drain signal  *)
(* and a reaper that knows of the frames only what WsActivity records.      *)
(*                                                                         *)
(* Serve sees such a task as the holder of one clone of a ConnGuard; this   *)
(* module says when it lets go.  The callback keeps the socket it is given. *)
(***************************************************************************)
EXTENDS Naturals

CONSTANTS
  WsIdleTimeouts,  \* values of idle_timeout_ms, 0: no reaper
  WsHorizon        \* bound on the clock of a socket

ASSUME WsTimes == WsIdleTimeouts \subseteq Nat /\ WsHorizon \in Nat

\* phase: of the call, then of the task; handle: the OnUpgrade in the call;
\* idle: idle_timeout_ms; guarded: the task has a clone of the ConnGuard;
\* clock: time since WsActivity::origin; last: WsActivity::last_ms;
\* timer: when the reaper wakes up; end: what ended it, or refused it.
VARIABLE socket

WsInit ==
  socket = [phase |-> "none", handle |-> "none", idle |-> 0, guarded |-> FALSE,
            clock |-> 0, last |-> 0, timer |-> 0, end |-> "none"]

WsAtRest == socket.phase = "none"

Closed(s, reason) == [s EXCEPT !.phase = "closed", !.end = reason, !.guarded = FALSE]

-----------------------------------------------------------------------------
(* The handshake.                                                           *)

\* What the engine seeds into a call; one built without it has neither an
\* OnUpgrade nor a guard.
WsCall(idle, engine) ==
  /\ socket.phase = "none"
  /\ socket' = [socket EXCEPT !.phase = "call", !.idle = idle, !.guarded = engine,
                              !.handle = IF engine THEN "pending" ELSE "absent"]

\* from_call_parts, of a request that asks for an upgrade, in version 13, with
\* a key.  An OnUpgrade is taken once.
Verdict(asks, version, key) ==
  IF ~asks \/ ~version THEN "426"
  ELSE IF ~key THEN "400"
  ELSE IF socket.handle = "absent" THEN "426"
  ELSE IF socket.handle = "taken" THEN "500"
  ELSE "taken"

WsExtract(asks, version, key) ==
  /\ socket.phase \in {"call", "extracted"}
  /\ LET v == Verdict(asks, version, key) IN
     socket' = IF v = "taken" THEN [socket EXCEPT !.phase = "extracted", !.handle = v]
                              ELSE Closed(socket, v)

\* The handler returns without calling on_upgrade.
WsForgotten ==
  /\ socket.phase = "extracted"
  /\ socket' = Closed(socket, "forgotten")

OnUpgrade ==
  /\ socket.phase = "extracted"
  /\ socket' = [socket EXCEPT !.phase = "upgrading"]

UpgradeFails ==
  /\ socket.phase = "upgrading"
  /\ socket' = Closed(socket, "failed")

\* WsActivity::new, and the reaper's sleep.
Upgraded ==
  /\ socket.phase = "upgrading"
  /\ socket' = [socket EXCEPT !.phase = "open", !.timer = socket.idle]

-----------------------------------------------------------------------------
(* The select! of the task.                                                 *)

Open == socket.phase = "open"

\* A recv or a send of the callback completes, with a frame or with an error.
Touch ==
  /\ Open
  /\ socket' = [socket EXCEPT !.last = socket.clock]

CallbackReturns ==
  /\ Open
  /\ socket' = Closed(socket, "callback")

\* A call without a guard belongs to no drain.
WsDraining ==
  /\ Open /\ socket.guarded
  /\ socket' = Closed(socket, "drain")

\* WsActivity::idle_for: how much longer to wait, 0 when the period is over.
Quiet == socket.clock - socket.last
IdleFor == IF Quiet >= socket.idle THEN 0 ELSE socket.idle - Quiet

TimerFires == Open /\ socket.idle > 0 /\ socket.clock >= socket.timer

\* Mutant: the timer is armed with the whole period again.
Reaper_wholePeriod ==
  /\ TimerFires
  /\ socket' = IF IdleFor = 0 THEN Closed(socket, "reaper")
               ELSE [socket EXCEPT !.timer = socket.clock + socket.idle]

Reaper ==
  /\ TimerFires
  /\ socket' = IF IdleFor = 0 THEN Closed(socket, "reaper")
               ELSE [socket EXCEPT !.timer = socket.clock + IdleFor]

\* Time passes; a timer that is due is served first.
WsTick ==
  /\ Open /\ ~TimerFires /\ socket.clock < WsHorizon
  /\ socket' = [socket EXCEPT !.clock = @ + 1]

WsNext ==
  \/ \E idle \in WsIdleTimeouts, engine \in BOOLEAN : WsCall(idle, engine)
  \/ \E asks, version, key \in BOOLEAN : WsExtract(asks, version, key)
  \/ WsForgotten \/ OnUpgrade \/ UpgradeFails \/ Upgraded
  \/ Touch \/ CallbackReturns \/ WsDraining \/ Reaper \/ WsTick

-----------------------------------------------------------------------------
\* The idle bound is exact although the reaper looks only when its timer fires:
\* no open socket is quiet for longer than the period, none is reaped that was
\* not quiet for all of it, and whatever way it ends the permit goes back.
IdleBoundExact ==
  /\ Open /\ socket.idle > 0 => Quiet <= socket.idle
  /\ socket.end = "reaper" => socket.idle > 0 /\ Quiet = socket.idle
  /\ socket.phase = "closed" => ~socket.guarded
=============================================================================
