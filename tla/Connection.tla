----------------------------- MODULE Connection -----------------------------
(***************************************************************************)
(* One accepted connection: the task serve_stream spawns, its select! loop, *)
(* the ConnActivity counters that the loop reads and the requests write,    *)
(* and the Sniffing wrapper that tells it when a protocol has been chosen.  *)
(*                                                                         *)
(* Time is discrete.  Every sleep is the time it has left (0: elapsed) and  *)
(* `quiet' is the time since ConnActivity.last_ms, so no clock value is     *)
(* ever stored and the state space is finite without a bound on time.       *)
(***************************************************************************)
EXTENDS Integers, FiniteSets

CONSTANTS
  Request,        \* names for requests, reused once a request is over
  KeepAlives,     \* values of keep_alive_ms, 0: answer and close
  HeaderTimeouts, \* values of header_read_timeout_ms, 0: none
  GoawayLinger,   \* GOAWAY_LINGER
  PrefaceLen      \* length of H2_PREFACE

ASSUME RequestFinite == IsFiniteSet(Request)
ASSUME TimesAreNat == /\ KeepAlives \subseteq Nat
                      /\ HeaderTimeouts \subseteq Nat
                      /\ GoawayLinger \in Nat \ {0}
ASSUME PrefaceNonEmpty == PrefaceLen \in Nat \ {0}

VARIABLES
  config,       \* ConnSettings, which no step changes
  open,         \* the loop is running, so its ConnGuard clone is held
  signal,       \* the Drain watch has fired
  winding,      \* winding_down: graceful_shutdown has been called
  lingering,    \* the linger branch is enabled
  negArmed,     \* negotiation_armed
  idleT, lingerT, negT,   \* time left on the three pinned sleeps
  phase,        \* what hyper serves: "sniff", "h1" or "h2"
  matched,      \* Sniffing.matched
  negotiated,   \* the Negotiated flag
  connDone,     \* hyper's connection future is ready
  refusing,     \* hyper accepts no further request (GOAWAY, HTTP/1 close)
  mute,         \* the peer has stopped answering, pings included
  req,          \* where each request is
  inFlight, served, quiet, permit   \* ConnActivity

loopVars   == <<open, winding, lingering, negArmed, idleT, lingerT, negT>>
activity   == <<inFlight, served, quiet, permit>>
hyperVars  == <<phase, matched, negotiated, connDone, refusing>>
peerVars   == <<signal, mute>>
vars == <<config, loopVars, activity, hyperVars, peerVars, req>>

KeepAlive     == config.keepAlive
HeaderTimeout == config.headerTimeout

(***************************************************************************)
(* A request is "none"; "accepted" (hyper spawned its HTTP/2 stream task,   *)
(* which has not been polled); "handling"; "writing" (the InFlight guard    *)
(* rides on the response body); then the four statements of InFlight::drop, *)
(* which run on the stream's own task under HTTP/2.                         *)
(***************************************************************************)
Dropping == {"dropLast", "dropServed", "dropCount", "dropNotify"}
Stages   == {"none", "accepted", "handling", "writing"} \cup Dropping

Live      == {r \in Request : req[r] # "none"}
Answering == {r \in Request : req[r] \in {"handling", "writing"}}
Guarded   == {"handling", "writing", "dropLast", "dropServed", "dropCount"}
Counted   == {r \in Request : req[r] \in Guarded}

TypeOK ==
  /\ config \in [keepAlive: KeepAlives, headerTimeout: HeaderTimeouts]
  /\ open \in BOOLEAN /\ signal \in BOOLEAN /\ winding \in BOOLEAN
  /\ lingering \in BOOLEAN /\ negArmed \in BOOLEAN
  /\ idleT \in Nat /\ lingerT \in Nat /\ negT \in Nat
  /\ phase \in {"sniff", "h1", "h2"}
  /\ matched \in 0..PrefaceLen
  /\ negotiated \in BOOLEAN /\ connDone \in BOOLEAN
  /\ refusing \in BOOLEAN /\ mute \in BOOLEAN
  /\ req \in [Request -> Stages]
  /\ inFlight \in Nat /\ quiet \in Nat
  /\ served \in BOOLEAN /\ permit \in BOOLEAN

Init ==
  /\ config \in [keepAlive: KeepAlives, headerTimeout: HeaderTimeouts]
  /\ open = TRUE /\ signal \in BOOLEAN /\ winding = FALSE
  /\ lingering = FALSE /\ negArmed = (HeaderTimeout > 0)
  /\ idleT = KeepAlive /\ lingerT = GoawayLinger /\ negT = HeaderTimeout
  /\ phase = "sniff" /\ matched = 0 /\ negotiated = FALSE
  /\ connDone = FALSE /\ refusing = FALSE /\ mute = FALSE
  /\ req = [r \in Request |-> "none"]
  /\ inFlight = 0 /\ served = FALSE /\ quiet = 0 /\ permit = FALSE

-----------------------------------------------------------------------------
(* Sniffing::observe, fed by what one read of the preface phase produced.   *)

Reading == open /\ ~connDone /\ ~mute /\ ~refusing

\* k more bytes of the preface arrived, and all of them matched.
ReadPreface(k) ==
  /\ Reading /\ phase = "sniff" /\ matched + k <= PrefaceLen
  /\ matched' = matched + k
  /\ negotiated' = (matched' = PrefaceLen)
  /\ phase' = IF matched' = PrefaceLen THEN "h2" ELSE "sniff"
  /\ UNCHANGED <<connDone, refusing, loopVars, activity, peerVars, req, config>>

\* A read that diverges from the preface, or end of file: HTTP/1 it is.
ReadDiverging ==
  /\ Reading /\ phase = "sniff"
  /\ negotiated' = TRUE /\ phase' = "h1"
  /\ \E done \in BOOLEAN : connDone' = done
  /\ UNCHANGED <<matched, refusing, loopVars, activity, peerVars, req, config>>

-----------------------------------------------------------------------------
(* Requests.  HTTP/1 polls the service inside the connection future, so it  *)
(* is counted as it is accepted; HTTP/2 spawns a task per stream.           *)

SetReq(r, stage) == req' = [req EXCEPT ![r] = stage]

\* InFlight::new
CountRequest == inFlight' = inFlight + 1 /\ UNCHANGED <<served, quiet, permit>>

H1Request(r) ==
  /\ Reading /\ phase = "h1" /\ Live = {}
  /\ KeepAlive = 0 => ~served
  /\ SetReq(r, "handling") /\ CountRequest
  /\ UNCHANGED <<loopVars, hyperVars, peerVars, config>>

H2Accept(r) ==
  /\ Reading /\ phase = "h2" /\ req[r] = "none"
  /\ SetReq(r, "accepted")
  /\ UNCHANGED <<loopVars, activity, hyperVars, peerVars, config>>

H2Begin(r) ==
  /\ req[r] = "accepted"
  /\ SetReq(r, "handling") /\ CountRequest
  /\ UNCHANGED <<loopVars, hyperVars, peerVars, config>>

\* The handler answered, or request_timeout_ms answered for it: the guard
\* moves onto the response body.
HandlerReturns(r) ==
  /\ req[r] = "handling"
  /\ SetReq(r, "writing")
  /\ UNCHANGED <<loopVars, activity, hyperVars, peerVars, config>>

\* Mutant: counting by a pair of calls, so a cancelled request is never uncounted.
RequestOver_leaks(r) ==
  /\ req[r] \in {"handling", "writing"}
  /\ SetReq(r, IF req[r] = "handling" THEN "none" ELSE "dropLast")
  /\ UNCHANGED <<loopVars, activity, hyperVars, peerVars, config>>

\* The last frame went out, or the future was dropped on the way (RST_STREAM,
\* client gone): InFlight::drop starts either way.
RequestOver(r) ==
  /\ req[r] \in {"handling", "writing"}
  /\ SetReq(r, "dropLast")
  /\ UNCHANGED <<loopVars, activity, hyperVars, peerVars, config>>

\* A stream task dropped before its first poll never created a guard.
NeverPolled(r) ==
  /\ req[r] = "accepted"
  /\ SetReq(r, "none")
  /\ UNCHANGED <<loopVars, activity, hyperVars, peerVars, config>>

DropLast(r) ==
  /\ req[r] = "dropLast" /\ SetReq(r, "dropServed")
  /\ quiet' = 0
  /\ UNCHANGED <<inFlight, served, permit, loopVars, hyperVars, peerVars, config>>

DropServed(r) ==
  /\ req[r] = "dropServed" /\ SetReq(r, "dropCount")
  /\ served' = TRUE
  /\ UNCHANGED <<inFlight, quiet, permit, loopVars, hyperVars, peerVars, config>>

DropCount(r) ==
  /\ req[r] = "dropCount" /\ SetReq(r, "dropNotify")
  /\ inFlight' = inFlight - 1
  /\ UNCHANGED <<served, quiet, permit, loopVars, hyperVars, peerVars, config>>

\* Mutant: the notify_on_finish flag the wrong way round.
DropNotify_inverted(r) ==
  /\ req[r] = "dropNotify" /\ SetReq(r, "none")
  /\ permit' = (permit \/ KeepAlive > 0)
  /\ UNCHANGED <<inFlight, served, quiet, loopVars, hyperVars, peerVars, config>>

\* notify_on_finish is set exactly when keep_alive_ms is 0.
DropNotify(r) ==
  /\ req[r] = "dropNotify" /\ SetReq(r, "none")
  /\ permit' = (permit \/ KeepAlive = 0)
  /\ UNCHANGED <<inFlight, served, quiet, loopVars, hyperVars, peerVars, config>>

Drop(r) == DropLast(r) \/ DropServed(r) \/ DropCount(r) \/ DropNotify(r)

-----------------------------------------------------------------------------
(* The select! loop.  `biased' picks the first branch that is ready, and an *)
(* HTTP/1 request is dropped inside the first branch, never beside it.      *)

busy == inFlight > 0

ConnReady     == connDone
SignalReady   == signal /\ ~winding
LingerReady   == lingering /\ lingerT = 0
\* Mutant: the deadline starts with the first byte, as hyper's own does.
NegReady_afterFirstByte == negArmed /\ ~winding /\ negT = 0 /\ matched > 0

NegReady      == negArmed /\ ~winding /\ negT = 0
FinishedReady == KeepAlive = 0 /\ ~winding /\ permit
IdleReady     == KeepAlive > 0 /\ ~winding /\ idleT = 0

AnyReady == \/ ConnReady \/ SignalReady \/ LingerReady
            \/ NegReady \/ FinishedReady \/ IdleReady

Polling == /\ open
           /\ phase = "h1" => \A r \in Request : req[r] \notin Dropping

\* The loop head: a settled negotiation disarms its branch.
Reenter(armed) == negArmed' = (armed /\ ~negotiated')

\* winding_down = true; conn.graceful_shutdown().  A preface still being
\* sniffed is cancelled; otherwise a request already on its way may get in.
GracefulShutdown ==
  /\ winding' = TRUE
  /\ IF phase = "sniff" THEN refusing' = TRUE
                        ELSE \E now \in BOOLEAN : refusing' = (refusing \/ now)
  /\ UNCHANGED <<phase, matched, negotiated, connDone>>

ArmLinger == lingering' = TRUE /\ lingerT' = GoawayLinger

LoopConn ==
  /\ Polling /\ ConnReady
  /\ open' = FALSE
  /\ UNCHANGED <<winding, lingering, negArmed, idleT, lingerT, negT,
                 activity, hyperVars, peerVars, req, config>>

\* Mutant: the linger is left to the other branches to arm.
LoopShutdown_noLinger ==
  /\ Polling /\ SignalReady /\ ~ConnReady
  /\ GracefulShutdown
  /\ Reenter(negArmed)
  /\ UNCHANGED <<open, lingering, lingerT, idleT, negT, activity, peerVars, req, config>>

LoopShutdown ==
  /\ Polling /\ SignalReady /\ ~ConnReady
  /\ GracefulShutdown
  /\ IF busy THEN UNCHANGED <<lingering, lingerT>> ELSE ArmLinger
  /\ Reenter(negArmed)
  /\ UNCHANGED <<open, idleT, negT, activity, peerVars, req, config>>

\* Mutant: the linger drops the connection whatever is in flight.
LoopLinger_unconditional ==
  /\ Polling /\ LingerReady /\ ~ConnReady /\ ~SignalReady
  /\ open' = FALSE
  /\ UNCHANGED <<winding, lingering, lingerT, negArmed, idleT, negT,
                 activity, hyperVars, peerVars, req, config>>

LoopLinger ==
  /\ Polling /\ LingerReady /\ ~ConnReady /\ ~SignalReady
  /\ IF busy THEN open' = TRUE /\ lingerT' = GoawayLinger /\ Reenter(negArmed)
             ELSE open' = FALSE /\ UNCHANGED <<lingerT, negArmed>>
  /\ UNCHANGED <<winding, lingering, idleT, negT,
                 activity, hyperVars, peerVars, req, config>>

\* Mutant: the branch trusts its guard and does not read the flag again.
LoopNegotiation_stale ==
  /\ Polling /\ NegReady /\ ~ConnReady /\ ~SignalReady /\ ~LingerReady
  /\ GracefulShutdown /\ ArmLinger /\ Reenter(negArmed)
  /\ UNCHANGED <<open, idleT, negT, activity, peerVars, req, config>>

LoopNegotiation ==
  /\ Polling /\ NegReady /\ ~ConnReady /\ ~SignalReady /\ ~LingerReady
  /\ IF negotiated
       THEN UNCHANGED <<winding, lingering, lingerT, hyperVars>> /\ Reenter(FALSE)
       ELSE GracefulShutdown /\ ArmLinger /\ Reenter(negArmed)
  /\ UNCHANGED <<open, idleT, negT, activity, peerVars, req, config>>

LoopFinished ==
  /\ Polling /\ FinishedReady
  /\ ~ConnReady /\ ~SignalReady /\ ~LingerReady /\ ~NegReady
  /\ permit' = FALSE
  /\ IF served /\ ~busy
       THEN GracefulShutdown /\ ArmLinger
       ELSE UNCHANGED <<winding, lingering, lingerT, hyperVars>>
  /\ Reenter(negArmed)
  /\ UNCHANGED <<open, idleT, negT, inFlight, served, quiet, peerVars, req, config>>

\* ConnActivity::idle_for: 0 once the connection has been idle long enough,
\* otherwise how much longer to wait before asking again.
idleFor == IF busy THEN KeepAlive
           ELSE IF quiet >= KeepAlive THEN 0 ELSE KeepAlive - quiet

\* Mutant: the GOAWAY is sent and nothing bounds the wait for its answer.
LoopIdle_noLinger ==
  /\ Polling /\ IdleReady
  /\ ~ConnReady /\ ~SignalReady /\ ~LingerReady /\ ~NegReady
  /\ IF idleFor = 0 THEN GracefulShutdown /\ UNCHANGED idleT
                    ELSE idleT' = idleFor /\ UNCHANGED <<winding, hyperVars>>
  /\ Reenter(negArmed)
  /\ UNCHANGED <<open, lingering, lingerT, negT, activity, peerVars, req, config>>

LoopIdle ==
  /\ Polling /\ IdleReady
  /\ ~ConnReady /\ ~SignalReady /\ ~LingerReady /\ ~NegReady
  /\ IF idleFor = 0
       THEN GracefulShutdown /\ ArmLinger /\ UNCHANGED idleT
       ELSE idleT' = idleFor /\ UNCHANGED <<winding, lingering, lingerT, hyperVars>>
  /\ Reenter(negArmed)
  /\ UNCHANGED <<open, negT, activity, peerVars, req, config>>

Loop == LoopConn \/ LoopShutdown \/ LoopLinger \/ LoopNegotiation
        \/ LoopFinished \/ LoopIdle

-----------------------------------------------------------------------------
(* hyper and the peer, as serve_stream relies on them.                      *)

Resolve ==
  /\ connDone' = TRUE
  /\ UNCHANGED <<phase, matched, negotiated, refusing,
                 loopVars, activity, peerVars, req, config>>

\* The peer closes, or the transport fails.
PeerCloses == open /\ ~connDone /\ Resolve

\* hyper has nothing left to serve: HTTP/1 closes after its last response,
\* HTTP/2 once the final GOAWAY is out and no stream is left.
HyperFinishes ==
  /\ open /\ ~connDone /\ Live = {}
  /\ \/ phase = "h1" /\ served /\ (winding \/ KeepAlive = 0)
     \/ phase = "h2" /\ winding /\ refusing
  /\ Resolve

\* header_read_timeout: an HTTP/1 head did not arrive in time.
HeadTimesOut ==
  /\ open /\ ~connDone /\ HeaderTimeout > 0
  /\ phase = "h1" /\ Live = {}
  /\ Resolve

\* keep_alive_interval and keep_alive_timeout: an HTTP/2 PING went unanswered.
PingTimesOut ==
  /\ open /\ ~connDone /\ HeaderTimeout > 0
  /\ phase = "h2" /\ mute
  /\ Resolve

\* The peer acknowledged the first GOAWAY: no further stream is accepted.
FinalGoaway ==
  /\ open /\ winding /\ ~refusing /\ ~mute
  /\ refusing' = TRUE
  /\ UNCHANGED <<phase, matched, negotiated, connDone,
                 loopVars, activity, peerVars, req, config>>

PeerGoesMute ==
  /\ open /\ ~mute /\ mute' = TRUE
  /\ UNCHANGED <<signal, loopVars, activity, hyperVars, req, config>>

\* Drain::wait sends the signal.
ShutdownSignal ==
  /\ ~signal /\ signal' = TRUE
  /\ UNCHANGED <<mute, loopVars, activity, hyperVars, req, config>>

Less(t) == IF t > 0 THEN t - 1 ELSE 0

\* `quiet' is compared with KeepAlive only, so it stops growing there.
Tick ==
  /\ open
  /\ idleT' = Less(idleT) /\ lingerT' = Less(lingerT) /\ negT' = Less(negT)
  /\ quiet' = IF quiet < KeepAlive THEN quiet + 1 ELSE quiet
  /\ UNCHANGED <<open, winding, lingering, negArmed, inFlight, served, permit,
                 hyperVars, peerVars, req, config>>

-----------------------------------------------------------------------------
RequestStep(r) == \/ H1Request(r) \/ H2Accept(r) \/ H2Begin(r)
                  \/ HandlerReturns(r) \/ RequestOver(r) \/ NeverPolled(r)
                  \/ Drop(r)

Environment == \/ PeerCloses \/ HyperFinishes \/ HeadTimesOut \/ PingTimesOut
               \/ FinalGoaway \/ PeerGoesMute \/ ShutdownSignal \/ Tick

Next == \/ \E k \in 1..PrefaceLen : ReadPreface(k)
        \/ ReadDiverging
        \/ \E r \in Request : RequestStep(r)
        \/ Loop
        \/ Environment

Spec == Init /\ [][Next]_vars

(***************************************************************************)
(* Fairness.  Tokio polls a woken task and fires an elapsed sleep; time     *)
(* passes; a spawned stream task is polled; a started drop runs to its end. *)
(* Nothing is assumed of the peer or of a body being written; hyper is only *)
(* trusted to close what has nothing left to serve and to act on its own    *)
(* deadlines.                                                               *)
(***************************************************************************)
Fairness ==
  /\ WF_vars(Tick) /\ WF_vars(Loop)
  /\ WF_vars(HyperFinishes) /\ WF_vars(PingTimesOut) /\ WF_vars(FinalGoaway)
  /\ \A r \in Request : WF_vars(H2Begin(r)) /\ WF_vars(Drop(r))

FairSpec == Spec /\ Fairness

-----------------------------------------------------------------------------
(* Safety.                                                                  *)

\* The counter the loop trusts is exact: in_flight is the number of requests
\* that hold an InFlight guard, whichever of them is in the middle of its drop.
CountExact == inFlight = Cardinality(Counted)

\* What makes it and the properties below inductive: the flag Sniffing raises
\* says what hyper decided, and the linger is armed only by winding down.
FlagTellsPhase == negotiated <=> phase # "sniff"
LingerAsked    == lingering => winding
IInv == TypeOK /\ CountExact /\ FlagTellsPhase /\ LingerAsked

\* The contract of ConnLease: the server itself lets go of a connection only
\* after asking it to finish and with no request being answered on it.
Lease == INSTANCE ConnLease WITH held <- open, asked <- winding,
                                 peerDone <- connDone, answering <- Answering
LeaseSpec == Lease!Spec

\* graceful_shutdown is called for one of the four reasons the loop knows: the
\* drain signal, no protocol chosen, "answer and close" with nothing in flight,
\* or a full keep-alive period since the last request recorded its end.  In
\* particular a negotiated HTTP/2 client is never closed by the negotiation
\* deadline, and the period is never measured from a stale last_ms.
Unrecorded == {r \in Request : req[r] \in {"handling", "writing", "dropLast"}}
WindDownReason ==
  \/ signal
  \/ phase = "sniff"
  \/ KeepAlive = 0 /\ served /\ Counted = {}
  \/ KeepAlive > 0 /\ quiet >= KeepAlive /\ Unrecorded = {}
WindDownHasReason == [][~winding /\ winding' => WindDownReason]_vars

-----------------------------------------------------------------------------
(* Liveness.                                                                *)

\* A peer that never completes a preface is released: the deadline covers the
\* phase in which no other timer exists.
SilentPeerReleased ==
  HeaderTimeout > 0 => (phase = "sniff" ~> (phase # "sniff" \/ ~open))

\* A connection on which nothing happens any more is released, also when the
\* peer answers no GOAWAY and no PING, unless a shutdown is in charge of it.
IdleReleased ==
  KeepAlive > 0 => (<>[](Live = {}) => <>(~open \/ signal))

\* keep_alive_ms = 0 closes an HTTP/2 connection too once it has answered and
\* nothing is in flight: the notification of the last request is never lost.
AnswerAndClose ==
  KeepAlive = 0 => (<>[](served /\ Live = {}) => <>(~open \/ signal))

\* After the drain signal a connection whose requests have ended is released.
ShutdownReleased ==
  HeaderTimeout > 0 => ((<>signal /\ <>[](Live = {})) => <>~open)
=============================================================================
