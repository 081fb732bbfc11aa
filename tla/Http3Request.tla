------------------------------ MODULE Http3Request ------------------------------
(***************************************************************************)
(* http3.rs: serve_request, one request on one QUIC stream.  The peer sends *)
(* a head, chunks, and then finishes or resets its side; the body is        *)
(* collected before the application sees it, and the answer is written in   *)
(* pieces that may fail.                                                    *)
(***************************************************************************)
EXTENDS Integers

CONSTANTS
  H3MaxBody,    \* max_body_bytes
  H3MaxSent,    \* bound on what a peer sends
  H3Deadlines   \* values of request_timeout_ms, 0: none

ASSUME H3Sizes == H3MaxBody \in Nat /\ H3MaxSent \in Nat /\ H3Deadlines \subseteq Nat

Undeclared == -1

\* sent: what the peer has sent; peer: how its side ended; got: the buffer of
\* read_body; left: how long until the deadline; body, written: the length of
\* the answer and what of it is on the wire; wire: how our side ended, as the peer
\* sees it; panicked is history: the answer's own stream did, and took the task along.
VARIABLE stream

H3rInit ==
  stream = [phase |-> "idle", declared |-> Undeclared, head |-> FALSE, deadline |-> 0,
            clock |-> 0, sent |-> 0, peer |-> "open", got |-> 0, status |-> 0,
            body |-> 0, written |-> 0, wire |-> "open", panicked |-> FALSE]

H3rAtRest == stream.phase = "idle"

\* send_status: a head, and the end.
Status(s, code) == [s EXCEPT !.phase = "done", !.status = code, !.wire = "fin"]
Reset(s) == [s EXCEPT !.phase = "done", !.wire = "reset"]

-----------------------------------------------------------------------------
\* The head: a connection-specific field, then a declared length.
ReceiveHead(declared, forbidden, head, deadline) ==
  /\ stream.phase = "idle"
  /\ LET s == [stream EXCEPT !.declared = declared, !.head = head] IN
     stream' = IF forbidden THEN Status(s, 400)
               ELSE IF declared > H3MaxBody THEN Status(s, 413)
               ELSE [s EXCEPT !.phase = "reading", !.deadline = deadline]

\* The peer, ahead of what is read.
PeerSends ==
  /\ stream.phase = "reading" /\ stream.peer = "open" /\ stream.sent < H3MaxSent
  /\ stream' = [stream EXCEPT !.sent = @ + 1]

PeerEnds(how) ==
  /\ stream.phase = "reading" /\ stream.peer = "open"
  /\ stream' = [stream EXCEPT !.peer = how]

\* read_body: a chunk; a failing stream may swallow what has not been read.
ReadChunk(n) ==
  /\ stream.phase = "reading" /\ stream.got + n <= stream.sent
  /\ stream' = IF stream.got + n > H3MaxBody THEN Status(stream, 413)
               ELSE [stream EXCEPT !.got = @ + n]

\* The clean end of the body: complete, and as long as it was declared?
BodyEnds ==
  /\ stream.phase = "reading" /\ stream.peer = "fin" /\ stream.got = stream.sent
  /\ stream' = IF stream.declared \in {Undeclared, stream.got}
               THEN [stream EXCEPT !.phase = "handling"]
               ELSE Status(stream, 400)

BodyFails ==
  /\ stream.phase = "reading" /\ stream.peer = "reset"
  /\ stream' = Reset(stream)

\* One deadline over the body and the handler.
DeadlinePassed == stream.deadline > 0 /\ stream.clock >= stream.deadline

ReadTimesOut ==
  /\ stream.phase = "reading" /\ DeadlinePassed
  /\ stream' = Status(stream, 408)

HandlerTimesOut ==
  /\ stream.phase = "handling" /\ DeadlinePassed
  /\ stream' = [stream EXCEPT !.phase = "sending", !.status = 408, !.body = 1]

HandlerAnswers(length) ==
  /\ stream.phase = "handling"
  /\ stream' = [stream EXCEPT !.phase = "sending", !.status = 200, !.body = length]

-----------------------------------------------------------------------------
(* send_response: the head, then the body unless the request was a HEAD.    *)

SendData ==
  /\ stream.phase = "sending" /\ ~stream.head /\ stream.written < stream.body
  /\ stream' = [stream EXCEPT !.written = @ + 1]

\* Mutant: the stream is dropped, and quinn finishes what is dropped.
BodyBreaks_dropped ==
  /\ stream.phase = "sending" /\ ~stream.head /\ stream.written < stream.body
  /\ stream' = [stream EXCEPT !.phase = "done", !.wire = "fin"]

\* The answer's own stream fails.
BodyBreaks ==
  /\ stream.phase = "sending" /\ ~stream.head /\ stream.written < stream.body
  /\ stream' = Reset(stream)

\* ... or panics: nothing resets the send stream, and quinn finishes what is dropped.
BodyPanics ==
  /\ stream.phase = "sending" /\ ~stream.head /\ stream.written < stream.body
  /\ stream' = [stream EXCEPT !.phase = "done", !.wire = "fin", !.panicked = TRUE]

Finish ==
  /\ stream.phase = "sending" /\ (stream.head \/ stream.written = stream.body)
  /\ stream' = [stream EXCEPT !.phase = "done", !.wire = "fin"]

\* The transport fails under a write.
TransportFails ==
  /\ stream.phase = "sending"
  /\ stream' = [stream EXCEPT !.phase = "done", !.wire = "lost"]

H3rTick ==
  /\ stream.phase \in {"reading", "handling"} /\ stream.deadline > 0 /\ ~DeadlinePassed
  /\ stream' = [stream EXCEPT !.clock = @ + 1]

H3rNext ==
  \/ \E declared \in {Undeclared} \cup 0..H3MaxSent, forbidden, head \in BOOLEAN,
        deadline \in H3Deadlines : ReceiveHead(declared, forbidden, head, deadline)
  \/ PeerSends \/ \E how \in {"fin", "reset"} : PeerEnds(how)
  \/ \E n \in 1..H3MaxSent : ReadChunk(n)
  \/ BodyEnds \/ BodyFails \/ ReadTimesOut \/ HandlerTimesOut
  \/ \E length \in 0..2 : HandlerAnswers(length)
  \/ SendData \/ BodyBreaks \/ BodyPanics \/ Finish \/ TransportFails \/ H3rTick

-----------------------------------------------------------------------------
\* Nothing is ever taken for more than it is: a handler runs only on a body that
\* the peer finished, as long as declared and within the cap, and an answer that
\* ends cleanly on the wire is all of the answer, unless the stream that makes it
\* panicked: what it had written by then ends cleanly too.
WholeOrRefused ==
  /\ stream.phase = "handling" =>
       /\ stream.peer = "fin" /\ stream.got = stream.sent /\ stream.got <= H3MaxBody
       /\ stream.declared # Undeclared => stream.got = stream.declared
  /\ stream.wire = "fin" /\ stream.status = 200 /\ ~stream.head /\ ~stream.panicked =>
       stream.written = stream.body
=============================================================================
