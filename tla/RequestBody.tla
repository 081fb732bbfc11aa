------------------------------ MODULE RequestBody ------------------------------
(***************************************************************************)
(* A request body on its way to a handler: the server-wide cap around it    *)
(* (engine.rs), the cap of the route (router.rs) and the extractors that    *)
(* collect it, hand it on in pieces or try several readings of it           *)
(* (call.rs, extract.rs, churust-json).                                     *)
(*                                                                         *)
(* The client sends pieces of any size, and may break off.                  *)
(***************************************************************************)
EXTENDS Naturals, Sequences

CONSTANTS
  UpMaxBody,   \* max_body_bytes of the server
  UpMaxSent,   \* bound on what a client sends
  UpCaps,      \* sequences of max_body_bytes calls on one route
  UpReaders,   \* what a handler asks for: several extractors are nested Eithers
  UpContents   \* [media, readings]: a Content-Type, and what can be made of the body

ASSUME UpSizes ==
  /\ UpMaxBody \in Nat /\ UpMaxSent \in Nat
  /\ UpCaps \subseteq Seq(Nat)

\* reads, caps: of the route; total: the body's length; sent: so far; left: of
\* Limited; buf: what is collected; seen, given: counted by Payload and handed on
\* by it; failed: the first error it handed on; holed: a piece came after one.
VARIABLE upload

NoContent == [media |-> "none", readings |-> {}]

UpRest ==
  [at |-> "rest", reads |-> <<>>, caps |-> <<>>, content |-> NoContent, total |-> 0,
   sent |-> 0, peer |-> "open", left |-> 0, buf |-> 0, seen |-> 0, given |-> 0, failed |-> 0, holed |-> FALSE, status |-> 0]

UpInit == upload = UpRest
UpAtRest == upload.at = "rest"

AnsweredWith(u, status) == [u EXCEPT !.at = "over", !.status = status]

-----------------------------------------------------------------------------
(* Caps.                                                                    *)

Unlimited == UpMaxSent + 1

\* LimitedHandler: every max_body_bytes wraps what is there, and seeds its cap
\* before the inner one seeds its own.
RouteCap(caps) == IF caps = <<>> THEN Unlimited ELSE Head(caps)
Cap == RouteCap(upload.caps)

\* Content types: the ones Form and Json insist on.
RightType(x, media) ==
  CASE x = "form" -> media = "form"
    [] x = "json" -> media = "json"
    [] OTHER      -> TRUE

\* respond: a length declared over the limit is refused before anything is read;
\* the cap of the route is looked at only by what reads the body.
UpArrive(reads, caps, content, total, declared) ==
  /\ upload.at = "rest"
  /\ LET u == [UpRest EXCEPT !.at = "extracting", !.reads = reads, !.caps = caps,
                 !.content = content, !.total = total, !.left = UpMaxBody] IN
     upload' = IF declared /\ total > UpMaxBody THEN AnsweredWith(u, 413) ELSE u

\* A single Form or Json looks at the type first; an Either collects first.
UpExtract ==
  /\ upload.at = "extracting"
  /\ upload' = IF Len(upload.reads) = 1 /\ ~RightType(upload.reads[1], upload.content.media)
               THEN AnsweredWith(upload, 415)
               ELSE [upload EXCEPT !.at = IF upload.reads = <<"payload">> THEN "streaming"
                                          ELSE "collecting"]

-----------------------------------------------------------------------------
(* The stream: Limited, and what becomes of its items.                      *)

Sends(n) == upload.peer = "open" /\ n <= upload.total - upload.sent

\* After its error, Limited has room for nothing.
Arrived(n) ==
  [upload EXCEPT !.sent = @ + n, !.left = IF n > @ THEN 0 ELSE @ - n]
Fits(n) == n <= upload.left

\* receive_bytes has no way to report an error: it is an empty body.
CollectFails(u, status) ==
  IF u.reads = <<"receive">> THEN AnsweredWith([u EXCEPT !.buf = 0], 200)
  ELSE AnsweredWith([u EXCEPT !.buf = 0], status)

\* try_receive_bytes_within: checked before the buffer grows.
Gathered(u, n) ==
  IF u.buf + n > Cap THEN CollectFails(u, 413) ELSE [u EXCEPT !.buf = @ + n]

UpCollect(n) ==
  /\ upload.at = "collecting" /\ Sends(n)
  /\ upload' = IF Fits(n) THEN Gathered(Arrived(n), n) ELSE CollectFails(Arrived(n), 413)

\* An error item ends a handler that propagates it; another goes on.
HandsOnError(u, status, propagates) ==
  IF propagates THEN AnsweredWith(u, status)
  ELSE [u EXCEPT !.failed = IF @ = 0 THEN status ELSE @]

HandsOn(u, n) == [u EXCEPT !.given = @ + n, !.holed = @ \/ u.failed # 0]

\* Mutant: only what was handed on is counted.
Counted_given(u, n) == [u EXCEPT !.seen = IF @ + n > Cap THEN @ ELSE @ + n]

\* Payload counts what it is given, and never forgets having been over.
Counted(u, n) == [u EXCEPT !.seen = @ + n]

UpStream(n, propagates) ==
  /\ upload.at = "streaming" /\ Sends(n)
  /\ upload' = IF ~Fits(n) THEN HandsOnError(Arrived(n), 413, propagates)
               ELSE IF upload.seen + n > Cap
               THEN HandsOnError(Counted(Arrived(n), n), 413, propagates)
               ELSE HandsOn(Counted(Arrived(n), n), n)

UpBreaks(propagates) ==
  /\ upload.at \in {"collecting", "streaming"} /\ upload.peer = "open"
  /\ LET u == [upload EXCEPT !.peer = "broken"] IN
     upload' = IF upload.at = "collecting" THEN CollectFails(u, 400)
               ELSE HandsOnError(u, 400, propagates)

-----------------------------------------------------------------------------
(* The end of the body.                                                     *)

Takes(x) == RightType(x, upload.content.media) /\ (x \in upload.content.readings \/ x \in {"bytes", "receive"})

\* Either: each reads its own copy; the last one's complaint is the answer.
Complaint == IF RightType(upload.reads[Len(upload.reads)], upload.content.media) THEN 400 ELSE 415

Extracted ==
  IF \E k \in DOMAIN upload.reads : Takes(upload.reads[k]) THEN 200 ELSE Complaint

UpEnds ==
  /\ upload.at \in {"collecting", "streaming"}
  /\ upload.peer = "broken" \/ upload.sent = upload.total
  /\ LET u == [upload EXCEPT !.peer = IF @ = "open" THEN "fin" ELSE @] IN
     upload' = AnsweredWith(u, IF upload.at = "streaming" THEN 200 ELSE Extracted)

\* The deadline, or the client: the call is dropped with all that it holds.
UpDropped == upload.at # "rest" /\ upload' = UpRest

UpNext ==
  \/ UpAtRest /\ \E reads \in UpReaders, caps \in UpCaps, content \in UpContents,
                     total \in 0..UpMaxSent, declared \in BOOLEAN :
       UpArrive(reads, caps, content, total, declared)
  \/ UpExtract
  \/ \E n \in 1..UpMaxSent : UpCollect(n) \/ \E p \in BOOLEAN : UpStream(n, p)
  \/ \E p \in BOOLEAN : UpBreaks(p)
  \/ UpEnds
  \/ UpDropped

-----------------------------------------------------------------------------
Ceiling == IF Cap < UpMaxBody THEN Cap ELSE UpMaxBody

\* No more than the tighter of the two caps is ever buffered or handed on,
\* however the body is cut; a handler that carries on past an error item gets a
\* prefix of the body, never one with a hole in it; a handler that was given a
\* body by an extractor was given all of one that the client finished; and a
\* refusal is true: a 413 of a body over the cap, a 415 of one not read.
BodyWholeOrRefused ==
  /\ upload.buf <= Ceiling /\ upload.given <= Ceiling /\ ~upload.holed
  /\ upload.status = 200 /\ upload.reads \notin {<<"payload">>, <<"receive">>} =>
       upload.peer = "fin" /\ upload.buf = upload.total
  /\ upload.status = 200 /\ upload.failed = 0 /\ upload.reads = <<"payload">> =>
       upload.peer = "fin" /\ upload.given = upload.total
  /\ upload.status = 200 /\ upload.reads = <<"receive">> => upload.buf \in {0, upload.total}
  /\ upload.status = 413 => upload.total > Ceiling
  /\ upload.status = 415 /\ Len(upload.reads) = 1 => upload.sent = 0
=============================================================================
