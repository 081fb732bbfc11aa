------------------------------- MODULE Multipart -------------------------------
(***************************************************************************)
(* multipart.rs: one body, two parsers.  The buffered one has all of it;    *)
(* the incremental one gets it in pieces cut anywhere and hands out content *)
(* it cannot take back.                                                     *)
(*                                                                         *)
(* A body is a sequence of symbols: the bytes delimiters are made of, a     *)
(* symbol for the boundary, for every other byte and for a Content-         *)
(* Disposition line with a name.  The handler reads fields or skips them.   *)
(***************************************************************************)
EXTENDS Naturals, Sequences

CONSTANTS
  MpBodies,      \* bodies
  MpHeaders,     \* the symbols of Content-Disposition lines
  MaxPadding,    \* MAX_TRANSPORT_PADDING
  MaxHeader,     \* MAX_PART_HEADER_BYTES
  MaxParts       \* MAX_PARTS

ASSUME MpLimits == {MaxPadding, MaxHeader, MaxParts} \subseteq Nat
ASSUME MpSymbols == \A body \in MpBodies : body \in Seq({body[k] : k \in DOMAIN body})

\* framed: the body; lo..hi: what of it is in the buffer; from: where the search
\* starts; phase: as in the source; op: the call the handler waits for, "skip"
\* for the rest of a part; parts: what the handler has been given; end: how the
\* last call went.
VARIABLE form

MpInit == form = [phase |-> "none", op |-> "idle", framed |-> <<>>, lo |-> 0, hi |-> 0,
                  from |-> 0, drained |-> FALSE, parts |-> <<>>, end |-> "none"]

MpAtRest == form.phase = "none"

-----------------------------------------------------------------------------
(* find and delimiter_tail                                                  *)

NewLine == <<"CR", "LF">>
Delimiter == NewLine \o <<"-", "-", "X">>

\* The first place at or after `from' where the needle is, or 0.
Find(s, needle, from) ==
  LET At == {k \in from..(Len(s) + 1 - Len(needle)) :
               SubSeq(s, k, k + Len(needle) - 1) = needle}
  IN IF At = {} THEN 0 ELSE CHOOSE k \in At : \A l \in At : k <= l

TailOf(kind, skip) == [kind |-> kind, skip |-> skip]
Undecided(atEnd) == TailOf(IF atEnd THEN "content" ELSE "needMore", 0)

Padding(after) ==
  CHOOSE k \in 0..Len(after) :
    /\ k <= MaxPadding /\ \A l \in 1..k : after[l] = "SP"
    /\ k = MaxPadding \/ k = Len(after) \/ after[k + 1] # "SP"

AfterPadding(line, pad, atEnd) ==
  IF line = <<>> \/ line = <<"CR">> THEN Undecided(atEnd)
  ELSE IF line[1] = "CR" /\ line[2] = "LF" THEN TailOf("part", pad + 2) ELSE TailOf("content", 0)

DelimiterTail(after, atEnd) ==
  IF after = <<"-">> THEN Undecided(atEnd)
  ELSE IF after # <<>> /\ Head(after) = "-"
  THEN TailOf(IF after[2] = "-" THEN "close" ELSE "content", 0)
  ELSE LET pad == Padding(after)
       IN AfterPadding(SubSeq(after, pad + 1, Len(after)), pad, atEnd)

-----------------------------------------------------------------------------
(* The head of a part: the name of the last Content-Disposition.            *)

NoName == "none"

NameIn(head) ==
  LET Named == {k \in DOMAIN head : head[k] \in MpHeaders}
  IN IF Named = {} THEN NoName ELSE head[CHOOSE k \in Named : \A l \in Named : l <= k]

Part(name, content) == [name |-> name, content |-> content, whole |-> TRUE]

-----------------------------------------------------------------------------
(* parse and push_part: the buffered parser.                                *)

Refusal == [status |-> "refused", parts |-> <<>>]

TailAt(s, hit) == DelimiterTail(SubSeq(s, hit + Len(Delimiter), Len(s)), TRUE)
AfterLine(s, hit) == hit + Len(Delimiter) + TailAt(s, hit).skip

\* The scan: a match that is content is passed over by one symbol.
LineFrom(s, at) ==
  LET Hits == {k \in at..(Len(s) + 1 - Len(Delimiter)) :
                 /\ SubSeq(s, k, k + Len(Delimiter) - 1) = Delimiter
                 /\ TailAt(s, k).kind # "content"}
  IN IF Hits = {} THEN 0 ELSE CHOOSE k \in Hits : \A l \in Hits : k <= l

\* Where the delimiter lines are, numbered from 0, or 0 after the last of them.
LineStarts(s) ==
  LET line[n \in Nat] ==
        IF n = 0 THEN LineFrom(s, 1)
        ELSE LET hit == line[n - 1]
             IN IF hit = 0 \/ TailAt(s, hit).kind = "close" THEN 0
                ELSE LineFrom(s, AfterLine(s, hit))
  IN line

\* What is between two lines; its first empty line ends the headers.
Between(s, n) == SubSeq(s, AfterLine(s, LineStarts(s)[n - 1]), LineStarts(s)[n] - 1)
Split(chunk) == Find(chunk, NewLine \o NewLine, 1)
ChunkName(chunk) == IF Split(chunk) = 0 THEN NoName ELSE NameIn(SubSeq(chunk, 1, Split(chunk) - 1))
PushPart(chunk) == Part(ChunkName(chunk), SubSeq(chunk, Split(chunk) + 4, Len(chunk)))

\* The body ends with a closing line, and every part before it can be pushed.
Closings(s) == {n \in 0..Len(s) : LineStarts(s)[n] # 0 /\ TailAt(s, LineStarts(s)[n]).kind = "close"}

Buffered(s) ==
  LET last == CHOOSE n \in Closings(s) : TRUE
  IN IF \/ Closings(s) = {}
        \/ \E n \in 1..last : ChunkName(Between(s, n)) = NoName
        \/ last > MaxParts
     THEN Refusal
     ELSE [status |-> "ok", parts |-> [n \in 1..last |-> PushPart(Between(s, n))]]

-----------------------------------------------------------------------------
(* The incremental parser: one action per turn of its loops.                *)

MpStart(body) ==
  /\ form.phase = "none"
  /\ form' = [form EXCEPT !.phase = "preamble", !.framed = NewLine \o body, !.hi = 2]

Buffer == SubSeq(form.framed, form.lo + 1, form.hi)
Scanning == form.op \in {"delimiter", "content", "skip"}
Hit == Find(Buffer, Delimiter, form.from + 1)
HitTail == DelimiterTail(SubSeq(Buffer, Hit + Len(Delimiter), Len(Buffer)), form.drained)
Blank == Find(Buffer, NewLine \o NewLine, 1)

\* Mutant: one symbol too few is held back.
Hold_short == Len(Delimiter) - 2

\* What could still be the start of a delimiter.
Hold == Len(Delimiter) - 1
Held == Len(Buffer) <= Hold

\* The loop cannot go on without more of the body.
Starved ==
  \/ Scanning /\ IF Hit = 0 THEN Held \/ form.op = "delimiter" ELSE HitTail.kind = "needMore"
  \/ form.op = "headers" /\ Blank = 0 /\ Len(Buffer) <= MaxHeader

\* A long preamble is not kept.
Kept == IF form.op = "delimiter" /\ Hit = 0 /\ ~Held THEN form.hi - Hold ELSE form.lo

Fill(n) ==
  /\ Starved /\ form.hi + n <= Len(form.framed)
  /\ form' = [form EXCEPT !.hi = @ + n, !.lo = Kept]

Drain ==
  /\ Starved /\ form.hi = Len(form.framed) /\ ~form.drained
  /\ form' = [form EXCEPT !.drained = TRUE, !.lo = Kept]

Fails(status) == [form EXCEPT !.op = "idle", !.phase = "failed", !.end = status]

Truncated ==
  /\ Starved /\ form.drained
  /\ form' = Fails("400")

\* classify_at says content: the search resumes one symbol further.
FalseMatch ==
  /\ Scanning /\ Hit > 0 /\ HitTail.kind = "content"
  /\ form' = IF form.op = "delimiter" THEN [form EXCEPT !.lo = @ + Hit]
             ELSE [form EXCEPT !.from = Hit]

\* Content goes to the handler, unless it skips the part.
Given(f, data) ==
  IF f.op = "skip" THEN [f EXCEPT !.parts[Len(f.parts)].whole = FALSE]
  ELSE IF f.op = "content" THEN [f EXCEPT !.parts[Len(f.parts)].content = @ \o data]
  ELSE f

\* What next_field goes on with.
MoveOn(f, phase) ==
  [f EXCEPT !.phase = phase, !.from = 0,
            !.op = IF f.op = "content" \/ phase = "done" THEN "idle" ELSE "headers",
            !.end = IF f.op # "content" /\ phase = "done" THEN "ok" ELSE @]

DelimiterLine ==
  /\ Scanning /\ Hit > 0 /\ HitTail.kind \in {"part", "close"}
  /\ LET given == Given(form, SubSeq(Buffer, 1, Hit - 1)) IN
     form' = IF HitTail.kind = "close" THEN MoveOn(given, "done")
             ELSE MoveOn([given EXCEPT !.lo = @ + Hit - 1 + Len(Delimiter) + HitTail.skip],
                         "afterDelimiter")

Emit ==
  /\ form.op \in {"content", "skip"} /\ Hit = 0 /\ ~Held
  /\ form' = [Given(form, SubSeq(Buffer, 1, Len(Buffer) - Hold)) EXCEPT
                !.lo = form.hi - Hold, !.from = 0,
                !.op = IF @ = "content" THEN "idle" ELSE @]

\* read_part_headers and the count of parts.
Headers ==
  /\ form.op = "headers" /\ Blank > 0
  /\ LET name == NameIn(SubSeq(Buffer, 1, Blank - 1)) IN
     form' = IF name = NoName THEN Fails("400")
             ELSE IF Len(form.parts) >= MaxParts THEN Fails("413")
             ELSE [form EXCEPT !.op = "idle", !.phase = "inPart", !.lo = @ + Blank + 3,
                               !.parts = Append(@, Part(name, <<>>))]

HeadersTooLarge ==
  /\ form.op = "headers" /\ Blank = 0 /\ Len(Buffer) > MaxHeader
  /\ form' = Fails("413")

-----------------------------------------------------------------------------
(* The handler.                                                             *)

NextField ==
  /\ form.op = "idle" /\ form.end = "none"
  /\ form.phase \in {"preamble", "inPart", "afterDelimiter", "done"}
  /\ form' = CASE form.phase = "inPart"   -> [form EXCEPT !.op = "skip"]
               [] form.phase = "preamble" -> [form EXCEPT !.op = "delimiter"]
               [] form.phase = "done"     -> [form EXCEPT !.end = "ok"]
               [] OTHER                   -> [form EXCEPT !.op = "headers"]

Chunk ==
  /\ form.op = "idle" /\ form.phase = "inPart"
  /\ form' = [form EXCEPT !.op = "content"]

MpNext ==
  \/ \E body \in MpBodies : MpStart(body)
  \/ \E n \in 1..3 : Fill(n)
  \/ Drain \/ Truncated \/ FalseMatch \/ DelimiterLine \/ Emit
  \/ Headers \/ HeadersTooLarge \/ NextField \/ Chunk

-----------------------------------------------------------------------------
\* The parts the incremental parser gives are those of the buffered one, up to
\* the contents that were skipped.
SameParts(given, parts) ==
  /\ Len(given) = Len(parts)
  /\ \A k \in DOMAIN given :
       /\ given[k].name = parts[k].name
       /\ given[k].whole => given[k].content = parts[k].content

\* Wherever the chunks are cut and whatever the handler skips, a body that the
\* buffered parser takes is taken apart in the same way by the incremental one,
\* which refuses it only for a header block beyond its bound.
StreamedAsBuffered ==
  form.end # "none" =>
    LET buffered == Buffered(form.framed) IN
    buffered.status = "ok" =>
      \/ form.end = "ok" /\ SameParts(form.parts, buffered.parts)
      \/ form.end = "413"
=============================================================================
