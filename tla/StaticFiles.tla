------------------------------ MODULE StaticFiles ------------------------------
(***************************************************************************)
(* fs.rs: how StaticFiles finds a file, and what it answers about it: the   *)
(* preconditions, ranges and validators, before a byte is read.             *)
(*                                                                         *)
(* A version of a file is [second, length]: when it was last modified and   *)
(* how long it is, which is all the validators are made of.                 *)
(***************************************************************************)
EXTENDS Naturals

-----------------------------------------------------------------------------
(* What a path leads to.  spelling: of the request's path; at: of the       *)
(* target; inside: the target resolves within the root; index: the index    *)
(* file of a directory.                                                     *)

Places == [spelling: {"plain", "separator", "dots"}, at: {"missing", "file", "directory"},
           inside: BOOLEAN, index: {"none", "inside", "outside"}, slash: BOOLEAN]

InDirectory(place, listed) ==
  CASE place.index = "inside"  -> "file"
    [] place.index = "outside" -> "404"
    [] OTHER -> IF ~listed THEN "404" ELSE IF place.slash THEN "listing" ELSE "308"

\* serve, as far as the second look at the target.
Located(place, listed) ==
  IF place.spelling # "plain" \/ place.at = "missing" \/ ~place.inside THEN "404"
  ELSE IF place.at = "file" THEN "file" ELSE InDirectory(place, listed)

-----------------------------------------------------------------------------
(* Validators: entity_tag, etag_matches, if_range_matches, is_modified_after.*)

EntityTag(v) == <<v.second, v.length>>
AnyTag == <<>>
NoTag == <<0>>
NoDate == 0

EtagMatches(tag, v) == tag \in {AnyTag, EntityTag(v)}
IfRangeMatches(tag, date, v) == IF tag # NoTag THEN tag = EntityTag(v) ELSE date = v.second

\* RFC 9110 13.2.2: a tag silences the date beside it.
PreconditionFails(q, v) ==
  IF q.ifMatch # NoTag THEN ~EtagMatches(q.ifMatch, v)
  ELSE q.ifUnmodified # NoDate /\ v.second > q.ifUnmodified

NotModified(q, v) ==
  IF q.ifNoneMatch # NoTag THEN EtagMatches(q.ifNoneMatch, v)
  ELSE q.ifModified # NoDate /\ v.second <= q.ifModified

-----------------------------------------------------------------------------
(* parse_range: first and last are inclusive; a suffix counts from the end. *)

Span(kind, first, last) == [kind |-> kind, first |-> first, last |-> last]
WholeFile == Span("absent", 0, 0)

Within(first, last, length) ==
  IF length = 0 \/ first > last \/ first >= length THEN Span("unsatisfiable", 0, 0)
  ELSE Span("satisfiable", first, last)

ParseRange(r, length) ==
  CASE r.kind = "from"   -> Within(r.first, IF length = 0 THEN 0 ELSE length - 1, length)
    [] r.kind = "span"   -> Within(r.first, IF r.last < length THEN r.last
                                            ELSE IF length = 0 THEN 0 ELSE length - 1, length)
    [] r.kind = "suffix" -> IF r.last = 0 THEN Span("unsatisfiable", 0, 0)
                            ELSE Within(IF r.last > length THEN 0 ELSE length - r.last,
                                        IF length = 0 THEN 0 ELSE length - 1, length)
    [] OTHER             -> WholeFile

\* If-Range retracts the range, one that cannot be satisfied too.
RangeOf(q, v) ==
  IF (q.ifRangeTag # NoTag \/ q.ifRangeDate # NoDate)
       /\ ~IfRangeMatches(q.ifRangeTag, q.ifRangeDate, v)
  THEN WholeFile ELSE ParseRange(q.range, v.length)

-----------------------------------------------------------------------------
\* declared: Content-Length, or "none"; ranges: Accept-Ranges; tag: the ETag.
Answered(status) ==
  [status |-> status, first |-> 0, count |-> 0, stream |-> FALSE, declared |-> FALSE,
   ranges |-> FALSE, tag |-> NoTag, date |-> NoDate, coding |-> "identity"]

Validated(answer, v) == [answer EXCEPT !.tag = EntityTag(v), !.date = v.second]

Content(status, v, first, count) ==
  Validated([Answered(status) EXCEPT !.first = first, !.count = count, !.stream = TRUE,
                                     !.declared = TRUE, !.ranges = TRUE], v)

ForSpan(span, v) ==
  CASE span.kind = "unsatisfiable" -> [Answered(416) EXCEPT !.ranges = TRUE]
    [] span.kind = "satisfiable"   -> Content(206, v, span.first, span.last - span.first + 1)
    [] OTHER                       -> Content(200, v, 0, v.length)

\* The answer that the stat of the file decides on.
FileAnswer(q, v) ==
  IF PreconditionFails(q, v) THEN Answered(412)
  ELSE IF NotModified(q, v) THEN Validated(Answered(304), v)
  ELSE ForSpan(RangeOf(q, v), v)
=============================================================================
