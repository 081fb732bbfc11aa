-------------------------------- MODULE Download --------------------------------
(***************************************************************************)
(* A file that StaticFiles serves behind Compression, and a client that     *)
(* fetches it, loses the connection, resumes, revalidates and asks by HEAD, *)
(* while the file is being replaced.                                        *)
(*                                                                         *)
(* The client resumes only what was announced as resumable.  A file is      *)
(* replaced as a whole, by another with other validators.                   *)
(***************************************************************************)
EXTENDS StaticFiles, Compression, FiniteSets

CONSTANTS
  Versions,       \* versions of the file
  Accepts,        \* Accept-Encoding headers
  Listed          \* list_directories

ASSUME Distinct ==
  /\ \A v, w \in Versions : v.second \in Nat /\ (v.second = w.second => v = w)
  /\ Accepts \subseteq AcceptEncodings

\* disk: the current version; stat: the one the answer is decided on; opened:
\* the one whose bytes are sent; raced: they differed; copy: the client's.
VARIABLE download

NoVersion == [second |-> 0, length |-> 0]

\* sources: where the bytes of the copy come from; have: how many they are.
NoCopy == [sources |-> {}, have |-> 0, whole |-> FALSE, resumable |-> FALSE,
           tag |-> NoTag, date |-> NoDate]

NoQuery == [method |-> "GET", accept |-> <<>>, range |-> WholeFile,
            ifMatch |-> NoTag, ifUnmodified |-> NoDate, ifNoneMatch |-> NoTag,
            ifModified |-> NoDate, ifRangeTag |-> NoTag, ifRangeDate |-> NoDate]

DlInit ==
  download = [phase |-> "unmounted", disk |-> NoVersion, query |-> NoQuery, stat |-> NoVersion,
              answer |-> Answered(0), opened |-> NoVersion, raced |-> FALSE, copy |-> NoCopy]

DlAtRest == download.phase = "unmounted"

Mount(v) ==
  /\ download.phase = "unmounted"
  /\ download' = [download EXCEPT !.phase = "idle", !.disk = v]

\* By a later version: what is older than the date of a copy is never newer.
Replace(v) ==
  /\ download.phase \in {"idle", "stated"} /\ v.second > download.disk.second
  /\ download' = [download EXCEPT !.disk = v]

-----------------------------------------------------------------------------
(* What the client asks.                                                    *)

Ask(q) == [download EXCEPT !.phase = "asked", !.query = q]

\* From the start, or a part of what it has nothing of.
Fetch(accept, range) ==
  /\ download.phase = "idle"
  /\ download' = Ask([NoQuery EXCEPT !.accept = accept, !.range = range])

\* A HEAD: the GET of the same headers, its body discarded by dispatch.
AskHead(accept) ==
  /\ download.phase = "idle"
  /\ download' = Ask([NoQuery EXCEPT !.method = "HEAD", !.accept = accept])

Resume(accept, byDate) ==
  LET c == download.copy IN
  /\ download.phase = "idle" /\ c.resumable /\ ~c.whole /\ c.have > 0
  /\ download' = Ask([NoQuery EXCEPT !.accept = accept, !.range = Span("from", c.have, 0),
                        !.ifRangeTag = IF byDate THEN NoTag ELSE c.tag,
                        !.ifRangeDate = IF byDate THEN c.date ELSE NoDate])

Revalidate(accept, byDate) ==
  LET c == download.copy IN
  /\ download.phase = "idle" /\ c.whole
  /\ download' = Ask([NoQuery EXCEPT !.accept = accept,
                        !.ifNoneMatch = IF byDate THEN NoTag ELSE c.tag,
                        !.ifModified = c.date])

\* Only if it is still what the client has.
AskSame(byDate) ==
  LET c == download.copy IN
  /\ download.phase = "idle" /\ c.whole
  /\ download' = Ask([NoQuery EXCEPT !.ifMatch = IF byDate THEN NoTag ELSE c.tag,
                                     !.ifUnmodified = c.date])

-----------------------------------------------------------------------------
(* The server.                                                              *)

Strip(answer, q) ==
  IF q.method = "HEAD" THEN [answer EXCEPT !.stream = FALSE, !.declared = TRUE] ELSE answer

Sent(answer, q) == Compress(Strip(answer, q), q.accept, q.method = "HEAD")

\* A path that leads to something else than the file.
InsteadOfFile(where) ==
  CASE where = "listing" -> [Answered(200) EXCEPT !.count = MinSize, !.declared = TRUE]
    [] where = "308"     -> Answered(308)
    [] OTHER             -> Answered(404)

Astray(where) ==
  /\ download.phase = "asked" /\ where # "file"
  /\ download' = [download EXCEPT !.phase = "astray",
                                  !.answer = Sent(InsteadOfFile(where), download.query)]

Forget == [download EXCEPT !.phase = "idle", !.query = NoQuery, !.stat = NoVersion,
                           !.opened = NoVersion, !.answer = Answered(0)]

Return == download.phase = "astray" /\ download' = Forget

\* The stat: an answer without a body, or one that is to be read from the file.
Stat(where) ==
  /\ download.phase = "asked" /\ where = "file"
  /\ download' = [download EXCEPT !.phase = "stated", !.stat = download.disk,
                                  !.answer = FileAnswer(download.query, download.disk)]

OpenFile ==
  /\ download.phase = "stated"
  /\ download' = [download EXCEPT !.phase = "answered", !.opened = download.disk,
                    !.raced = @ \/ download.disk # download.stat,
                    !.answer = Sent(@, download.query)]

-----------------------------------------------------------------------------
(* The client takes the answer, all of its body or the first n bytes.       *)

Source == <<download.opened, download.answer.coding>>

\* The part asked for is the rest of the copy, if it is still the same.
Continues == download.query.ifRangeTag # NoTag \/ download.query.ifRangeDate # NoDate

Received(c, n) ==
  LET a == download.answer IN
  IF a.status = 206 /\ Continues
  THEN [c EXCEPT !.sources = @ \cup {Source}, !.have = @ + n, !.whole = n = a.count]
  ELSE IF a.status \in {200, 206}
  THEN [sources |-> {Source}, have |-> n, whole |-> a.status = 200 /\ n = a.count,
        resumable |-> a.ranges /\ a.first = 0, tag |-> a.tag, date |-> a.date]
  ELSE IF a.status \in {412, 416} THEN NoCopy ELSE c

TakeAnswer(n) ==
  /\ download.phase = "answered" /\ n <= download.answer.count
  /\ download' = [Forget EXCEPT
                    !.copy = IF download.query.method = "HEAD" THEN @ ELSE Received(@, n)]

DlNext ==
  \/ \E v \in Versions : Mount(v) \/ Replace(v)
  \/ \E accept \in Accepts :
       \/ AskHead(accept)
       \/ \E range \in {WholeFile, Span("span", 1, 9), Span("suffix", 0, 2), Span("from", 9, 0)} :
            Fetch(accept, range)
       \/ \E byDate \in BOOLEAN : Resume(accept, byDate) \/ Revalidate(accept, byDate)
  \/ \E byDate \in BOOLEAN : AskSame(byDate)
  \/ \E where \in {Located(place, Listed) : place \in Places} : Astray(where) \/ Stat(where)
  \/ Return \/ OpenFile \/ \E n \in 0..3 : TakeAnswer(n)

-----------------------------------------------------------------------------
\* However often a download breaks off, the file changes and codings come and
\* go, the client's copy is of one version in one coding; a 304 is only said of
\* what it has; a range that its validator retracts is never refused; and no
\* coding is sent that the client has refused.
CopyIsOne ==
  /\ ~download.raced =>
       /\ Cardinality(download.copy.sources) <= 1
       /\ download.answer.status = 304 =>
            \A s \in download.copy.sources : s[1] = download.stat
       /\ download.answer.status = 416 /\ Continues =>
            \A s \in download.copy.sources : s[1] = download.stat
  /\ download.answer.coding # "identity" => Offer(download.query.accept, download.answer.coding).q > 0
=============================================================================
