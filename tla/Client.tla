--------------------------------- MODULE Client ---------------------------------
(***************************************************************************)
(* churust-client: one request and the redirects that follow it, under one  *)
(* deadline, up to the body that the caller is given.                       *)
(*                                                                         *)
(* A target is a scheme and a host (a port is part of the host); headers    *)
(* are the names that something depends on.  The servers answer anything, a *)
(* stack of codings included; hyper's pool of connections is left out.      *)
(***************************************************************************)
EXTENDS Naturals, Sequences

CONSTANTS
  ClHosts,         \* hosts a redirect may name
  ClMaxRedirects,  \* max_redirects
  ClMaxBytes,      \* max_response_bytes
  ClMaxCodings     \* codings a server may apply to one answer (a bound)

ASSUME ClLimits == ClMaxRedirects \in Nat /\ ClMaxBytes \in Nat /\ ClMaxCodings \in Nat

Credentials == {"authorization", "cookie", "proxy-authorization"}
EntityHeaders == {"content-type", "content-length", "content-encoding", "transfer-encoding"}
Described == {"authorization", "content-type"}   \* one of each kind
Codings == {"gzip", "unknown"}                    \* one that is inflated, one that is not
Stacks == UNION {[1..n -> Codings] : n \in 0..ClMaxCodings}
Uris == [scheme: {"http", "https", "other"}, host: ClHosts]

\* asked, headers: of the builder; defaults: of the client; stripped: dropped for
\* the rest of the exchange; sent: the names on the last request; visited: the
\* targets so far; got: the body, with the codings that its headers name, the ones
\* it is still under (both in the order they were applied), and, as history, the
\* ones the server applied.
VARIABLE fetch

NoUri == [scheme |-> "none", host |-> "none"]
Relative == [NoUri EXCEPT !.scheme = "relative"]
Unreadable == [NoUri EXCEPT !.scheme = "unreadable"]
NoBody == [length |-> 0, codings |-> <<>>, layers |-> <<>>, applied |-> <<>>]

NotStarted ==
  [phase |-> "idle", uri |-> NoUri, asked |-> "none", method |-> "none", body |-> FALSE,
   headers |-> {}, defaults |-> {}, stripped |-> {}, inflate |-> FALSE,
   sent |-> {}, visited |-> <<>>, got |-> NoBody, end |-> "none"]

ClInit == fetch = NotStarted

ClAtRest == fetch.phase = "idle"

ClFails(error) == [NotStarted EXCEPT !.phase = "over", !.end = error]

-----------------------------------------------------------------------------
\* RequestBuilder::send, of a builder that has met an error and of one that has not.
ClBroken == fetch.phase = "idle" /\ fetch' = ClFails("request")

ClSend(uri, method, headers, defaults, inflate) ==
  /\ fetch.phase = "idle"
  /\ fetch' = [fetch EXCEPT !.phase = "ready", !.uri = uri, !.asked = method,
                            !.method = method, !.body = method = "POST", !.headers = headers,
                            !.defaults = defaults, !.inflate = inflate]

CheckScheme == fetch.uri.scheme \in {"http", "https"}

\* Mutant: the defaults are set on every hop, whatever was dropped.
RequestHeaders_defaults == fetch.defaults \cup fetch.headers

RequestHeaders == (fetch.defaults \ fetch.stripped) \cup fetch.headers

\* The head of the loop.
Transmit ==
  /\ fetch.phase = "ready"
  /\ fetch' = IF CheckScheme
              THEN [fetch EXCEPT !.phase = "waiting", !.sent = RequestHeaders,
                                 !.visited = Append(@, fetch.uri)]
              ELSE ClFails("url")

TransportFailure ==
  /\ fetch.phase \in {"waiting", "reading"}
  /\ fetch' = ClFails(IF fetch.phase = "waiting" THEN "transport" ELSE "body")

\* The timeout of `send' is around all of it.
ClTimesOut ==
  /\ fetch.phase \in {"ready", "waiting", "reading"}
  /\ fetch' = ClFails("timeout")

-----------------------------------------------------------------------------
(* A redirect.                                                              *)

SameOrigin(a, b) == a.scheme = b.scheme /\ a.host = b.host

Drop(f, names) == [f EXCEPT !.headers = @ \ names, !.stripped = @ \cup names]

\* A relative target stays where it is.
ResolveTarget(location) == IF location = Relative THEN fetch.uri ELSE location

LeaveOrigin(f, uri) ==
  IF SameOrigin(f.uri, uri) THEN f ELSE Drop(f, Credentials)

BecomeGet(f, flips) ==
  IF flips /\ f.method # "HEAD"
  THEN Drop([f EXCEPT !.method = "GET", !.body = FALSE], EntityHeaders) ELSE f

\* status: "flips" is 301, 302 and 303, "keeps" is 307 and 308.
Redirected(status, location) ==
  /\ fetch.phase = "waiting" /\ ClMaxRedirects > 0
  /\ LET uri == ResolveTarget(location) IN
     fetch' = IF Len(fetch.visited) > ClMaxRedirects THEN ClFails("tooManyRedirects")
              ELSE IF location = Unreadable THEN ClFails("url")
              ELSE IF fetch.uri.scheme = "https" /\ uri.scheme = "http" THEN ClFails("url")
              ELSE [BecomeGet(LeaveOrigin(fetch, uri), status = "flips") EXCEPT
                      !.phase = "ready", !.uri = uri]

\* Anything else, a redirect without a usable Location included.
ClAnswered(codings) ==
  /\ fetch.phase = "waiting"
  /\ fetch' = [NotStarted EXCEPT !.phase = "reading", !.inflate = fetch.inflate,
                                 !.got = [NoBody EXCEPT !.codings = codings, !.layers = codings,
                                                        !.applied = codings]]

-----------------------------------------------------------------------------
(* The body: `wire' bytes long, and `full' when it is inflated.             *)

\* The first coding of Content-Encoding decides, which is the innermost one.
Inflates == fetch.inflate /\ fetch.got.codings # <<>> /\ Head(fetch.got.codings) = "gzip"

\* ... while what there is to inflate is the outermost one.
Readable == LET on == fetch.got.layers IN on[Len(on)] = "gzip"

\* maybe_decompress: one coding is undone and the whole header goes; of an unknown
\* coding nothing is touched.
Decompressed(wire, full) ==
  IF Inflates
  THEN [fetch.got EXCEPT !.length = full, !.codings = <<>>, !.layers = SubSeq(@, 1, Len(@) - 1)]
  ELSE [fetch.got EXCEPT !.length = wire]

\* Limited, and LimitedWriter.
TooLarge(wire, full) == wire > ClMaxBytes \/ (Inflates /\ Readable /\ full > ClMaxBytes)

ReadBody(wire, full, corrupt) ==
  /\ fetch.phase = "reading"
  /\ fetch' = IF TooLarge(wire, full) THEN ClFails("bodyTooLarge")
              ELSE IF Inflates /\ (corrupt \/ ~Readable) THEN ClFails("decode")
              ELSE [fetch EXCEPT !.phase = "over", !.end = "ok", !.got = Decompressed(wire, full)]

ClNext ==
  \/ ClAtRest /\ \E uri \in Uris, method \in {"GET", "HEAD", "POST"},
                     headers, defaults \in SUBSET Described, inflate \in BOOLEAN :
       ClSend(uri, method, headers, defaults, inflate)
  \/ ClBroken \/ Transmit \/ TransportFailure \/ ClTimesOut
  \/ \E status \in {"flips", "keeps"}, location \in Uris \cup {Relative, Unreadable} :
       Redirected(status, location)
  \/ \E codings \in Stacks : ClAnswered(codings)
  \/ \E wire, full \in 0..(ClMaxBytes + 1), corrupt \in BOOLEAN : ReadBody(wire, full, corrupt)

-----------------------------------------------------------------------------
\* However long the chain, no request carries a credential to an origin other
\* than the first one, nor back to that one once the chain has left it; none
\* describes a body that a redirect has emptied, none follows https by http; what
\* the caller reads is within the bound after inflation; and it is under just the
\* codings that its headers name, but for one case: a stack of codings of which
\* one was undone leaves without any of them named (see BodyIsAsDescribed).
RedirectsLeakNothing ==
  /\ fetch.phase = "waiting" =>
       /\ fetch.sent \cap Credentials # {} =>
            \A k \in DOMAIN fetch.visited : SameOrigin(fetch.visited[k], fetch.visited[1])
       /\ fetch.method # fetch.asked => ~fetch.body /\ fetch.sent \cap EntityHeaders = {}
       /\ \A k \in DOMAIN fetch.visited :
            k > 1 /\ fetch.visited[k - 1].scheme = "https" => fetch.visited[k].scheme = "https"
       /\ Len(fetch.visited) <= ClMaxRedirects + 1
  /\ fetch.end = "ok" =>
       /\ fetch.got.length <= ClMaxBytes
       /\ fetch.got.codings # fetch.got.layers =>
            fetch.got.codings = <<>> /\ Len(fetch.got.applied) > 1

\* "Inflate a gzip/deflate body when `Content-Encoding` says so, then strip the
\* headers that no longer describe the payload" (maybe_decompress): what the caller
\* reads is under just the codings that the headers left name.
BodyIsAsDescribed == fetch.end = "ok" => fetch.got.codings = fetch.got.layers
=============================================================================
