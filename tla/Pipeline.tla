------------------------------- MODULE Pipeline -------------------------------
(***************************************************************************)
(* One request through the engine's respond and the layers of the onion:    *)
(* the refusals that never reach it, the layers in the order build leaves   *)
(* them, the ways out of it other than returning (a layer that answers on   *)
(* its own, a panic, the deadline), and what handle adds on the way out.    *)
(*                                                                         *)
(* The layers are the framework's and the plugins'; a gate is one an        *)
(* application writes, which may refuse a call or panic.  A renderer sets   *)
(* no Vary of its own: what it sets wins over what the layers said.  The    *)
(* JSON errors are installed within the compression, as whatever reads a    *)
(* body has to be.                                                          *)
(***************************************************************************)
EXTENDS Compression, FiniteSets

CONSTANTS
  Requests,   \* of NoRequest's fields; absolute: the target names a site
  Installs,   \* sequences of layers, in the order they were installed
  Scopes,     \* the layers around the routes of a scope, in theirs
  Allowed,    \* allow_origin: a set of origins, or {"*"} for any
  Rendered    \* the statuses on_error renders

ASSUME PipeInputs ==
  /\ \A q \in Requests : q.accept \in AcceptEncodings
  /\ Installs \subseteq Seq(STRING) /\ Scopes \subseteq Seq(STRING)

NoRequest == [preflight |-> FALSE, head |-> FALSE, origin |-> "none", accept |-> <<>>,
              large |-> FALSE, framings |-> 1, hosts |-> 1, absolute |-> FALSE,
              http11 |-> TRUE]

Plain(status) ==
  [status |-> status, coding |-> "identity", coded |-> "identity", stream |-> FALSE,
   count |-> 1, declared |-> TRUE, ranges |-> FALSE, vary |-> {}, acao |-> "none",
   sec |-> "none", alt |-> FALSE, id |-> FALSE, must |-> FALSE,
   type |-> "text", body |-> "text"]

\* at: where the request is; idx: Next::idx, or the layer whose turn it is to
\* look at the answer; chain: the middleware; scoped: it includes a scope's; req,
\* res: request and answer.
VARIABLE onion

PipeRest == [at |-> "rest", idx |-> 0, chain |-> <<>>, scoped |-> FALSE, req |-> NoRequest, res |-> Plain(0)]
PipeInit == onion = PipeRest
PipeAtRest == onion.at = "rest"

-----------------------------------------------------------------------------
(* AppBuilder::build.                                                       *)

Phases == <<"Setup", "Monitoring", "Plugins", "Call", "Fallback">>

PhaseOf(layer) ==
  CASE layer \in {"security", "altsvc", "outer gate"} -> "Setup"
    [] layer \in {"log", "pages"} -> "Monitoring"
    [] layer \in {"cors", "compression", "json", "gate"} -> "Plugins"
    [] OTHER -> "Call"

PhaseIndex(layer) == CHOOSE p \in DOMAIN Phases : Phases[p] = PhaseOf(layer)

\* A stable sort: what goes before a layer is of an earlier phase, or of the same
\* one and pushed earlier.
Sorted(layers) ==
  LET phase == [k \in DOMAIN layers |-> PhaseIndex(layers[k])]
      Earlier(j) == {k \in DOMAIN layers : phase[k] < phase[j] \/ (phase[k] = phase[j] /\ k < j)}
      Filler(place) == CHOOSE j \in DOMAIN layers : Cardinality(Earlier(j)) + 1 = place
  IN [place \in DOMAIN layers |-> layers[Filler(place)]]

\* The error pages and the security headers are pushed last.
Built(installed) ==
  Sorted(installed \o (IF Rendered = {} THEN <<>> ELSE <<"pages">>) \o <<"security">>)

-----------------------------------------------------------------------------
(* respond, up to the pipeline.                                             *)

\* Two Host fields, or none where the target is not in absolute form.
BadHost(q) == q.http11 /\ (q.hosts > 1 \/ (q.hosts = 0 /\ ~q.absolute))

\* Content-Length over the limit; both framings; no site, or two.
RefusalOf(q) ==
  IF q.large THEN 413
  ELSE IF q.framings = 2 \/ BadHost(q) THEN 400
  ELSE 0

Respond(q, installed) ==
  /\ onion.at = "rest"
  /\ onion' = LET refusal == RefusalOf(q) IN
       IF refusal # 0
         THEN [onion EXCEPT !.at = "answered", !.req = q, !.res = Plain(refusal)]
         ELSE [at |-> "inward", idx |-> 1, chain |-> Built(installed), scoped |-> FALSE,
               req |-> q, res |-> Plain(0)]

-----------------------------------------------------------------------------
(* Next::run, inwards.                                                      *)

Layer == onion.chain[onion.idx]
Answering(res) == onion' = [onion EXCEPT !.at = "outward", !.idx = @ - 1, !.res = res]

\* vary_on: nothing is lost, and nothing is said twice.
VaryOn(res, field) == [res EXCEPT !.vary = @ \cup {field}]

OriginAllowed(q) == q.origin # "none" /\ (Allowed = {"*"} \/ q.origin \in Allowed)

ApplyCommon(res, q) ==
  IF ~OriginAllowed(q) THEN res
  ELSE [res EXCEPT !.acao = IF Allowed = {"*"} THEN "*" ELSE q.origin]

\* Mutant: only an answer that names an origin is marked.
Cors_allowedOnly(res, q) ==
  IF OriginAllowed(q) THEN VaryOn(ApplyCommon(res, q), "origin") ELSE res

Cors(res, q) == VaryOn(ApplyCommon(res, q), "origin")

Inward ==
  /\ onion.at = "inward" /\ onion.idx <= Len(onion.chain)
  /\ IF Layer = "cors" /\ onion.req.preflight
       THEN Answering(Cors(Plain(204), onion.req))
       ELSE onion' = [onion EXCEPT !.idx = @ + 1]

Gates == {"outer gate", "gate", "inner gate", "scope gate"}

\* An application's layer answers without calling next.  What is within dispatch
\* answers a HEAD like a handler: the body goes.
GateRefuses ==
  /\ onion.at = "inward" /\ onion.idx <= Len(onion.chain) /\ Layer \in Gates
  /\ Answering([Plain(401) EXCEPT !.must = TRUE,
                  !.body = IF onion.req.head /\ Layer = "scope gate" THEN "none" ELSE @])

Spent == onion.at = "inward" /\ onion.idx = Len(onion.chain) + 1

\* ScopedHandler: the route has a chain of its own, which no phase reorders; a
\* child's begins with a copy of its parent's.
EnterScope(layers) ==
  /\ Spent /\ ~onion.scoped
  /\ onion' = [onion EXCEPT !.scoped = TRUE, !.chain = @ \o layers]

\* The chain is spent: the router answers, or the handler it found.  One that
\* sets a security header of its own did so on purpose.  The router answers
\* outside every scope.
Handle(status, own) ==
  /\ Spent /\ (onion.scoped => status \in {200, 401})
  /\ Answering([Plain(status) EXCEPT !.must = status \in {401, 405},
                  !.count = MinSize, !.body = IF onion.req.head THEN "none" ELSE @,
                  !.sec = IF own THEN "own" ELSE "none"])

-----------------------------------------------------------------------------
(* ... and outwards.                                                        *)

\* SecurityHeaders::apply_to: the application wins.
ApplyTo(res) == [res EXCEPT !.sec = IF @ = "none" THEN "default" ELSE @]

\* ErrorPages: every header but the ones that describe the replaced body.
Pages(res) ==
  IF res.status \notin Rendered THEN res
  ELSE [res EXCEPT !.body = "page", !.type = "page", !.coded = "identity",
                   !.coding = "identity", !.declared = FALSE]

\* Mutant: the length of the message stays.
JsonErrors_length(res, q) ==
  IF res.status < 400 \/ res.type # "text" \/ (res.body = "none" /\ ~q.head) THEN res
  ELSE [res EXCEPT !.type = "json", !.count = @ + 1, !.body = IF @ = "none" THEN @ ELSE "envelope"]

\* JsonErrors: the message moves into an envelope; of a HEAD, whose body is
\* gone, only the type is corrected.  No length survives.
JsonErrors(res, q) ==
  IF res.status < 400 \/ res.type # "text" \/ (res.body = "none" /\ ~q.head) THEN res
  ELSE [res EXCEPT !.type = "json", !.declared = FALSE, !.count = @ + 1,
                   !.body = IF @ = "none" THEN @ ELSE "envelope"]

Squeezed(res, q) ==
  LET out == Compress(res, q.accept, q.head)
  IN VaryOn([out EXCEPT !.coded = out.coding], "accept-encoding")

After(layer, res, q) ==
  CASE layer = "security"    -> ApplyTo(res)
    [] layer = "altsvc"      -> [res EXCEPT !.alt = TRUE]
    [] layer = "pages"       -> Pages(res)
    [] layer = "cors"        -> Cors(res, q)
    [] layer = "log"         -> [res EXCEPT !.id = TRUE]
    [] layer = "json"        -> JsonErrors(res, q)
    [] layer = "compression" -> Squeezed(res, q)
    [] OTHER                 -> res

Outward ==
  /\ onion.at = "outward" /\ onion.idx > 0
  /\ onion' = [onion EXCEPT !.idx = @ - 1, !.res = After(Layer, onion.res, onion.req)]

Emerges ==
  /\ onion.at = "outward" /\ onion.idx = 0
  /\ onion' = [onion EXCEPT !.at = "answered"]

\* process_call: a handler or a gate panics; the layers around it never see
\* the answer.
Panics ==
  /\ onion.at \in {"inward", "outward"}
  /\ IF onion.idx \in DOMAIN onion.chain THEN Layer \in Gates ELSE onion.at = "inward"
  /\ onion' = [onion EXCEPT !.at = "answered", !.idx = 0, !.res = Plain(500)]

\* The deadline drops the future of the whole pipeline.
TimesOut ==
  /\ onion.at \in {"inward", "outward"}
  /\ onion' = [onion EXCEPT !.at = "answered", !.idx = 0, !.res = Plain(408)]

\* handle.
Dressed(res) == ApplyTo(res)

SendAnswer ==
  /\ onion.at = "answered"
  /\ onion' = [onion EXCEPT !.at = "sent", !.res = Dressed(onion.res)]

Forgotten == onion.at = "sent" /\ onion' = PipeRest

PipeNext ==
  \/ \E q \in Requests, i \in Installs : Respond(q, i)
  \/ Inward
  \/ GateRefuses
  \/ \E l \in Scopes : EnterScope(l)
  \/ \E s \in {200, 401, 404, 405}, own \in BOOLEAN : Handle(s, own)
  \/ Outward
  \/ Emerges
  \/ Panics
  \/ TimesOut
  \/ SendAnswer
  \/ Forgotten

-----------------------------------------------------------------------------
(* Properties.                                                              *)

Installed(layer) == layer \in {onion.chain[k] : k \in DOMAIN onion.chain}

\* What a shared cache may keep, and for whom it keeps it.
Cacheable == onion.at = "sent" /\ ~onion.req.preflight /\ onion.res.status \in {200, 404, 405}

Keyed(q) ==
  /\ "origin" \in onion.res.vary => q.origin = onion.req.origin
  /\ "accept-encoding" \in onion.res.vary => q.accept = onion.req.accept

\* An answer that a shared cache keeps is right for every request it would be
\* given to by its Vary: it is in a coding that request accepts, and the origin
\* it comes from, when that is an allowed one, may read it -- in whatever order
\* CORS, compression and the error pages were installed.
CacheServesRight ==
  Cacheable =>
    \A q \in {p \in Requests : ~p.preflight /\ Keyed(p)} :
      /\ onion.res.coded # "identity" => Offer(q.accept, onion.res.coded).q > 0
      /\ OriginAllowed(q) /\ Installed("cors")
           => onion.res.acao \in {"*", q.origin}

\* Every answer leaves with the security headers, the application's own where
\* it set them, whichever way it came about: returned, refused before there was
\* a pipeline, short-circuited, replaced, cut off by a panic or by the deadline.
\* What describes a body -- its coding, its type, its length -- describes the one
\* that is sent, whichever layers wrote it anew, and a 401 or a 405 keeps the
\* header it must have when its page is replaced.  An answer of the router's
\* carries the request id when calls are logged, and Alt-Svc when HTTP/3 is
\* advertised, on an error page too.
AnswersDressed ==
  onion.at = "sent" =>
    /\ onion.res.sec # "none"
    /\ onion.res.coding = onion.res.coded
    /\ onion.res.declared /\ onion.res.coding = "identity" => onion.res.type = "text"
    /\ onion.res.body # "none" =>
         onion.res.type = (CASE onion.res.body = "envelope" -> "json" [] OTHER -> onion.res.body)
    /\ onion.res.status \in {401, 405} => onion.res.must
    /\ onion.res.status \in {404, 405} =>
         (Installed("log") => onion.res.id) /\ (Installed("altsvc") => onion.res.alt)
=============================================================================
