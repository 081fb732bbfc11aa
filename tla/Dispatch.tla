------------------------------- MODULE Dispatch -------------------------------
(***************************************************************************)
(* The centre of the onion: an application registers its routes, is built,  *)
(* and App::dispatch then answers one request after the other (the router   *)
(* is not changed any more, so concurrent requests do not meet here).       *)
(*                                                                         *)
(* A request is a method, the decoded segments of its path, the spelling of *)
(* the path and the guards it passes.  What a handler answers is left out.  *)
(***************************************************************************)
EXTENDS Router, FiniteSets

CONSTANTS
  Routes,      \* the routes an application may register
  MaxRoutes,   \* bound on how many it does
  Requests,    \* the requests it may get
  Policies,    \* values of path_policy
  MaxSegments, \* max_path_segments, 0: unlimited
  NoAnswer

ASSUME Sizes == MaxRoutes \in Nat /\ MaxSegments \in Nat
ASSUME HttpMethods == {"GET", "HEAD", "OPTIONS"} \subseteq Method
ASSUME Routing == Routes \subseteq [method: Method, pattern: Seq(Segments), guards: SUBSET Guard]
ASSUME Asking == Requests \subseteq [method: Method, segs: Seq(Text \cup {Malformed}),
                                    spelling: {"plain", "alias", "asterisk"}, passes: SUBSET Guard]

VARIABLES
  policy,   \* config.path_policy
  built,    \* AppBuilder::build has been called
  request,  \* the request being answered
  answer    \* its answer

vars == <<inventory, policy, built, request, answer>>

Answers == [status: {200, 204, 308, 400, 404, 405, 414}, allow: SUBSET Method,
            route: Routes \cup {NoRoute}, params: Params, stripped: BOOLEAN]

ASSUME NoAnswerIsNone == NoAnswer \notin Requests \cup Answers

Answer(status, allow) ==
  [status |-> status, allow |-> allow, route |-> NoRoute, params |-> NoParams,
   stripped |-> FALSE]

Served(match, head) ==
  [status |-> 200, allow |-> {}, route |-> match.route, params |-> match.params,
   stripped |-> head]

-----------------------------------------------------------------------------
(* allow_header_value: {} is its None.                                      *)
AllowHeader(methods) ==
  IF methods = {} THEN {}
  ELSE methods \cup {"OPTIONS"} \cup (IF "GET" \in methods THEN {"HEAD"} ELSE {})

-----------------------------------------------------------------------------
(* App::dispatch                                                            *)

AsteriskAnswer == Answer(204, IF inventory = <<>> THEN {"OPTIONS"} ELSE AllowHeader(AllMethods))

\* An explicit HEAD route wins; otherwise a GET route answers, without a body.
HeadFromGet(direct, asGet) ==
  IF asGet.kind = "found" THEN [match |-> asGet, head |-> TRUE]
                          ELSE [match |-> direct, head |-> FALSE]

Lookup(q, direct) ==
  IF q.method = "HEAD" /\ direct.kind # "found"
  THEN HeadFromGet(direct, Route("GET", q.segs, q.passes))
  ELSE [match |-> direct, head |-> FALSE]

Unserved(match) ==
  CASE match.kind = "mismatch" -> IF AllowHeader(match.allow) = {} THEN Answer(404, {})
                                  ELSE Answer(405, AllowHeader(match.allow))
    [] match.kind = "badPath"  -> Answer(400, {})
    [] OTHER                   -> Answer(404, {})

\* Automatic OPTIONS, where no handler claimed the request.
Unclaimed(q, match, tells) ==
  IF q.method = "OPTIONS" /\ tells # {} THEN Answer(204, tells) ELSE Unserved(match)

Looked(q, found) ==
  IF found.match.kind = "found" THEN Served(found.match, found.head)
  ELSE Unclaimed(q, found.match, AllowHeader(MethodsFor(q.segs)))

Respond(q) ==
  IF q.method = "OPTIONS" /\ q.spelling = "asterisk" THEN AsteriskAnswer
  ELSE IF q.spelling = "alias" /\ policy = "strict" THEN Answer(404, {})
  ELSE IF q.spelling = "alias" /\ policy = "redirect" THEN Answer(308, {})
  ELSE IF MaxSegments > 0 /\ Len(q.segs) > MaxSegments THEN Answer(414, {})
  ELSE Looked(q, Lookup(q, Route(q.method, q.segs, q.passes)))

-----------------------------------------------------------------------------
Init ==
  /\ inventory = <<>> /\ policy \in Policies /\ built = FALSE
  /\ request = NoAnswer /\ answer = NoAnswer

Register(r) ==
  /\ ~built /\ Len(inventory) < MaxRoutes
  /\ Add(r)
  /\ UNCHANGED <<policy, built, request, answer>>

Build == ~built /\ built' = TRUE /\ UNCHANGED <<inventory, policy, request, answer>>

Handle(q) ==
  /\ built /\ answer = NoAnswer
  /\ request' = q /\ answer' = Respond(q)
  /\ UNCHANGED <<inventory, policy, built>>

Deliver ==
  /\ answer # NoAnswer
  /\ request' = NoAnswer /\ answer' = NoAnswer
  /\ UNCHANGED <<inventory, policy, built>>

Next == \/ \E r \in Routes : Register(r)
        \/ Build
        \/ \E q \in Requests : Handle(q)
        \/ Deliver

Spec == Init /\ [][Next]_vars

-----------------------------------------------------------------------------
(* The reference: which route ought to serve, said without a search.        *)

Exact(r) == \A k \in DOMAIN r.pattern : r.pattern[k].kind # "wildcard"
Fixed(r) == IF Exact(r) THEN Len(r.pattern) ELSE Len(r.pattern) - 1

\* The pattern matches: segment by segment, and a wildcard takes any rest in
\* which every segment is free of separators.
Matches(r, segs) ==
  /\ IF Exact(r) THEN Len(segs) = Fixed(r)
                 ELSE /\ Len(segs) >= Fixed(r)
                      /\ ~HasSeparator(SubSeq(segs, Fixed(r) + 1, Len(segs)))
  /\ \A k \in 1..Fixed(r) : r.pattern[k].kind = "static" => r.pattern[k].text = segs[k]

Rank(seg) == CASE seg.kind = "static" -> 1 [] seg.kind = "param" -> 2 [] OTHER -> 3

\* An exact route before a wildcard; then, where the two first differ, static
\* before parameter before wildcard; the same path in order of registration.
Preferred(i, j) ==
  LET r == inventory[i]  s == inventory[j]
      DifferAt == {k \in DOMAIN r.pattern \cap DOMAIN s.pattern :
                     Rank(r.pattern[k]) # Rank(s.pattern[k])}
  IN \/ Exact(r) /\ ~Exact(s)
     \/ /\ Exact(r) <=> Exact(s)
        /\ IF DifferAt = {} THEN i < j
           ELSE \E k \in DifferAt : /\ \A l \in DifferAt : k <= l
                                    /\ Rank(r.pattern[k]) < Rank(s.pattern[k])

Eligible(m, q) == {k \in DOMAIN inventory : /\ inventory[k].method = m
                                            /\ Serves(inventory[k], q.passes)
                                            /\ Matches(inventory[k], q.segs)}

Best(m, q) == CHOOSE i \in Eligible(m, q) : \A j \in Eligible(m, q) \ {i} : Preferred(i, j)

\* The method whose routes answer a request.
Effective(q) == IF q.method = "HEAD" /\ Eligible("HEAD", q) = {} THEN "GET" ELSE q.method

\* The request reaches the router, and the router understands it.
Routed(q) ==
  /\ ~(q.method = "OPTIONS" /\ q.spelling = "asterisk")
  /\ q.spelling = "alias" => policy = "collapse"
  /\ MaxSegments > 0 => Len(q.segs) <= MaxSegments
  /\ Malformed \notin ToSet(q.segs)

\* What a pattern captures of a path.
Capture(r, segs) ==
  LET Of(n) == {k \in DOMAIN r.pattern : r.pattern[k].kind # "static" /\ r.pattern[k].name = n}
      Value(k) == IF r.pattern[k].kind = "param" THEN <<segs[k]>> ELSE SubSeq(segs, k, Len(segs))
  IN [n \in Name |-> {Value(k) : k \in Of(n)}]

\* No pattern uses a name twice, and wildcards of one node agree on theirs.
WellNamed ==
  \A i, j \in DOMAIN inventory :
    LET r == inventory[i]  s == inventory[j] IN
    /\ \A k, l \in DOMAIN r.pattern :
         k # l /\ r.pattern[k].kind # "static" => r.pattern[k].name # r.pattern[l].name
    /\ Path(r.pattern) = Path(s.pattern) => r.pattern = s.pattern

-----------------------------------------------------------------------------
TypeOK ==
  /\ inventory \in Seq(Routes) /\ Len(inventory) <= MaxRoutes
  /\ policy \in Policies /\ built \in BOOLEAN
  /\ request \in Requests \cup {NoAnswer} /\ answer \in Answers \cup {NoAnswer}
  /\ (request = NoAnswer) <=> (answer = NoAnswer)

Answered == answer # NoAnswer

\* The search finds what the reference names: a request is served exactly when
\* some registered route serves it, and by the best of these, whatever dead
\* ends, failing guards and other methods lie on the way; and its handler sees
\* the captures of its own pattern and nothing of the branches tried before it.
BestServes ==
  /\ TypeOK
  /\ Answered /\ Routed(request) =>
       LET m == Effective(request) IN
       IF Eligible(m, request) = {} THEN answer.status # 200
       ELSE answer.status = 200 /\ answer.route = inventory[Best(m, request)]
  /\ Answered /\ WellNamed /\ answer.status = 200 =>
       answer.params = Capture(answer.route, request.segs)

Again(m) == Respond([request EXCEPT !.method = m])

\* A 405 promises nothing it does not keep: the same request with a method of
\* its Allow is neither refused nor unknown. And the OPTIONS of a resource names
\* every method its 405 names, and every method that would serve that request.
AllowIsHonest ==
  LET options == Again("OPTIONS") IN
  /\ Answered => (answer.status = 405 =>
       \A m \in answer.allow : Again(m).status \notin {404, 405})
  /\ Answered => (options.status = 204 =>
       /\ answer.status = 405 => answer.allow \subseteq options.allow
       /\ answer.status = 200 => request.method \in options.allow)

\* "Allow must describe every method either of them would have served".
AllowIsComplete ==
  Answered => (answer.status = 405 =>
    \A m \in Method : Again(m).status = 200 => m \in answer.allow)
=============================================================================
