-------------------------------- MODULE Router --------------------------------
(***************************************************************************)
(* The router of churust-core: the trie that Router::add builds and the     *)
(* searches Router::route, methods_for and all_methods make in it.          *)
(*                                                                         *)
(* A segment is a text; a node of the trie is the sequence of keys that     *)
(* leads to it, so the trie is what the registered routes span.  A search   *)
(* is a function of the spot it is at.  Captured values are sequences of    *)
(* segments, of length one for a parameter; a name has one value or none.   *)
(* The methods of a node are a set: a HashMap has no order to depend on.    *)
(***************************************************************************)
EXTENDS Naturals, Sequences, SequencesExt

CONSTANTS
  Text,       \* decoded segments
  Separated,  \* of these, the ones that contain a separator ("%2F")
  Malformed,  \* a segment that does not decode
  Name,       \* names of parameters and wildcards
  Method,     \* HTTP methods
  Guard       \* guards; a request passes some of them

\* Keys of the edges that are no text.
AnyKey  == "{}"
RestKey == "{...}"

ASSUME KeysAreNoTexts == Text \cap {AnyKey, RestKey} = {}
ASSUME SeparatedTexts == Separated \subseteq Text /\ Malformed \notin Text
ASSUME NoneIsNoMethod == "none" \notin Method

Static(t)   == [kind |-> "static", text |-> t, name |-> ""]
Param(n)    == [kind |-> "param", text |-> AnyKey, name |-> n]
Wildcard(n) == [kind |-> "wildcard", text |-> RestKey, name |-> n]
Segments == {Static(t) : t \in Text} \cup {Param(n) : n \in Name}
            \cup {Wildcard(n) : n \in Name}

VARIABLE inventory   \* the routes, in the order of their registration

-----------------------------------------------------------------------------
(* The trie.                                                                *)

Path(pattern) == [k \in DOMAIN pattern |-> pattern[k].text]

Root == <<>>

\* The places in the inventory of the routes below a node, and of its own.
Through(path)    == {k \in DOMAIN inventory : IsPrefix(path, Path(inventory[k].pattern))}
Candidates(path) == {k \in DOMAIN inventory : Path(inventory[k].pattern) = path}

First(places) == CHOOSE k \in places : \A l \in places : k <= l

HasNode(path) == Through(path) # {}

\* The name a parameter or wildcard edge was created with.
NameOf(path) == inventory[First(Through(path))].pattern[Len(path)].name

NoRoute == [method |-> "none", pattern |-> <<>>, guards |-> {}]

Serves(r, passes) == r.guards \subseteq passes

\* Mutant: a guard that fails ends the search.
Pick_firstOnly(path, m, passes) ==
  LET c == {k \in Candidates(path) : inventory[k].method = m}
  IN IF c # {} /\ Serves(inventory[First(c)], passes) THEN inventory[First(c)] ELSE NoRoute

\* BoxHandlers::pick, methods and methods_matching.
Pick(path, m, passes) ==
  LET c == {k \in Candidates(path) : inventory[k].method = m /\ Serves(inventory[k], passes)}
  IN IF c # {} THEN inventory[First(c)] ELSE NoRoute

Methods(path) == {inventory[k].method : k \in Candidates(path)}

\* Mutant: a method counts whatever its guards say of this request.
MethodsMatching_unguarded(path, passes) == Methods(path)

MethodsMatching(path, passes) ==
  {inventory[k].method : k \in {c \in Candidates(path) : Serves(inventory[c], passes)}}

-----------------------------------------------------------------------------
(* Registration: Router::add and the guards chained after it.  What makes   *)
(* `add' panic is not registered.                                           *)

WildcardIsLast(pattern) ==
  \A k \in DOMAIN pattern : pattern[k].kind = "wildcard" => k = Len(pattern)

\* One node, one parameter name; a wildcard keeps the first name it was given.
NamesAgree(pattern) ==
  \A k \in DOMAIN pattern :
    LET path == SubSeq(Path(pattern), 1, k) IN
    pattern[k].kind = "param" /\ HasNode(path) => NameOf(path) = pattern[k].name

\* Only an unguarded sibling is a duplicate.
NoDuplicate(r) ==
  \A k \in Candidates(Path(r.pattern)) : inventory[k].method = r.method => inventory[k].guards # {}

Add(r) ==
  /\ WildcardIsLast(r.pattern) /\ NamesAgree(r.pattern) /\ NoDuplicate(r)
  /\ inventory' = Append(inventory, r)

-----------------------------------------------------------------------------
(* Params, and where a search is: at a node, with the segments that are     *)
(* left and what was captured on the way.                                   *)

Params == [Name -> SUBSET Seq(Text)]

NoParams == [n \in Name |-> {}]

Insert(params, n, value) == [params EXCEPT ![n] = {value}]
Without(params, n) == [params EXCEPT ![n] = {}]

Spots == [node : Seq(Text \cup {AnyKey}), rest : Seq(Text), params : Params]
Spot(node, rest, params) == [node |-> node, rest |-> rest, params |-> params]

Start(segs) == Spot(Root, segs, NoParams)

Outcome(kind, route, allow, params) ==
  [kind |-> kind, route |-> route, allow |-> allow, params |-> params]

Nothing(params) == Outcome("nothing", NoRoute, {}, params)
Found(route, params) == Outcome("found", route, {}, params)
Mismatch(allow, params) == Outcome("mismatch", NoRoute, allow, params)
Refused(params) == Outcome("badPath", NoRoute, {}, params)

-----------------------------------------------------------------------------
(* The two branches of both searches.  `params' is one mutable set for the  *)
(* whole of a search, and what it has afterwards is in the outcome.         *)

StaticBranch(search, at) ==
  IF at.rest = <<>> \/ ~HasNode(Append(at.node, Head(at.rest))) THEN Nothing(at.params)
  ELSE search[Spot(Append(at.node, Head(at.rest)), Tail(at.rest), at.params)]

\* A branch that is abandoned leaves its name what it had `before'.
Leave(branch, n, before) ==
  IF branch.kind = "found" THEN branch ELSE [branch EXCEPT !.params[n] = before[n]]

ParamBranch(search, at, params, before) ==
  LET child == Append(at.node, AnyKey) IN
  IF at.rest = <<>> \/ ~HasNode(child) THEN Nothing(params)
  ELSE Leave(search[Spot(child, Tail(at.rest), Insert(params, NameOf(child), <<Head(at.rest)>>))],
             NameOf(child), before)

-----------------------------------------------------------------------------
(* walk_matching: the first leaf whose shape matches and that serves.  A    *)
(* name that was captured before gets its value back.                       *)

Accept(at, route) == IF route # NoRoute THEN Found(route, at.params) ELSE Nothing(at.params)

Matching(search, at) ==
  LET first == StaticBranch(search, at)
  IN IF first.kind = "found" THEN first ELSE ParamBranch(search, at, first.params, first.params)

WalkMatching(m, passes) ==
  LET walk[at \in Spots] ==
        IF at.rest = <<>> THEN Accept(at, Pick(at.node, m, passes)) ELSE Matching(walk, at)
  IN walk

\* What it visits when nothing is accepted: the nodes that k segments lead to.
Reached(segs, k) ==
  LET Fits(path) == Len(path) >= k /\ \A l \in 1..k : path[l] \in {segs[l], AnyKey}
      paths == {Path(inventory[i].pattern) : i \in DOMAIN inventory}
  IN {SubSeq(path, 1, k) : path \in {path \in paths : Fits(path)}}

-----------------------------------------------------------------------------
(* walk_wildcard: the deepest wildcard that serves, and what the branches   *)
(* that do not have to say.                                                 *)

HasSeparator(segs) == \E k \in DOMAIN segs : segs[k] \in Separated

\* The node's own wildcard, once nothing deeper served.
ThisWildcard(path, segs, passes, deeper, route) ==
  IF route # NoRoute THEN Found(route, Insert(deeper.params, NameOf(path), segs))
  ELSE Mismatch(MethodsMatching(path, passes) \cup deeper.allow,
                Without(deeper.params, NameOf(path)))

OwnWildcard(at, m, passes, deeper) ==
  LET path == Append(at.node, RestKey) IN
  IF ~HasNode(path) THEN deeper
  ELSE IF HasSeparator(at.rest) THEN Refused(deeper.params)
  ELSE ThisWildcard(path, at.rest, passes, deeper, Pick(path, m, passes))

\* Of a static and a parameter branch that both failed the second one counts.
Abandoned(first, second) ==
  IF second.kind = "nothing" THEN [first EXCEPT !.params = second.params] ELSE second

AfterStatic(at, m, passes, first, second) ==
  IF second.kind = "found" THEN second
  ELSE OwnWildcard(at, m, passes, Abandoned(first, second))

Deepest(search, at, m, passes) ==
  LET first == StaticBranch(search, at)
  IN IF first.kind = "found" THEN first
     ELSE AfterStatic(at, m, passes, first, ParamBranch(search, at, first.params, NoParams))

WalkWildcard(m, passes) ==
  LET walk[at \in Spots] == Deepest(walk, at, m, passes) IN walk

-----------------------------------------------------------------------------
(* Router::route (route_borrowed is the same search, made again to borrow). *)

ExactAllow(segs, passes) ==
  UNION {MethodsMatching(node, passes) : node \in Reached(segs, Len(segs))}

\* What is left when neither search serves.
Unmatched(wild, exact) ==
  IF wild.kind = "mismatch" THEN Mismatch(exact \cup wild.allow, NoParams)
  ELSE IF exact # {} THEN Mismatch(exact, NoParams) ELSE Nothing(NoParams)

WildcardFallback(segs, passes, wild) ==
  IF wild.kind = "found" THEN wild ELSE Unmatched(wild, ExactAllow(segs, passes))

ExactFirst(m, segs, passes, exact) ==
  IF exact.kind = "found" THEN exact
  ELSE WildcardFallback(segs, passes, WalkWildcard(m, passes)[Start(segs)])

Route(m, segs, passes) ==
  IF Malformed \in ToSet(segs) THEN Refused(NoParams)
  ELSE ExactFirst(m, segs, passes, WalkMatching(m, passes)[Start(segs)])

-----------------------------------------------------------------------------
(* methods_for and all_methods: what a resource supports, guards ignored.   *)

\* The wildcards a path reaches, unless their tail has a separator in it.
ReachedWildcards(segs) ==
  LET Usable == {k \in 0..Len(segs) : ~HasSeparator(SubSeq(segs, k + 1, Len(segs)))}
  IN UNION {{Append(node, RestKey) : node \in Reached(segs, k)} : k \in Usable}

MethodsFor(segs) ==
  IF Malformed \in ToSet(segs) THEN {}
  ELSE UNION {Methods(node) : node \in Reached(segs, Len(segs)) \cup ReachedWildcards(segs)}

AllMethods == {inventory[k].method : k \in DOMAIN inventory}
=============================================================================
