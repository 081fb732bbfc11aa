--------------------------- MODULE Dispatch_proofs ---------------------------
(***************************************************************************)
(* The searches of the router find what the reference names.                *)
(*                                                                         *)
(* The invariant is DpIInv: what the trie keeps from one registration to    *)
(* the next, and that an answer is what Respond makes of its request.  The  *)
(* rest is about one search.  Both walks are solutions of their recursive   *)
(* equations (Recursion), and an induction on the segments that are left    *)
(* (SmallestFirst) shows that a walk at a spot serves the best of the       *)
(* routes below it that match, or leaves the captures as it found them      *)
(* (Verdict).  MatchIs and PreferredIs say the reference in terms of keys,  *)
(* which the trie branches on.                                              *)
(***************************************************************************)
EXTENDS Dispatch, Counting

-----------------------------------------------------------------------------
(* What answers a request depends on the inventory and the policy alone.    *)

\* A registered router answers the same request the same way, whatever else
\* happens.
LEMMA RespondFrozen ==
  ASSUME inventory' = inventory, policy' = policy, NEW q
  PROVE Respond(q)' = Respond(q)
<1>1. \A path : Through(path)' = Through(path) /\ Candidates(path)' = Candidates(path)
  BY DEF Through, Candidates
<1>2. \A path : HasNode(path)' = HasNode(path) /\ NameOf(path)' = NameOf(path)
  BY <1>1 DEF HasNode, NameOf
<1>3. \A path, m, passes : Pick(path, m, passes)' = Pick(path, m, passes)
  BY <1>1 DEF Pick
<1>4. \A path, passes : MethodsMatching(path, passes)' = MethodsMatching(path, passes)
  BY <1>1 DEF MethodsMatching
<1>5. \A path : Methods(path)' = Methods(path)
  BY <1>1 DEF Methods
<1>6. \A m, passes : WalkMatching(m, passes)' = WalkMatching(m, passes)
  BY DEF WalkMatching, Matching, StaticBranch, ParamBranch, Leave, HasNode, Through, Path,
         NameOf, First, Accept, Pick, Candidates, Spot, Serves
<1>7. \A m, passes : WalkWildcard(m, passes)' = WalkWildcard(m, passes)
  BY DEF WalkWildcard, Deepest, AfterStatic, Abandoned, OwnWildcard, ThisWildcard,
         StaticBranch, ParamBranch, Leave, HasNode, Through, Path, NameOf, First, Accept, Pick,
         Candidates, Spot, Serves, MethodsMatching
<1>8. \A segs, k : Reached(segs, k)' = Reached(segs, k)
  BY DEF Reached
<1>9. \A segs, passes : ExactAllow(segs, passes)' = ExactAllow(segs, passes)
  BY <1>4, <1>8 DEF ExactAllow
<1>10. \A segs : MethodsFor(segs)' = MethodsFor(segs)
  BY <1>5, <1>8 DEF MethodsFor, ReachedWildcards
<1>11. \A m, segs, passes : Route(m, segs, passes)' = Route(m, segs, passes)
  BY <1>6, <1>7, <1>9 DEF Route, ExactFirst, WildcardFallback
<1>12. AsteriskAnswer' = AsteriskAnswer
  BY DEF AsteriskAnswer, AllMethods
<1>13. \A d : Lookup(q, d)' = Lookup(q, d)
  BY <1>11 DEF Lookup
<1>14. \A f : Looked(q, f)' = Looked(q, f)
  BY <1>10 DEF Looked
<1> QED
  BY <1>11, <1>12, <1>13, <1>14 DEF Respond

-----------------------------------------------------------------------------
(* The trie.                                                                *)

\* The keys of edges, and the path of a route.
Key == Text \cup {AnyKey, RestKey}

Keys(k) == Path(inventory[k].pattern)

\* Routes through one parameter edge agree on its name.
NamesKept ==
  \A i, j \in DOMAIN inventory : \A d \in DOMAIN Keys(i) \cap DOMAIN Keys(j) :
    (\A l \in 1..d : Keys(i)[l] = Keys(j)[l]) /\ inventory[i].pattern[d].kind = "param"
      => inventory[i].pattern[d].name = inventory[j].pattern[d].name

\* What Router::add keeps of the trie.
TrieOK ==
  /\ inventory \in Seq(Routes)
  /\ \A k \in DOMAIN inventory : WildcardIsLast(inventory[k].pattern)
  /\ NamesKept

\* The pattern ends in a wildcard.
Wild(k) == Keys(k) # <<>> /\ Keys(k)[Len(Keys(k))] = RestKey

\* The key of a segment tells its kind.
LEMMA KeyKinds ==
  ASSUME NEW seg \in Segments
  PROVE  /\ seg.text \in Key /\ seg.kind \in {"static", "param", "wildcard"}
         /\ seg.kind = "static" <=> seg.text \in Text
         /\ seg.kind = "param" <=> seg.text = AnyKey
         /\ seg.kind = "wildcard" <=> seg.text = RestKey
         /\ seg.kind # "static" => seg.name \in Name
<1>1. AnyKey \notin Text /\ RestKey \notin Text
  BY KeysAreNoTexts
<1>2. AnyKey # RestKey
  BY DEF AnyKey, RestKey
<1>3. CASE \E t \in Text : seg = Static(t)
  <2>1. PICK t \in Text : seg = Static(t)
    BY <1>3
  <2>2. seg.kind = "static" /\ seg.text = t /\ seg.name = ""
    BY <2>1 DEF Static
  <2> QED
    BY <1>1, <1>2, <2>1, <2>2 DEF Key
<1>4. CASE \E n \in Name : seg = Param(n)
  <2>1. PICK n \in Name : seg = Param(n)
    BY <1>4
  <2>2. seg.kind = "param" /\ seg.text = AnyKey /\ seg.name = n
    BY <2>1 DEF Param
  <2> QED
    BY <1>1, <1>2, <2>1, <2>2 DEF Key
<1>5. CASE \E n \in Name : seg = Wildcard(n)
  <2>1. PICK n \in Name : seg = Wildcard(n)
    BY <1>5
  <2>2. seg.kind = "wildcard" /\ seg.text = RestKey /\ seg.name = n
    BY <2>1 DEF Wildcard
  <2> QED
    BY <1>1, <1>2, <2>1, <2>2 DEF Key
<1> QED
  BY <1>3, <1>4, <1>5 DEF Segments

\* A registered route and its path.
LEMMA RouteFacts ==
  ASSUME TrieOK, NEW k \in DOMAIN inventory
  PROVE  /\ k \in Nat /\ DOMAIN inventory = 1..Len(inventory) /\ Len(inventory) \in Nat
         /\ inventory[k] \in Routes /\ inventory[k] # NoRoute
         /\ inventory[k].method \in Method /\ inventory[k].pattern \in Seq(Segments)
         /\ Len(inventory[k].pattern) = Len(Keys(k)) /\ Len(Keys(k)) \in Nat
         /\ DOMAIN inventory[k].pattern = 1..Len(Keys(k)) /\ Keys(k) \in Seq(Key)
         /\ \A l \in 1..Len(Keys(k)) :
              /\ inventory[k].pattern[l] \in Segments
              /\ Keys(k)[l] = inventory[k].pattern[l].text
              /\ Keys(k)[l] = RestKey => l = Len(Keys(k))
<1>1. /\ k \in Nat /\ DOMAIN inventory = 1..Len(inventory) /\ Len(inventory) \in Nat
      /\ inventory[k] \in Routes
  BY DEF TrieOK
<1>2. /\ inventory[k].method \in Method /\ inventory[k].pattern \in Seq(Segments)
      /\ inventory[k] # NoRoute
  BY <1>1, Routing, NoneIsNoMethod DEF NoRoute
<1> DEFINE t == inventory[k].pattern
<1>3. WildcardIsLast(t)
  BY DEF TrieOK
<1> HIDE DEF t
<1>4. t \in Seq(Segments)
  BY <1>2 DEF t
<1>5. /\ DOMAIN t = 1..Len(t) /\ Len(t) \in Nat
      /\ \A l \in 1..Len(t) : t[l] \in Segments /\ t[l].text \in Key
  BY <1>4, KeyKinds
<1>6. /\ Path(t) \in Seq(Key) /\ Len(Path(t)) = Len(t)
      /\ \A l \in 1..Len(t) : Path(t)[l] = t[l].text
  <2>1. Path(t) = [l \in 1..Len(t) |-> t[l].text]
    BY <1>5 DEF Path
  <2>2. Path(t) \in [1..Len(t) -> Key]
    BY <1>5, <2>1
  <2> QED
    BY <1>5, <2>1, <2>2
<1>7. \A l \in 1..Len(t) : Path(t)[l] = RestKey => l = Len(t)
  BY <1>3, <1>5, <1>6, KeyKinds DEF WildcardIsLast
<1>8. Keys(k) = Path(t)
  BY DEF Keys, t
<1> QED
  BY <1>1, <1>2, <1>5, <1>6, <1>7, <1>8 DEF t

\* IsPrefix, place by place.
LEMMA Prefixed ==
  ASSUME NEW S, NEW s \in Seq(S), NEW t \in Seq(S)
  PROVE  IsPrefix(s, t) <=> Len(s) <= Len(t) /\ \A l \in 1..Len(s) : t[l] = s[l]
<1>1. Len(s) \in Nat /\ Len(t) \in Nat
  OBVIOUS
<1>2. CASE Len(s) <= Len(t)
  <2> DEFINE u == SubSeq(s, 1, Len(s))
             v == SubSeq(t, 1, Len(s))
  <2>1. /\ Len(u) = Len(s) /\ Len(v) = Len(s) /\ u \in Seq(S) /\ v \in Seq(S)
        /\ \A l \in 1..Len(s) : u[l] = s[l] /\ v[l] = t[l]
    BY <1>1, <1>2
  <2> HIDE DEF u, v
  <2>2. u = v <=> \A l \in 1..Len(s) : u[l] = v[l]
    BY <2>1
  <2> QED
    BY <1>2, <2>1, <2>2 DEF IsPrefix, u, v
<1> QED
  BY <1>2 DEF IsPrefix

\* The path of route k leads through the node.
Under(k, node) ==
  /\ k \in DOMAIN inventory /\ Len(node) <= Len(Keys(k))
  /\ \A l \in 1..Len(node) : Keys(k)[l] = node[l]

\* The routes through a node, and its own.
LEMMA BelowNode ==
  ASSUME TrieOK, NEW node \in Seq(Key), NEW k
  PROVE  /\ k \in Through(node) <=> Under(k, node)
         /\ k \in Candidates(node) <=> Under(k, node) /\ Len(Keys(k)) = Len(node)
<1>1. CASE k \notin DOMAIN inventory
  BY <1>1 DEF Through, Candidates, Under
<1>2. CASE k \in DOMAIN inventory
  <2>1. Keys(k) \in Seq(Key) /\ Keys(k) = Path(inventory[k].pattern)
    BY <1>2, RouteFacts DEF Keys
  <2> DEFINE t == Keys(k)
  <2> HIDE DEF t
  <2>2. IsPrefix(node, t) <=> Len(node) <= Len(t) /\ \A l \in 1..Len(node) : t[l] = node[l]
    BY <2>1, Prefixed DEF t
  <2>3. t = node <=> Len(t) = Len(node) /\ \A l \in 1..Len(node) : t[l] = node[l]
    BY <2>1 DEF t
  <2>4. Len(t) \in Nat /\ Len(node) \in Nat
    BY <2>1 DEF t
  <2>5. k \in Through(node) <=> IsPrefix(node, t)
    BY <1>2, <2>1 DEF Through, t
  <2>6. k \in Candidates(node) <=> t = node
    BY <1>2, <2>1 DEF Candidates, t
  <2>7. Under(k, node) <=> Len(node) <= Len(t) /\ \A l \in 1..Len(node) : t[l] = node[l]
    BY <1>2 DEF Under, t
  <2> QED
    BY <2>2, <2>3, <2>4, <2>5, <2>6, <2>7 DEF t
<1> QED
  BY <1>1, <1>2

\* The routes through a child are those of the node with its key next.
LEMMA BelowChild ==
  ASSUME TrieOK, NEW node \in Seq(Key), NEW key \in Key, NEW k
  PROVE  /\ Append(node, key) \in Seq(Key) /\ Len(Append(node, key)) = Len(node) + 1
         /\ Under(k, Append(node, key)) <=> /\ Under(k, node) /\ Len(node) < Len(Keys(k))
                                            /\ Keys(k)[Len(node) + 1] = key
<1> DEFINE child == Append(node, key)
<1>1. /\ child \in Seq(Key) /\ Len(child) = Len(node) + 1 /\ Len(node) \in Nat
      /\ child[Len(node) + 1] = key /\ \A l \in 1..Len(node) : child[l] = node[l]
  OBVIOUS
<1> HIDE DEF child
<1>2. k \in DOMAIN inventory => Len(Keys(k)) \in Nat
  BY RouteFacts
<1>3. 1..(Len(node) + 1) = (1..Len(node)) \cup {Len(node) + 1}
  BY <1>1
<1>4. ASSUME Under(k, child)
      PROVE  Under(k, node) /\ Len(node) < Len(Keys(k)) /\ Keys(k)[Len(node) + 1] = key
  BY <1>1, <1>2, <1>3, <1>4 DEF Under
<1>5. ASSUME Under(k, node), Len(node) < Len(Keys(k)), Keys(k)[Len(node) + 1] = key
      PROVE  Under(k, child)
  BY <1>1, <1>2, <1>3, <1>5 DEF Under
<1> QED
  BY <1>1, <1>4, <1>5 DEF child

\* The first registration is the one with the smallest place.
LEMMA FirstIs ==
  ASSUME NEW P, P \subseteq Nat, P # {}
  PROVE  First(P) \in P /\ \A l \in P : First(P) <= l
BY LeastElement DEF First

-----------------------------------------------------------------------------
(* Names, and what a pattern matches.                                       *)

\* Every route through a parameter edge has the name of that edge.
LEMMA NameIs ==
  ASSUME TrieOK, NEW node \in Seq(Key), NEW i, Under(i, Append(node, AnyKey))
  PROVE  /\ NameOf(Append(node, AnyKey)) = inventory[i].pattern[Len(node) + 1].name
         /\ NameOf(Append(node, AnyKey)) \in Name
<1> DEFINE child == Append(node, AnyKey)
           d == Len(node) + 1
<1>1. child \in Seq(Key) /\ Len(child) = d /\ d \in Nat /\ d > 0 /\ child[d] = AnyKey
  BY DEF Key
<1> HIDE DEF child, d
<1>2. \A k : k \in Through(child) <=> Under(k, child)
  BY <1>1, BelowNode
<1> DEFINE f == First(Through(child))
<1>3. f \in Through(child)
  <2>1. Through(child) \subseteq Nat
    BY <1>2, RouteFacts DEF Under
  <2>2. i \in Through(child)
    BY <1>2 DEF child
  <2> QED
    BY <2>1, <2>2, FirstIs
<1> HIDE DEF f
<1>4. Under(f, child) /\ Under(i, child)
  BY <1>2, <1>3 DEF child
<1>5. /\ f \in DOMAIN inventory /\ i \in DOMAIN inventory
      /\ d <= Len(Keys(f)) /\ d <= Len(Keys(i))
      /\ \A l \in 1..d : Keys(f)[l] = Keys(i)[l]
      /\ Keys(i)[d] = AnyKey
  BY <1>1, <1>4 DEF Under
<1>6. d \in DOMAIN Keys(f) \cap DOMAIN Keys(i) /\ d \in 1..Len(Keys(i))
  <2>1. Keys(f) \in Seq(Key) /\ Keys(i) \in Seq(Key)
    BY <1>5, RouteFacts
  <2> QED
    BY <1>1, <1>5, <2>1
<1>7. inventory[i].pattern[d] \in Segments /\ inventory[i].pattern[d].text = AnyKey
  BY <1>5, <1>6, RouteFacts
<1>8. inventory[i].pattern[d].kind = "param" /\ inventory[i].pattern[d].name \in Name
  BY <1>7, KeyKinds
<1>9. inventory[i].pattern[d].name = inventory[f].pattern[d].name
  BY <1>5, <1>6, <1>8 DEF TrieOK, NamesKept
<1> QED
  BY <1>1, <1>8, <1>9 DEF NameOf, f, child, d

\* HasSeparator of what is left, place by place.
LEMMA Separators ==
  ASSUME NEW segs \in Seq(Text), NEW d \in 0..Len(segs)
  PROVE  /\ SubSeq(segs, d + 1, Len(segs)) \in Seq(Text)
         /\ Len(SubSeq(segs, d + 1, Len(segs))) = Len(segs) - d
         /\ HasSeparator(SubSeq(segs, d + 1, Len(segs)))
              <=> \E l \in (d + 1)..Len(segs) : segs[l] \in Separated
<1> DEFINE n == Len(segs)
           tail == SubSeq(segs, d + 1, n)
<1>1. n \in Nat /\ d \in Nat /\ d <= n
  OBVIOUS
<1>2. tail \in Seq(Text) /\ Len(tail) = n - d /\ \A k \in 1..(n - d) : tail[k] = segs[d + k]
  BY <1>1
<1> HIDE DEF tail, n
<1>3. DOMAIN tail = 1..(n - d)
  BY <1>2
<1>4. ASSUME NEW k \in 1..(n - d) PROVE d + k \in (d + 1)..n
  BY <1>1
<1>5. ASSUME NEW l \in (d + 1)..n PROVE l - d \in 1..(n - d) /\ d + (l - d) = l
  BY <1>1
<1> QED
  BY <1>2, <1>3, <1>4, <1>5 DEF HasSeparator, tail, n

\* The first n keys of route k take the first n segments.
Leads(k, segs, n) == \A l \in 1..n : Keys(k)[l] \in {segs[l], AnyKey}

\* No segment after the first n has a separator in it.
Clear(segs, n) == \A l \in (n + 1)..Len(segs) : segs[l] \notin Separated

\* Route k matches the path, said of its keys.
Fits(k, segs) ==
  IF Wild(k) THEN /\ Len(Keys(k)) - 1 <= Len(segs) /\ Leads(k, segs, Len(Keys(k)) - 1)
                  /\ Clear(segs, Len(Keys(k)) - 1)
             ELSE Len(Keys(k)) = Len(segs) /\ Leads(k, segs, Len(segs))

\* A wildcard key ends a path, and only the path of a wildcard route.
LEMMA ExactOrWild ==
  ASSUME TrieOK, NEW k \in DOMAIN inventory
  PROVE  /\ Exact(inventory[k]) <=> ~Wild(k)
         /\ Fixed(inventory[k]) = IF Wild(k) THEN Len(Keys(k)) - 1 ELSE Len(Keys(k))
         /\ Wild(k) => Len(Keys(k)) > 0
         /\ \A l \in 1..Len(Keys(k)) : Keys(k)[l] = RestKey <=> Wild(k) /\ l = Len(Keys(k))
<1> DEFINE t == inventory[k].pattern
           n == Len(Keys(k))
<1>1. /\ n \in Nat /\ DOMAIN t = 1..n /\ Keys(k) \in Seq(Key) /\ Len(t) = n
      /\ \A l \in 1..n : t[l] \in Segments /\ Keys(k)[l] = t[l].text
                         /\ (Keys(k)[l] = RestKey => l = n)
  BY RouteFacts
<1>2. Wild(k) <=> n > 0 /\ Keys(k)[n] = RestKey
  BY <1>1 DEF Wild
<1>3. \A l \in 1..n : t[l].kind = "wildcard" <=> Keys(k)[l] = RestKey
  BY <1>1, KeyKinds
<1>4. Exact(inventory[k]) <=> \A l \in 1..n : Keys(k)[l] # RestKey
  BY <1>1, <1>3 DEF Exact
<1> HIDE DEF t, n
<1>5. Exact(inventory[k]) <=> ~Wild(k)
  BY <1>1, <1>2, <1>4
<1> QED
  BY <1>1, <1>2, <1>5 DEF Fixed, t, n

\* Fits is Matches.
LEMMA MatchIs ==
  ASSUME TrieOK, NEW k \in DOMAIN inventory, NEW segs \in Seq(Text)
  PROVE  Matches(inventory[k], segs) <=> Fits(k, segs)
<1> DEFINE t == inventory[k].pattern
           n == Len(Keys(k))
           f == Fixed(inventory[k])
<1>1. /\ n \in Nat /\ Len(segs) \in Nat
      /\ \A l \in 1..n : t[l] \in Segments /\ Keys(k)[l] = t[l].text
  BY RouteFacts
<1>2. /\ Exact(inventory[k]) <=> ~Wild(k)
      /\ f = IF Wild(k) THEN n - 1 ELSE n
      /\ Wild(k) => n > 0
      /\ \A l \in 1..n : Keys(k)[l] = RestKey <=> Wild(k) /\ l = n
  BY ExactOrWild
<1>3. f \in Nat /\ f <= n
  BY <1>1, <1>2
<1> HIDE DEF n, f, t
<1>4. \A l \in 1..f : l \in 1..n /\ Keys(k)[l] # RestKey
  BY <1>1, <1>2, <1>3
<1>5. ASSUME NEW l \in 1..f, l \in 1..Len(segs)
      PROVE  (t[l].kind = "static" => t[l].text = segs[l]) <=> Keys(k)[l] \in {segs[l], AnyKey}
  <2>1. t[l] \in Segments /\ Keys(k)[l] = t[l].text /\ Keys(k)[l] # RestKey
    BY <1>1, <1>4
  <2>2. /\ t[l].kind \in {"static", "param", "wildcard"}
        /\ t[l].kind = "static" <=> Keys(k)[l] \in Text
        /\ t[l].kind = "param" <=> Keys(k)[l] = AnyKey
        /\ t[l].kind = "wildcard" <=> Keys(k)[l] = RestKey
    BY <2>1, KeyKinds
  <2>3. segs[l] \in Text
    BY <1>5
  <2> QED
    BY <2>1, <2>2, <2>3
<1>6. f <= Len(segs) =>
        (Leads(k, segs, f) <=> \A l \in 1..f : t[l].kind = "static" => t[l].text = segs[l])
  <2> HAVE f <= Len(segs)
  <2>1. \A l \in 1..f : l \in 1..Len(segs)
    BY <1>1, <1>3
  <2> QED
    BY <1>5, <2>1 DEF Leads
<1>7. f <= Len(segs) => (Clear(segs, f) <=> ~HasSeparator(SubSeq(segs, f + 1, Len(segs))))
  <2> HAVE f <= Len(segs)
  <2>1. f \in 0..Len(segs)
    BY <1>1, <1>3
  <2> QED
    BY <2>1, Separators DEF Clear
<1>8. CASE Wild(k)
  <2>1. f = n - 1
    BY <1>2, <1>8
  <2>2. Matches(inventory[k], segs) <=>
          /\ Len(segs) >= f /\ ~HasSeparator(SubSeq(segs, f + 1, Len(segs)))
          /\ \A l \in 1..f : t[l].kind = "static" => t[l].text = segs[l]
    BY <1>2, <1>8 DEF Matches, t, f
  <2>3. Fits(k, segs) <=> f <= Len(segs) /\ Leads(k, segs, f) /\ Clear(segs, f)
    BY <1>8, <2>1 DEF Fits, n
  <2> QED
    BY <1>1, <1>3, <1>6, <1>7, <2>2, <2>3
<1>9. CASE ~Wild(k)
  <2>1. f = n
    BY <1>2, <1>9
  <2>2. Matches(inventory[k], segs) <=>
          Len(segs) = f /\ \A l \in 1..f : t[l].kind = "static" => t[l].text = segs[l]
    BY <1>2, <1>9 DEF Matches, t, f
  <2>3. Fits(k, segs) <=> f = Len(segs) /\ Leads(k, segs, f)
    BY <1>9, <2>1 DEF Fits, n
  <2> QED
    BY <1>1, <1>3, <1>6, <2>2, <2>3
<1> QED
  BY <1>8, <1>9

-----------------------------------------------------------------------------
(* Preference.                                                              *)

\* The rank of a segment is a matter of its key.
KeyRank(key) == IF key \in Text THEN 1 ELSE IF key = AnyKey THEN 2 ELSE 3

\* Rank is that.
LEMMA RankIs ==
  ASSUME NEW seg \in Segments
  PROVE  Rank(seg) = KeyRank(seg.text) /\ Rank(seg) \in 1..3
<1>1. /\ seg.kind \in {"static", "param", "wildcard"}
      /\ seg.kind = "static" <=> seg.text \in Text
      /\ seg.kind = "param" <=> seg.text = AnyKey
  BY KeyKinds
<1>2. CASE seg.kind = "static"
  BY <1>1, <1>2 DEF Rank, KeyRank
<1>3. CASE seg.kind = "param"
  BY <1>1, <1>3 DEF Rank, KeyRank
<1>4. CASE seg.kind = "wildcard"
  BY <1>1, <1>4 DEF Rank, KeyRank
<1> QED
  BY <1>1, <1>2, <1>3, <1>4

\* The places where the paths of two routes have keys of different rank.
Differ(i, j) ==
  {k \in 1..Len(Keys(i)) : k <= Len(Keys(j)) /\ KeyRank(Keys(i)[k]) # KeyRank(Keys(j)[k])}

\* Preferred, said of keys.
LEMMA PreferredIs ==
  ASSUME TrieOK, NEW i \in DOMAIN inventory, NEW j \in DOMAIN inventory
  PROVE  Preferred(i, j) <=>
           \/ ~Wild(i) /\ Wild(j)
           \/ /\ Wild(i) <=> Wild(j)
              /\ IF Differ(i, j) = {} THEN i < j
                 ELSE \E k \in Differ(i, j) :
                        /\ \A l \in Differ(i, j) : k <= l
                        /\ KeyRank(Keys(i)[k]) < KeyRank(Keys(j)[k])
<1> DEFINE r == inventory[i]
           s == inventory[j]
           D == {k \in DOMAIN r.pattern \cap DOMAIN s.pattern :
                   Rank(r.pattern[k]) # Rank(s.pattern[k])}
<1>1. (Exact(r) <=> ~Wild(i)) /\ (Exact(s) <=> ~Wild(j))
  BY ExactOrWild
<1>2. DOMAIN r.pattern = 1..Len(Keys(i)) /\ DOMAIN s.pattern = 1..Len(Keys(j))
  BY RouteFacts
<1>3. Len(Keys(i)) \in Nat /\ Len(Keys(j)) \in Nat
  BY RouteFacts
<1>4. \A k \in 1..Len(Keys(i)) : Rank(r.pattern[k]) = KeyRank(Keys(i)[k])
  BY RouteFacts, RankIs
<1>5. \A k \in 1..Len(Keys(j)) : Rank(s.pattern[k]) = KeyRank(Keys(j)[k])
  BY RouteFacts, RankIs
<1>6. \A k : k \in D <=> k \in Differ(i, j)
  <2>1. \A k : k \in 1..Len(Keys(i)) /\ k \in 1..Len(Keys(j))
               <=> k \in 1..Len(Keys(i)) /\ k <= Len(Keys(j))
    BY <1>3
  <2>2. \A k : k \in D <=> /\ k \in 1..Len(Keys(i)) /\ k \in 1..Len(Keys(j))
                           /\ Rank(r.pattern[k]) # Rank(s.pattern[k])
    BY <1>2
  <2> HIDE DEF r, s, D
  <2> QED
    BY <1>4, <1>5, <2>1, <2>2 DEF Differ
<1>7. D = Differ(i, j)
  BY <1>6
<1>8. \A k \in Differ(i, j) : /\ Rank(r.pattern[k]) = KeyRank(Keys(i)[k])
                              /\ Rank(s.pattern[k]) = KeyRank(Keys(j)[k])
  <2> TAKE k \in Differ(i, j)
  <2>1. k \in 1..Len(Keys(i)) /\ k \in 1..Len(Keys(j))
    BY <1>3 DEF Differ
  <2> QED
    BY <1>4, <1>5, <2>1
<1>9. Preferred(i, j) <=>
        \/ Exact(r) /\ ~Exact(s)
        \/ /\ Exact(r) <=> Exact(s)
           /\ IF D = {} THEN i < j
              ELSE \E k \in D : /\ \A l \in D : k <= l
                                /\ Rank(r.pattern[k]) < Rank(s.pattern[k])
  BY DEF Preferred
<1> HIDE DEF r, s, D
<1> QED
  BY <1>1, <1>7, <1>8, <1>9

\* Of two routes that part at a node the one with the smaller rank there is
\* preferred.
LEMMA FirstDifference ==
  ASSUME TrieOK, NEW i \in DOMAIN inventory, NEW j \in DOMAIN inventory, Wild(i) <=> Wild(j),
         NEW d \in Nat, d < Len(Keys(i)), d < Len(Keys(j)),
         \A l \in 1..d : Keys(i)[l] = Keys(j)[l],
         KeyRank(Keys(i)[d + 1]) < KeyRank(Keys(j)[d + 1])
  PROVE  Preferred(i, j)
<1>1. Len(Keys(i)) \in Nat /\ Len(Keys(j)) \in Nat
  BY RouteFacts
<1>2. \A key : KeyRank(key) \in 1..3
  BY DEF KeyRank
<1>3. d + 1 \in Differ(i, j)
  <2>1. d + 1 \in 1..Len(Keys(i)) /\ d + 1 <= Len(Keys(j))
    BY <1>1
  <2> QED
    BY <1>2, <2>1 DEF Differ
<1>4. \A l \in Differ(i, j) : d + 1 <= l
  <2> SUFFICES ASSUME NEW l \in Differ(i, j) PROVE d + 1 <= l
    OBVIOUS
  <2>1. l \in Nat /\ l >= 1 /\ Keys(i)[l] # Keys(j)[l]
    BY <1>1 DEF Differ
  <2>2. l \notin 1..d
    BY <2>1
  <2> QED
    BY <2>1, <2>2
<1> QED
  BY <1>3, <1>4, PreferredIs

\* Of two routes with one path the earlier one is preferred.
LEMMA SamePath ==
  ASSUME TrieOK, NEW i \in DOMAIN inventory, NEW j \in DOMAIN inventory,
         Keys(i) = Keys(j), i < j
  PROVE  Preferred(i, j)
<1>1. Differ(i, j) = {}
  BY DEF Differ
<1>2. Wild(i) <=> Wild(j)
  BY DEF Wild
<1> QED
  BY <1>1, <1>2, PreferredIs

\* Preferred is asymmetric.
LEMMA NotBoth ==
  ASSUME TrieOK, NEW i \in DOMAIN inventory, NEW j \in DOMAIN inventory, i # j, Preferred(i, j)
  PROVE  ~Preferred(j, i)
<1> SUFFICES ASSUME Preferred(j, i) PROVE FALSE
  OBVIOUS
<1>1. Len(Keys(i)) \in Nat /\ Len(Keys(j)) \in Nat /\ i \in Nat /\ j \in Nat
  BY RouteFacts
<1>2. \A key : KeyRank(key) \in 1..3
  BY DEF KeyRank
<1>3. Differ(i, j) = Differ(j, i)
  BY <1>1 DEF Differ
<1>4. Differ(i, j) \subseteq Nat
  BY <1>1 DEF Differ
<1>5. Wild(i) <=> Wild(j)
  BY PreferredIs
<1>6. CASE Differ(i, j) = {}
  <2>1. i < j
    BY <1>5, <1>6, PreferredIs
  <2>2. j < i
    BY <1>3, <1>5, <1>6, PreferredIs
  <2> QED
    BY <1>1, <2>1, <2>2
<1>7. CASE Differ(i, j) # {}
  <2>1. PICK k \in Differ(i, j) : /\ \A l \in Differ(i, j) : k <= l
                                  /\ KeyRank(Keys(i)[k]) < KeyRank(Keys(j)[k])
    BY <1>5, <1>7, PreferredIs
  <2>2. PICK h \in Differ(i, j) : /\ \A l \in Differ(i, j) : h <= l
                                  /\ KeyRank(Keys(j)[h]) < KeyRank(Keys(i)[h])
    BY <1>3, <1>5, <1>7, PreferredIs
  <2>3. k = h
    BY <1>4, <2>1, <2>2
  <2> QED
    BY <1>2, <2>1, <2>2, <2>3
<1> QED
  BY <1>6, <1>7

\* i is preferred to everything else in S.
BestOf(i, S) == i \in S /\ \A j \in S \ {i} : Preferred(i, j)

\* There is one best route at most.
LEMMA OneBest ==
  ASSUME TrieOK, NEW m, NEW q, NEW i, BestOf(i, Eligible(m, q))
  PROVE  Best(m, q) = i
<1>1. Eligible(m, q) \subseteq DOMAIN inventory
  BY DEF Eligible
<1>2. \A j \in Eligible(m, q) : (\A l \in Eligible(m, q) \ {j} : Preferred(j, l)) => j = i
  BY <1>1, NotBoth DEF BestOf
<1> QED
  BY <1>2 DEF Best, BestOf

-----------------------------------------------------------------------------
(* The routes below a node, and how its children share them.                *)

\* A node that the first segments lead to.
Plainly == Text \cup {AnyKey}

OnWay(node, segs) ==
  /\ node \in Seq(Plainly) /\ Len(node) <= Len(segs)
  /\ \A l \in 1..Len(node) : node[l] \in {segs[l], AnyKey}

\* One more segment leads to a static and a parameter child.
LEMMA OnWayDown ==
  ASSUME NEW segs \in Seq(Text), NEW node, OnWay(node, segs), Len(node) < Len(segs),
         NEW key \in {segs[Len(node) + 1], AnyKey}
  PROVE  /\ segs[Len(node) + 1] \in Text /\ key \in Plainly
         /\ OnWay(Append(node, key), segs) /\ Len(Append(node, key)) = Len(node) + 1
<1>1. node \in Seq(Plainly) /\ Len(node) \in Nat /\ Len(segs) \in Nat
  BY DEF OnWay
<1>2. segs[Len(node) + 1] \in Text
  <2>1. Len(node) + 1 \in 1..Len(segs)
    BY <1>1
  <2> QED
    BY <2>1
<1>3. key \in Plainly
  BY <1>2 DEF Plainly
<1> DEFINE child == Append(node, key)
<1>4. /\ child \in Seq(Plainly) /\ Len(child) = Len(node) + 1 /\ child[Len(node) + 1] = key
      /\ \A l \in 1..Len(node) : child[l] = node[l]
  BY <1>1, <1>3
<1> HIDE DEF child
<1>5. 1..(Len(node) + 1) = (1..Len(node)) \cup {Len(node) + 1}
  BY <1>1
<1>6. OnWay(child, segs)
  BY <1>1, <1>4, <1>5 DEF OnWay
<1> QED
  BY <1>2, <1>3, <1>4, <1>6 DEF child

\* No wildcard edge is on the way.
LEMMA OnWayKeys ==
  ASSUME NEW segs, NEW node, OnWay(node, segs)
  PROVE  /\ node \in Seq(Key) /\ Len(node) \in Nat
         /\ \A l \in 1..Len(node) : node[l] # RestKey
<1>1. node \in Seq(Plainly)
  BY DEF OnWay
<1>2. Plainly \subseteq Key
  BY DEF Plainly, Key
<1>3. RestKey \notin Plainly
  BY KeysAreNoTexts DEF Plainly, AnyKey, RestKey
<1>4. node \in Seq(Key)
  BY <1>1, <1>2
<1> QED
  BY <1>1, <1>3, <1>4

\* The key of a segment is the key of no other edge.
LEMMA KeysApart ==
  ASSUME NEW segs \in Seq(Text), NEW d \in Nat, d < Len(segs)
  PROVE  segs[d + 1] \in Text /\ segs[d + 1] # AnyKey /\ segs[d + 1] # RestKey /\ AnyKey # RestKey
<1>1. d + 1 \in 1..Len(segs)
  OBVIOUS
<1>2. segs[d + 1] \in Text
  BY <1>1
<1> QED
  BY <1>2, KeysAreNoTexts DEF AnyKey, RestKey

\* An exact route through a node is its own, or goes on to one of two children.
LEMMA ExactSplit ==
  ASSUME TrieOK, NEW segs \in Seq(Text), NEW node, OnWay(node, segs),
         NEW k \in DOMAIN inventory, Fits(k, segs), ~Wild(k), Under(k, node)
  PROVE  /\ Len(node) = Len(segs) => k \in Candidates(node)
         /\ Len(node) < Len(segs) => \/ Under(k, Append(node, segs[Len(node) + 1]))
                                     \/ Under(k, Append(node, AnyKey))
<1>1. node \in Seq(Key) /\ Len(node) \in Nat /\ Len(segs) \in Nat
  BY OnWayKeys
<1>2. Len(Keys(k)) = Len(segs) /\ \A l \in 1..Len(segs) : Keys(k)[l] \in {segs[l], AnyKey}
  BY DEF Fits, Leads
<1>3. CASE Len(node) = Len(segs)
  BY <1>1, <1>2, <1>3, BelowNode
<1>4. CASE Len(node) < Len(segs)
  <2> DEFINE d == Len(node)
  <2>1. d + 1 \in 1..Len(segs) /\ segs[d + 1] \in Key /\ AnyKey \in Key
    BY <1>1, <1>4, KeysApart DEF Key
  <2>2. Keys(k)[d + 1] \in {segs[d + 1], AnyKey}
    BY <1>2, <2>1
  <2> QED
    BY <1>1, <1>2, <1>4, <2>1, <2>2, BelowChild
<1> QED
  BY <1>1, <1>3, <1>4

\* Where no segment is left every route of the node matches.
LEMMA LeafFits ==
  ASSUME TrieOK, NEW segs \in Seq(Text), NEW node, OnWay(node, segs), Len(node) = Len(segs),
         NEW k \in Candidates(node)
  PROVE  k \in DOMAIN inventory /\ Fits(k, segs) /\ ~Wild(k) /\ Under(k, node)
<1>1. node \in Seq(Key) /\ Len(node) \in Nat /\ \A l \in 1..Len(node) : node[l] # RestKey
  BY OnWayKeys
<1>2. Under(k, node) /\ Len(Keys(k)) = Len(node)
  BY <1>1, BelowNode
<1>3. k \in DOMAIN inventory /\ \A l \in 1..Len(node) : Keys(k)[l] = node[l]
  BY <1>2 DEF Under
<1>4. Keys(k) \in Seq(Key)
  BY <1>3, RouteFacts
<1>5. ~Wild(k)
  <2> SUFFICES ASSUME Wild(k) PROVE FALSE
    OBVIOUS
  <2>1. Len(Keys(k)) \in 1..Len(node)
    BY <1>1, <1>2, <1>3, ExactOrWild
  <2> QED
    BY <1>1, <1>2, <1>3, <2>1 DEF Wild
<1>6. Leads(k, segs, Len(segs))
  BY <1>3 DEF Leads, OnWay
<1> QED
  BY <1>2, <1>3, <1>5, <1>6 DEF Fits

\* A wildcard route through a node is that of its wildcard child, or goes on.
LEMMA WildSplit ==
  ASSUME TrieOK, NEW segs \in Seq(Text), NEW node, OnWay(node, segs),
         NEW k \in DOMAIN inventory, Fits(k, segs), Wild(k), Under(k, node)
  PROVE  \/ k \in Candidates(Append(node, RestKey))
         \/ /\ Len(node) < Len(segs)
            /\ \/ Under(k, Append(node, segs[Len(node) + 1]))
               \/ Under(k, Append(node, AnyKey))
<1>1. /\ node \in Seq(Key) /\ Len(node) \in Nat /\ Len(segs) \in Nat
      /\ \A l \in 1..Len(node) : node[l] # RestKey
  BY OnWayKeys
<1> DEFINE n == Len(Keys(k))
           d == Len(node)
<1>2. /\ n \in Nat /\ n > 0 /\ n - 1 <= Len(segs)
      /\ \A l \in 1..(n - 1) : Keys(k)[l] \in {segs[l], AnyKey}
      /\ Keys(k)[n] = RestKey
  BY RouteFacts, ExactOrWild DEF Fits, Leads, Wild
<1>3. d <= n /\ \A l \in 1..d : Keys(k)[l] = node[l]
  BY DEF Under
<1>4. d # n
  <2> SUFFICES ASSUME d = n PROVE FALSE
    OBVIOUS
  <2>1. n \in 1..d
    BY <1>2
  <2> QED
    BY <1>1, <1>2, <1>3, <2>1
<1>5. CASE n = d + 1
  <2>1. /\ RestKey \in Key /\ d < n
    BY <1>1, <1>5 DEF Key
  <2> DEFINE own == Append(node, RestKey)
  <2>2. Under(k, own) /\ own \in Seq(Key) /\ Len(own) = n
    BY <1>1, <1>2, <1>5, <2>1, BelowChild
  <2> QED
    BY <2>2, BelowNode
<1>6. CASE n > d + 1
  <2>1. d + 1 \in 1..(n - 1) /\ d < Len(segs) /\ d < n
    BY <1>1, <1>2, <1>6
  <2>2. segs[d + 1] \in Key /\ AnyKey \in Key
    BY <1>1, <2>1, KeysApart DEF Key
  <2>3. Keys(k)[d + 1] \in {segs[d + 1], AnyKey}
    BY <1>2, <2>1
  <2> QED
    BY <1>1, <2>1, <2>2, <2>3, BelowChild
<1> QED
  BY <1>1, <1>2, <1>3, <1>4, <1>5, <1>6

\* A node's own wildcard matches exactly when nothing left has a separator.
LEMMA OwnFits ==
  ASSUME TrieOK, NEW segs \in Seq(Text), NEW node, OnWay(node, segs),
         NEW k \in Candidates(Append(node, RestKey))
  PROVE  /\ k \in DOMAIN inventory /\ Wild(k) /\ Under(k, node)
         /\ Len(Keys(k)) = Len(node) + 1 /\ Keys(k)[Len(node) + 1] = RestKey
         /\ Fits(k, segs) <=> Clear(segs, Len(node))
<1>1. node \in Seq(Key) /\ Len(node) \in Nat /\ RestKey \in Key
  BY OnWayKeys DEF Key
<1> DEFINE own == Append(node, RestKey)
<1>2. own \in Seq(Key) /\ Len(own) = Len(node) + 1
  BY <1>1
<1>3. Under(k, own) /\ Len(Keys(k)) = Len(own)
  BY <1>2, BelowNode
<1>4. Under(k, node) /\ Keys(k)[Len(node) + 1] = RestKey
  BY <1>1, <1>3, BelowChild
<1>5. k \in DOMAIN inventory /\ \A l \in 1..Len(node) : Keys(k)[l] = node[l]
  BY <1>4 DEF Under
<1>6. Wild(k)
  <2>1. Len(Keys(k)) \in 1..Len(Keys(k)) /\ Keys(k)[Len(Keys(k))] = RestKey
    BY <1>1, <1>2, <1>3, <1>4
  <2> QED
    BY <1>5, <2>1, ExactOrWild
<1>7. Len(Keys(k)) - 1 = Len(node)
  BY <1>1, <1>2, <1>3
<1>8. Leads(k, segs, Len(node)) /\ Len(node) <= Len(segs)
  BY <1>5 DEF Leads, OnWay
<1> QED
  BY <1>2, <1>3, <1>4, <1>5, <1>6, <1>7, <1>8 DEF Fits

\* What is below the static child is preferred to what is below the parameter
\* child.
LEMMA StaticBeforeParam ==
  ASSUME TrieOK, NEW segs \in Seq(Text), NEW node, OnWay(node, segs), Len(node) < Len(segs),
         NEW i, Under(i, Append(node, segs[Len(node) + 1])),
         NEW j, Under(j, Append(node, AnyKey)), Wild(i) <=> Wild(j)
  PROVE  Preferred(i, j)
<1>1. node \in Seq(Key) /\ Len(node) \in Nat
  BY OnWayKeys
<1>2. segs[Len(node) + 1] \in Text /\ segs[Len(node) + 1] # AnyKey
  BY <1>1, KeysApart
<1>3. segs[Len(node) + 1] \in Key /\ AnyKey \in Key
  BY <1>2 DEF Key
<1>4. /\ Under(i, node) /\ Len(node) < Len(Keys(i)) /\ Keys(i)[Len(node) + 1] = segs[Len(node) + 1]
      /\ Under(j, node) /\ Len(node) < Len(Keys(j)) /\ Keys(j)[Len(node) + 1] = AnyKey
  BY <1>1, <1>3, BelowChild
<1>5. KeyRank(segs[Len(node) + 1]) < KeyRank(AnyKey)
  BY <1>2, KeysAreNoTexts DEF KeyRank
<1>6. \A l \in 1..Len(node) : Keys(i)[l] = Keys(j)[l]
  BY <1>4 DEF Under
<1> QED
  BY <1>1, <1>4, <1>5, <1>6, FirstDifference DEF Under

\* What goes on is preferred to the node's own wildcard.
LEMMA DeeperBeforeOwn ==
  ASSUME TrieOK, NEW segs \in Seq(Text), NEW node, OnWay(node, segs), Len(node) < Len(segs),
         NEW key \in {segs[Len(node) + 1], AnyKey}, NEW i, Under(i, Append(node, key)), Wild(i),
         NEW j \in Candidates(Append(node, RestKey))
  PROVE  Preferred(i, j)
<1>1. node \in Seq(Key) /\ Len(node) \in Nat
  BY OnWayKeys
<1>2. segs[Len(node) + 1] \in Text /\ AnyKey # RestKey /\ RestKey \notin Text
  BY <1>1, KeysApart, KeysAreNoTexts
<1>3. key \in Key
  BY <1>2 DEF Key
<1>4. /\ Under(i, node) /\ Len(node) < Len(Keys(i)) /\ Keys(i)[Len(node) + 1] = key
  BY <1>1, <1>3, BelowChild
<1>5. /\ j \in DOMAIN inventory /\ Wild(j) /\ Under(j, node)
      /\ Len(Keys(j)) = Len(node) + 1 /\ Keys(j)[Len(node) + 1] = RestKey
  BY OwnFits
<1>6. KeyRank(key) < KeyRank(RestKey)
  BY <1>2 DEF KeyRank
<1>7. (\A l \in 1..Len(node) : Keys(i)[l] = Keys(j)[l]) /\ i \in DOMAIN inventory
  BY <1>4, <1>5 DEF Under
<1> QED
  BY <1>1, <1>4, <1>5, <1>6, <1>7, FirstDifference

\* The routes of a node that pick may take.
Pickable(node, m, passes) ==
  {k \in Candidates(node) : inventory[k].method = m /\ Serves(inventory[k], passes)}

\* BoxHandlers::pick takes the best of them.
LEMMA PickIs ==
  ASSUME TrieOK, NEW node \in Seq(Key), NEW m, NEW passes
  PROVE  /\ Pickable(node, m, passes) = {} => Pick(node, m, passes) = NoRoute
         /\ Pickable(node, m, passes) # {} =>
              \E i : /\ BestOf(i, Pickable(node, m, passes)) /\ Pick(node, m, passes) = inventory[i]
                     /\ inventory[i] # NoRoute
<1> DEFINE c == Pickable(node, m, passes)
<1> USE DEF Pickable
<1>1. CASE c = {}
  BY <1>1 DEF Pick
<1>2. CASE c # {}
  <2>1. c \subseteq DOMAIN inventory /\ c \subseteq Nat
    BY RouteFacts DEF Candidates
  <2>2. First(c) \in c /\ \A l \in c : First(c) <= l
    BY <1>2, <2>1, FirstIs
  <2>3. Pick(node, m, passes) = inventory[First(c)]
    BY <1>2 DEF Pick
  <2>4. \A j \in c : Keys(j) = node
    BY DEF Candidates, Keys
  <2>5. \A j \in c \ {First(c)} : Preferred(First(c), j)
    <3> TAKE j \in c \ {First(c)}
    <3>1. First(c) < j
      <4>1. First(c) \in Nat /\ j \in Nat /\ First(c) <= j /\ First(c) # j
        BY <2>1, <2>2
      <4> QED
        BY <4>1
    <3> QED
      BY <2>1, <2>2, <2>4, <3>1, SamePath
  <2>6. inventory[First(c)] # NoRoute
    BY <2>1, <2>2, RouteFacts
  <2> QED
    BY <1>2, <2>2, <2>3, <2>5, <2>6 DEF BestOf
<1> QED
  BY <1>1, <1>2

-----------------------------------------------------------------------------
(* Captures.                                                                *)

\* The parameters called n among the first d segments, and what they capture.
At(k, n, d) == {l \in 1..d : Keys(k)[l] = AnyKey /\ inventory[k].pattern[l].name = n}

Captured(k, segs, d) == [n \in Name |-> {<<segs[l]>> : l \in At(k, n, d)}]

\* No segment, no capture.
LEMMA NothingCaptured ==
  ASSUME NEW k, NEW segs
  PROVE  Captured(k, segs, 0) = NoParams
<1>1. \A n : At(k, n, 0) = {}
  BY DEF At
<1> QED
  BY <1>1 DEF Captured, NoParams

\* A static segment captures nothing.
LEMMA StaticCaptures ==
  ASSUME NEW k, NEW segs, NEW d \in Nat, Keys(k)[d + 1] # AnyKey
  PROVE  Captured(k, segs, d + 1) = Captured(k, segs, d)
<1>1. \A l : l \in 1..(d + 1) /\ l # d + 1 <=> l \in 1..d
  OBVIOUS
<1>2. \A n : At(k, n, d + 1) = At(k, n, d)
  BY <1>1 DEF At
<1> QED
  BY <1>2 DEF Captured

\* A name that a pattern uses at one place it uses at none before.
LEMMA FreshName ==
  ASSUME TrieOK, WellNamed, NEW k \in DOMAIN inventory, NEW d \in Nat, d < Len(Keys(k)),
         Keys(k)[d + 1] \notin Text
  PROVE  At(k, inventory[k].pattern[d + 1].name, d) = {}
<1> DEFINE t == inventory[k].pattern
<1>1. /\ Len(Keys(k)) \in Nat /\ DOMAIN t = 1..Len(Keys(k))
      /\ \A l \in 1..Len(Keys(k)) : t[l] \in Segments /\ Keys(k)[l] = t[l].text
  BY RouteFacts
<1>2. \A a, b \in DOMAIN t : a # b /\ t[a].kind # "static" => t[a].name # t[b].name
  BY DEF WellNamed
<1> HIDE DEF t
<1>3. d + 1 \in 1..Len(Keys(k)) /\ \A l \in 1..d : l \in 1..Len(Keys(k)) /\ l # d + 1
  BY <1>1
<1>4. t[d + 1].kind # "static"
  BY <1>1, <1>3, KeyKinds
<1>5. \A l \in 1..d : t[l].name # t[d + 1].name
  BY <1>1, <1>2, <1>3, <1>4
<1> QED
  BY <1>5 DEF At, t

\* A parameter captures its segment.
LEMMA ParamCaptures ==
  ASSUME TrieOK, WellNamed, NEW segs \in Seq(Text), NEW k \in DOMAIN inventory,
         NEW d \in Nat, d < Len(Keys(k)), Keys(k)[d + 1] = AnyKey
  PROVE  Captured(k, segs, d + 1)
           = Insert(Captured(k, segs, d), inventory[k].pattern[d + 1].name, <<segs[d + 1]>>)
<1> DEFINE name == inventory[k].pattern[d + 1].name
<1>1. At(k, name, d) = {}
  BY FreshName, KeysAreNoTexts
<1> HIDE DEF name
<1>2. \A l : l \in 1..(d + 1) <=> l \in 1..d \/ l = d + 1
  OBVIOUS
<1>3. At(k, name, d + 1) = {d + 1}
  BY <1>1, <1>2 DEF At, name
<1>4. \A n : n # name => At(k, n, d + 1) = At(k, n, d)
  BY <1>2 DEF At, name
<1>5. {<<segs[l]>> : l \in {d + 1}} = {<<segs[d + 1]>>}
  OBVIOUS
<1> DEFINE before == Captured(k, segs, d)
           after == Captured(k, segs, d + 1)
           value == <<segs[d + 1]>>
<1>6. \A n \in Name : after[n] = IF n = name THEN {value} ELSE before[n]
  BY <1>3, <1>4, <1>5 DEF Captured
<1>7. DOMAIN before = Name /\ DOMAIN after = Name /\ after = [n \in Name |-> after[n]]
  BY DEF Captured
<1> HIDE DEF before, after, value
<1>8. Insert(before, name, value) = [n \in Name |-> IF n = name THEN {value} ELSE before[n]]
  BY <1>7 DEF Insert
<1>9. after = Insert(before, name, value)
  BY <1>6, <1>7, <1>8
<1> QED
  BY <1>9 DEF before, after, value, name

\* What an exact pattern captures.
LEMMA ExactCapture ==
  ASSUME TrieOK, NEW segs \in Seq(Text), NEW k \in DOMAIN inventory, Fits(k, segs), ~Wild(k)
  PROVE  Capture(inventory[k], segs) = Captured(k, segs, Len(segs))
<1> DEFINE t == inventory[k].pattern
<1>1. /\ Len(Keys(k)) = Len(segs) /\ DOMAIN t = 1..Len(segs)
      /\ \A l \in 1..Len(segs) : t[l] \in Segments /\ Keys(k)[l] = t[l].text
  BY RouteFacts DEF Fits
<1>2. \A l \in 1..Len(segs) : Keys(k)[l] # RestKey
  BY <1>1, ExactOrWild
<1>3. \A l \in 1..Len(segs) : /\ t[l].kind # "static" <=> Keys(k)[l] = AnyKey
                              /\ t[l].kind = "param" <=> Keys(k)[l] = AnyKey
  BY <1>1, <1>2, KeyKinds
<1> DEFINE Of(n) == {l \in DOMAIN t : t[l].kind # "static" /\ t[l].name = n}
           Value(l) == IF t[l].kind = "param" THEN <<segs[l]>> ELSE SubSeq(segs, l, Len(segs))
<1>4. Capture(inventory[k], segs) = [n \in Name |-> {Value(l) : l \in Of(n)}]
  BY DEF Capture
<1>5. \A n : Of(n) = At(k, n, Len(segs))
  BY <1>1, <1>3 DEF At
<1>6. \A n : \A l \in At(k, n, Len(segs)) : Value(l) = <<segs[l]>>
  BY <1>1, <1>3 DEF At
<1>7. \A n : {Value(l) : l \in Of(n)} = {<<segs[l]>> : l \in At(k, n, Len(segs))}
  <2> HIDE DEF Of, Value, t
  <2> QED
    BY <1>5, <1>6
<1> QED
  BY <1>4, <1>7 DEF Captured

\* What a pattern with a wildcard captures.
LEMMA WildCapture ==
  ASSUME TrieOK, WellNamed, NEW segs \in Seq(Text), NEW k \in DOMAIN inventory,
         NEW d \in Nat, Fits(k, segs), Wild(k), Len(Keys(k)) = d + 1
  PROVE  Capture(inventory[k], segs)
           = Insert(Captured(k, segs, d), inventory[k].pattern[d + 1].name,
                    SubSeq(segs, d + 1, Len(segs)))
<1> DEFINE t == inventory[k].pattern
           name == t[d + 1].name
           value == SubSeq(segs, d + 1, Len(segs))
           before == Captured(k, segs, d)
<1>1. /\ DOMAIN t = 1..(d + 1) /\ d + 1 \in 1..(d + 1)
      /\ \A l \in 1..(d + 1) : t[l] \in Segments /\ Keys(k)[l] = t[l].text
  <2>1. /\ DOMAIN t = 1..Len(Keys(k))
        /\ \A l \in 1..Len(Keys(k)) : t[l] \in Segments /\ Keys(k)[l] = t[l].text
    BY RouteFacts
  <2>2. d + 1 \in 1..(d + 1)
    OBVIOUS
  <2> HIDE DEF t
  <2> QED
    BY <2>1, <2>2
<1>2. \A l \in 1..(d + 1) : Keys(k)[l] = RestKey <=> l = d + 1
  BY ExactOrWild
<1>3. \A l \in 1..(d + 1) : /\ t[l].kind # "static" <=> Keys(k)[l] = AnyKey \/ l = d + 1
                            /\ t[l].kind = "param" <=> Keys(k)[l] = AnyKey
  BY <1>1, <1>2, KeyKinds
<1>4. Keys(k)[d + 1] # AnyKey /\ Keys(k)[d + 1] \notin Text
  BY <1>1, <1>2, KeysAreNoTexts DEF AnyKey, RestKey
<1>5. At(k, name, d) = {}
  <2>1. d < Len(Keys(k))
    OBVIOUS
  <2> QED
    BY <1>4, <2>1, FreshName
<1> DEFINE Of(n) == {l \in DOMAIN t : t[l].kind # "static" /\ t[l].name = n}
           Value(l) == IF t[l].kind = "param" THEN <<segs[l]>> ELSE SubSeq(segs, l, Len(segs))
<1>6. Capture(inventory[k], segs) = [n \in Name |-> {Value(l) : l \in Of(n)}]
  BY DEF Capture
<1>7. \A l : l \in 1..(d + 1) <=> l \in 1..d \/ l = d + 1
  OBVIOUS
<1>8. ~(d + 1 \in 1..d)
  OBVIOUS
<1>9. \A n : Of(n) = At(k, n, d) \cup (IF n = name THEN {d + 1} ELSE {})
  BY <1>1, <1>3, <1>7, <1>8 DEF At
<1>10. \A n : \A l \in At(k, n, d) : Value(l) = <<segs[l]>>
  BY <1>1, <1>3, <1>7 DEF At
<1>11. Value(d + 1) = value
  BY <1>1, <1>3, <1>4
<1> HIDE DEF Of, Value, name, value
<1>12. {Value(l) : l \in Of(name)} = {value}
  BY <1>5, <1>9, <1>11
<1>13. \A n : n # name => {Value(l) : l \in Of(n)} = {<<segs[l]>> : l \in At(k, n, d)}
  BY <1>9, <1>10
<1>14. DOMAIN before = Name /\ \A n \in Name : before[n] = {<<segs[l]>> : l \in At(k, n, d)}
  BY DEF Captured
<1> DEFINE Of2(n) == {Value(l) : l \in Of(n)}
<1>15. \A n \in Name : Of2(n) = IF n = name THEN {value} ELSE before[n]
  BY <1>12, <1>13, <1>14
<1> HIDE DEF before, Of2
<1>16. Insert(before, name, value) = [n \in Name |-> IF n = name THEN {value} ELSE before[n]]
  BY <1>14 DEF Insert
<1>17. [n \in Name |-> Of2(n)] = Insert(before, name, value)
  BY <1>15, <1>16
<1> QED
  BY <1>6, <1>17 DEF Of2, before, name, value

-----------------------------------------------------------------------------
(* The outcomes of a search, and its equation.                              *)

\* What a search can return, and the spots it can go on to.
Outcomes == [kind: {"nothing", "found", "mismatch", "badPath"}, route: Routes \cup {NoRoute},
             allow: SUBSET Method, params: Params]

Nearer(at) == {y \in Spots : Len(y.rest) < Len(at.rest)}

\* Captures stay captures.
LEMMA ParamsTyped ==
  ASSUME NEW params \in Params, NEW n
  PROVE  /\ NoParams \in Params /\ Without(params, n) \in Params
         /\ \A value \in Seq(Text) : Insert(params, n, value) \in Params
BY DEF Params, NoParams, Without, Insert

\* The captures with what n had before.
Restored(params, n, before) == [params EXCEPT ![n] = before[n]]

\* Leaving a branch changes its captures at most.
LEMMA LeaveIs ==
  ASSUME NEW branch \in Outcomes, NEW n, NEW before \in Params
  PROVE  /\ Leave(branch, n, before) \in Outcomes
         /\ Leave(branch, n, before).kind = branch.kind
         /\ Leave(branch, n, before).route = branch.route
         /\ Leave(branch, n, before).allow = branch.allow
         /\ Leave(branch, n, before).params
              = IF branch.kind = "found" THEN branch.params
                ELSE Restored(branch.params, n, before)
<1>1. branch.params \in Params
  BY DEF Outcomes
<1>2. [branch.params EXCEPT ![n] = before[n]] \in Params
  BY <1>1 DEF Params
<1> DEFINE kept == [branch.params EXCEPT ![n] = before[n]]
<1> HIDE DEF kept
<1>3. Leave(branch, n, before)
        = IF branch.kind = "found" THEN branch ELSE [branch EXCEPT !.params = kept]
  BY DEF Leave, kept, Outcomes
<1> QED
  BY <1>2, <1>3 DEF Outcomes, kept, Restored

\* A step down leaves fewer segments.
LEMMA Steps ==
  ASSUME NEW at \in Spots, at.rest # <<>>, NEW params \in Params
  PROVE  /\ at.node \in Seq(Plainly) /\ at.params \in Params
         /\ Head(at.rest) \in Text /\ <<Head(at.rest)>> \in Seq(Text)
         /\ Spot(Append(at.node, Head(at.rest)), Tail(at.rest), params) \in Nearer(at)
         /\ Spot(Append(at.node, AnyKey), Tail(at.rest), params) \in Nearer(at)
<1>1. at.node \in Seq(Plainly) /\ at.rest \in Seq(Text) /\ at.params \in Params
  BY DEF Spots, Plainly
<1> DEFINE rest == at.rest
<1> HIDE DEF rest
<1>2. rest \in Seq(Text) /\ rest # <<>>
  BY <1>1 DEF rest
<1>3. /\ Head(rest) \in Text /\ Tail(rest) \in Seq(Text) /\ Len(Tail(rest)) < Len(rest)
      /\ <<Head(rest)>> \in Seq(Text)
  BY <1>2
<1>4. Head(rest) \in Plainly /\ AnyKey \in Plainly
  BY <1>3 DEF Plainly
<1>5. \A key \in Plainly : Append(at.node, key) \in Seq(Plainly)
  BY <1>1
<1>6. \A key \in Plainly : Spot(Append(at.node, key), Tail(rest), params) \in Nearer(at)
  <2> TAKE key \in Plainly
  <2> DEFINE y == Spot(Append(at.node, key), Tail(rest), params)
  <2>1. y \in Spots /\ y.rest = Tail(rest)
    BY <1>3, <1>5 DEF Spot, Spots, Plainly
  <2> QED
    BY <1>3, <2>1 DEF Nearer, rest
<1> QED
  BY <1>1, <1>3, <1>4, <1>6 DEF rest

\* Nothing is an outcome.
LEMMA NothingTyped ==
  ASSUME NEW params \in Params
  PROVE  Nothing(params) \in Outcomes
BY DEF Nothing, Outcome, Outcomes

\* A branch returns an outcome when the search does at nearer spots.
LEMMA BranchesTyped ==
  ASSUME NEW at \in Spots, NEW search, \A y \in Nearer(at) : search[y] \in Outcomes,
         NEW params \in Params, NEW before \in Params
  PROVE  /\ StaticBranch(search, at) \in Outcomes
         /\ ParamBranch(search, at, params, before) \in Outcomes
<1>1. at.params \in Params
  BY DEF Spots
<1>2. StaticBranch(search, at) \in Outcomes
  <2>1. CASE at.rest = <<>> \/ ~HasNode(Append(at.node, Head(at.rest)))
    BY <1>1, <2>1, NothingTyped DEF StaticBranch
  <2>2. CASE ~(at.rest = <<>> \/ ~HasNode(Append(at.node, Head(at.rest))))
    BY <1>1, <2>2, Steps DEF StaticBranch
  <2> QED
    BY <2>1, <2>2
<1>3. ParamBranch(search, at, params, before) \in Outcomes
  <2> DEFINE child == Append(at.node, AnyKey)
             to == Insert(params, NameOf(child), <<Head(at.rest)>>)
  <2>1. CASE at.rest = <<>> \/ ~HasNode(child)
    BY <2>1, NothingTyped DEF ParamBranch
  <2>2. CASE ~(at.rest = <<>> \/ ~HasNode(child))
    <3>1. <<Head(at.rest)>> \in Seq(Text)
      BY <1>1, <2>2, Steps
    <3>2. to \in Params
      BY <3>1, ParamsTyped
    <3> HIDE DEF to
    <3>3. Spot(child, Tail(at.rest), to) \in Nearer(at)
      BY <2>2, <3>2, Steps
    <3>4. search[Spot(child, Tail(at.rest), to)] \in Outcomes
      BY <3>3
    <3>5. ParamBranch(search, at, params, before)
            = Leave(search[Spot(child, Tail(at.rest), to)], NameOf(child), before)
      BY <2>2 DEF ParamBranch, to
    <3> DEFINE branch == search[Spot(child, Tail(at.rest), to)]
    <3> HIDE DEF branch
    <3>6. branch \in Outcomes
      BY <3>4 DEF branch
    <3>7. Leave(branch, NameOf(child), before) \in Outcomes
      BY <3>6, LeaveIs
    <3> QED
      BY <3>5, <3>7 DEF branch
  <2> QED
    BY <2>1, <2>2
<1> QED
  BY <1>2, <1>3

\* A branch depends on the search at nearer spots only.
LEMMA BranchesDepend ==
  ASSUME NEW at \in Spots, NEW h, NEW k, \A y \in Nearer(at) : h[y] = k[y],
         NEW params \in Params, NEW before
  PROVE  /\ StaticBranch(h, at) = StaticBranch(k, at)
         /\ ParamBranch(h, at, params, before) = ParamBranch(k, at, params, before)
<1>1. at.params \in Params
  BY DEF Spots
<1>2. StaticBranch(h, at) = StaticBranch(k, at)
  BY <1>1, Steps DEF StaticBranch
<1>3. ParamBranch(h, at, params, before) = ParamBranch(k, at, params, before)
  <2> DEFINE child == Append(at.node, AnyKey)
             to == Insert(params, NameOf(child), <<Head(at.rest)>>)
  <2>1. CASE at.rest = <<>> \/ ~HasNode(child)
    BY <2>1 DEF ParamBranch
  <2>2. CASE ~(at.rest = <<>> \/ ~HasNode(child))
    <3>1. <<Head(at.rest)>> \in Seq(Text)
      BY <1>1, <2>2, Steps
    <3>2. to \in Params
      BY <3>1, ParamsTyped
    <3> HIDE DEF to
    <3>3. Spot(child, Tail(at.rest), to) \in Nearer(at)
      BY <2>2, <3>2, Steps
    <3> QED
      BY <2>2, <3>3 DEF ParamBranch, to
  <2> QED
    BY <2>1, <2>2
<1> QED
  BY <1>2, <1>3

\* pick returns a route or none.
LEMMA PickTyped ==
  ASSUME TrieOK, NEW path, NEW m, NEW passes
  PROVE  Pick(path, m, passes) \in Routes \cup {NoRoute}
<1> DEFINE c == {k \in Candidates(path) : inventory[k].method = m /\ Serves(inventory[k], passes)}
<1>1. CASE c = {}
  BY <1>1 DEF Pick
<1>2. CASE c # {}
  <2>1. c \subseteq DOMAIN inventory /\ c \subseteq Nat
    BY RouteFacts DEF Candidates
  <2>2. First(c) \in DOMAIN inventory
    BY <1>2, <2>1, FirstIs
  <2> QED
    BY <1>2, <2>2, RouteFacts DEF Pick
<1> QED
  BY <1>1, <1>2

\* The equation of walk_matching.
MatchingStep(search, at, m, passes) ==
  IF at.rest = <<>> THEN Accept(at, Pick(at.node, m, passes)) ELSE Matching(search, at)

\* It is typed, and depends on nearer spots only.
LEMMA MatchingStepIs ==
  ASSUME TrieOK, NEW m, NEW passes, NEW at \in Spots, NEW h,
         \A y \in Nearer(at) : h[y] \in Outcomes
  PROVE  /\ MatchingStep(h, at, m, passes) \in Outcomes
         /\ \A k : (\A y \in Nearer(at) : h[y] = k[y])
                     => MatchingStep(h, at, m, passes) = MatchingStep(k, at, m, passes)
<1>1. at.params \in Params
  BY DEF Spots
<1>2. Accept(at, Pick(at.node, m, passes)) \in Outcomes
  BY <1>1, PickTyped DEF Accept, Found, Nothing, Outcome, Outcomes
<1>3. StaticBranch(h, at) \in Outcomes
  BY <1>1, BranchesTyped
<1> DEFINE first == StaticBranch(h, at)
<1>4. first.params \in Params
  BY <1>3 DEF Outcomes
<1>5. Matching(h, at) \in Outcomes
  BY <1>3, <1>4, BranchesTyped DEF Matching
<1>6. ASSUME NEW k, \A y \in Nearer(at) : h[y] = k[y] PROVE Matching(h, at) = Matching(k, at)
  <2>1. StaticBranch(h, at) = StaticBranch(k, at)
    BY <1>1, <1>6, BranchesDepend
  <2>2. ParamBranch(h, at, first.params, first.params)
          = ParamBranch(k, at, first.params, first.params)
    BY <1>4, <1>6, BranchesDepend
  <2> QED
    BY <2>1, <2>2 DEF Matching
<1> QED
  BY <1>2, <1>5, <1>6 DEF MatchingStep

\* The segments that are left.
Distance == [at \in Spots |-> Len(at.rest)]

\* Nearer spots have fewer.
LEMMA DistanceTyped ==
  /\ Distance \in [Spots -> Nat]
  /\ \A at \in Spots : Nearer(at) = {y \in Spots : Distance[y] < Distance[at]}
<1>1. \A at \in Spots : at.rest \in Seq(Text)
  BY DEF Spots
<1>2. \A at \in Spots : Len(at.rest) \in Nat
  BY <1>1
<1> QED
  BY <1>2 DEF Distance, Nearer

\* A solution of the equation of walk_matching.
SolvesMatching(walk, m, passes) == walk = [at \in Spots |-> MatchingStep(walk, at, m, passes)]

\* walk_matching returns an outcome and satisfies its equation.
LEMMA MatchingUnfolds ==
  ASSUME TrieOK, NEW m, NEW passes
  PROVE  /\ WalkMatching(m, passes) \in [Spots -> Outcomes]
         /\ \A at \in Spots :
              WalkMatching(m, passes)[at] = MatchingStep(WalkMatching(m, passes), at, m, passes)
<1> DEFINE g == [h \in [Spots -> Outcomes] |-> [at \in Spots |-> MatchingStep(h, at, m, passes)]]
<1>1. g \in [[Spots -> Outcomes] -> [Spots -> Outcomes]]
  <2>1. \A h \in [Spots -> Outcomes] : \A at \in Spots : MatchingStep(h, at, m, passes) \in Outcomes
    <3> TAKE h \in [Spots -> Outcomes]
    <3> TAKE at \in Spots
    <3>1. \A y \in Nearer(at) : h[y] \in Outcomes
      BY DEF Nearer
    <3> QED
      BY <3>1, MatchingStepIs
  <2> QED
    BY <2>1
<1>2. \A h, k \in [Spots -> Outcomes] : \A at \in Spots :
        (\A y \in Spots : Distance[y] < Distance[at] => h[y] = k[y]) => g[h][at] = g[k][at]
  <2> TAKE h, k \in [Spots -> Outcomes]
  <2> TAKE at \in Spots
  <2> HAVE \A y \in Spots : Distance[y] < Distance[at] => h[y] = k[y]
  <2>1. \A y \in Nearer(at) : h[y] \in Outcomes /\ h[y] = k[y]
    BY DistanceTyped
  <2>2. MatchingStep(h, at, m, passes) = MatchingStep(k, at, m, passes)
    BY <2>1, MatchingStepIs
  <2> QED
    BY <2>2
<1>3. Nothing(NoParams) \in Outcomes
  BY NothingTyped DEF NoParams, Params
<1> DEFINE X == Spots
           V == Outcomes
           v == Nothing(NoParams)
           size == Distance
<1>4. v \in V /\ size \in [X -> Nat] /\ g \in [[X -> V] -> [X -> V]]
  BY <1>1, <1>3, DistanceTyped
<1>5. Descends(g, size, X, V)
  BY <1>2 DEF Descends
<1> HIDE DEF X, V, v, size, g
<1>6. PICK f \in [X -> V] : Solves(f, g)
  BY <1>4, <1>5, Recursion
<1>7. SolvesMatching(f, m, passes)
  BY <1>6 DEF Solves, SolvesMatching, g, X, V
<1>8. SolvesMatching(WalkMatching(m, passes), m, passes)
  <2>1. WalkMatching(m, passes) = CHOOSE walk : SolvesMatching(walk, m, passes)
    BY DEF WalkMatching, SolvesMatching, MatchingStep
  <2> QED
    BY <1>7, <2>1
<1> DEFINE walk == WalkMatching(m, passes)
<1> HIDE DEF walk
<1>9. DOMAIN walk = Spots /\ \A at \in Spots : walk[at] = MatchingStep(walk, at, m, passes)
  BY <1>8 DEF SolvesMatching, walk
<1> DEFINE P == {at \in Spots : walk[at] \in Outcomes}
<1>10. \A at \in Spots : (\A y \in Spots : Distance[y] < Distance[at] => y \in P) => at \in P
  <2> TAKE at \in Spots
  <2> HAVE \A y \in Spots : Distance[y] < Distance[at] => y \in P
  <2>1. \A y \in Nearer(at) : walk[y] \in Outcomes
    BY DistanceTyped
  <2> QED
    BY <1>9, <2>1, MatchingStepIs
<1>11. Spots \subseteq P
  <2> HIDE DEF P
  <2> QED
    BY <1>10, DistanceTyped, SmallestFirst
<1>12. walk = [at \in Spots |-> walk[at]]
  BY <1>8 DEF SolvesMatching, walk
<1> QED
  BY <1>9, <1>11, <1>12 DEF walk

-----------------------------------------------------------------------------
(* The spots that a path leads to.                                          *)

\* A search for this path may be at this spot: the captures are those of every
\* route through the node.
Tracks(at, segs) ==
  /\ at \in Spots /\ OnWay(at.node, segs)
  /\ at.rest = SubSeq(segs, Len(at.node) + 1, Len(segs))
  /\ WellNamed => \A k : Under(k, at.node) => at.params = Captured(k, segs, Len(at.node))

\* What is left, and its first segment.
LEMMA RestIs ==
  ASSUME NEW segs \in Seq(Text), NEW at, Tracks(at, segs)
  PROVE  /\ Len(at.node) \in Nat /\ Len(at.node) <= Len(segs) /\ at.params \in Params
         /\ at.rest = <<>> <=> Len(at.node) = Len(segs)
         /\ at.rest # <<>> =>
              /\ Len(at.node) < Len(segs) /\ Head(at.rest) = segs[Len(at.node) + 1]
              /\ Tail(at.rest) = SubSeq(segs, Len(at.node) + 2, Len(segs))
<1> DEFINE d == Len(at.node)
           n == Len(segs)
           rest == at.rest
<1>1. d \in Nat /\ n \in Nat /\ d <= n /\ at.params \in Params
  BY OnWayKeys DEF Tracks, OnWay, Spots
<1>2. rest = SubSeq(segs, d + 1, n)
  BY DEF Tracks
<1> HIDE DEF d, rest
<1>3. rest \in Seq(Text) /\ Len(rest) = n - d /\ \A k \in 1..(n - d) : rest[k] = segs[d + k]
  BY <1>1, <1>2
<1>4. rest = <<>> <=> d = n
  BY <1>1, <1>3
<1>5. ASSUME rest # <<>>
      PROVE  d < n /\ Head(rest) = segs[d + 1] /\ Tail(rest) = SubSeq(segs, d + 2, n)
  <2>1. d < n /\ 1 \in 1..(n - d)
    BY <1>1, <1>3, <1>4, <1>5
  <2>2. Head(rest) = segs[d + 1]
    BY <1>3, <1>5, <2>1
  <2> DEFINE u == Tail(rest)
             v == SubSeq(segs, d + 2, n)
  <2>3. u \in Seq(Text) /\ Len(u) = n - d - 1 /\ \A k \in 1..(n - d - 1) : u[k] = rest[k + 1]
    BY <1>1, <1>3, <1>5, <2>1
  <2>4. v \in Seq(Text) /\ Len(v) = n - d - 1 /\ \A k \in 1..(n - d - 1) : v[k] = segs[d + 1 + k]
    BY <1>1, <2>1
  <2> HIDE DEF u, v
  <2>5. \A k \in 1..(n - d - 1) : u[k] = v[k]
    <3> TAKE k \in 1..(n - d - 1)
    <3>1. k + 1 \in 1..(n - d) /\ d + (k + 1) = d + 1 + k
      BY <1>1
    <3> QED
      BY <1>3, <2>3, <2>4, <3>1
  <2>6. u = v
    BY <2>3, <2>4, <2>5
  <2> QED
    BY <2>1, <2>2, <2>6 DEF u, v
<1> QED
  BY <1>1, <1>4, <1>5 DEF d, rest

\* A search starts at such a spot.
LEMMA TracksStart ==
  ASSUME NEW segs \in Seq(Text)
  PROVE  Tracks(Start(segs), segs)
<1> DEFINE at == Start(segs)
<1>1. at.node = <<>> /\ at.rest = segs /\ at.params = NoParams /\ at \in Spots
  BY DEF Start, Spot, Root, Spots, NoParams, Params
<1>2. OnWay(<<>>, segs) /\ Len(<<>>) = 0
  BY DEF OnWay
<1>3. segs = SubSeq(segs, 1, Len(segs))
  OBVIOUS
<1> HIDE DEF at
<1>4. \A k : at.params = Captured(k, segs, 0)
  BY <1>1, NothingCaptured
<1> QED
  BY <1>1, <1>2, <1>3, <1>4 DEF Tracks, at

\* The static branch goes to such a spot.
LEMMA TracksStatic ==
  ASSUME TrieOK, NEW segs \in Seq(Text), NEW at, Tracks(at, segs), at.rest # <<>>
  PROVE  /\ Tracks(Spot(Append(at.node, Head(at.rest)), Tail(at.rest), at.params), segs)
         /\ Spot(Append(at.node, Head(at.rest)), Tail(at.rest), at.params) \in Nearer(at)
<1> DEFINE d == Len(at.node)
           to == Spot(Append(at.node, Head(at.rest)), Tail(at.rest), at.params)
<1>1. /\ d \in Nat /\ d < Len(segs) /\ Head(at.rest) = segs[d + 1]
      /\ Tail(at.rest) = SubSeq(segs, d + 2, Len(segs)) /\ at.params \in Params
  BY RestIs
<1>2. OnWay(at.node, segs) /\ at \in Spots /\ at.node \in Seq(Key)
  BY OnWayKeys DEF Tracks
<1>3. segs[d + 1] \in Text /\ segs[d + 1] # AnyKey /\ segs[d + 1] \in Key
  BY <1>1, KeysApart DEF Key
<1>4. to \in Nearer(at) /\ to \in Spots
  BY <1>1, <1>2, Steps DEF Nearer
<1>5. to.node = Append(at.node, segs[d + 1]) /\ to.rest = Tail(at.rest) /\ to.params = at.params
  BY <1>1 DEF Spot
<1>6. OnWay(Append(at.node, segs[d + 1]), segs) /\ Len(Append(at.node, segs[d + 1])) = d + 1
  BY <1>1, <1>2, OnWayDown
<1>7. ASSUME WellNamed, NEW k, Under(k, Append(at.node, segs[d + 1]))
      PROVE  at.params = Captured(k, segs, d + 1)
  <2>1. Under(k, at.node) /\ Keys(k)[d + 1] = segs[d + 1]
    BY <1>2, <1>3, <1>7, BelowChild
  <2>2. at.params = Captured(k, segs, d)
    BY <1>7, <2>1 DEF Tracks
  <2> QED
    BY <1>1, <1>3, <2>1, <2>2, StaticCaptures
<1>8. d + 1 + 1 = d + 2
  BY <1>1
<1> HIDE DEF to, d
<1>9. Tracks(to, segs)
  BY <1>1, <1>4, <1>5, <1>6, <1>7, <1>8 DEF Tracks
<1> QED
  BY <1>4, <1>9 DEF to

\* So does the parameter branch, and its name was free.
LEMMA TracksParam ==
  ASSUME TrieOK, NEW segs \in Seq(Text), NEW at, Tracks(at, segs), at.rest # <<>>,
         HasNode(Append(at.node, AnyKey)),
         NEW params \in Params, WellNamed => params = at.params
  PROVE  LET child == Append(at.node, AnyKey)
             to == Spot(child, Tail(at.rest), Insert(params, NameOf(child), <<Head(at.rest)>>))
         IN  /\ Tracks(to, segs) /\ to \in Nearer(at) /\ NameOf(child) \in Name
             /\ WellNamed => params[NameOf(child)] = {}
<1> DEFINE d == Len(at.node)
           child == Append(at.node, AnyKey)
           name == NameOf(child)
           value == <<Head(at.rest)>>
           to == Spot(child, Tail(at.rest), Insert(params, name, value))
<1>1. /\ d \in Nat /\ d < Len(segs) /\ Head(at.rest) = segs[d + 1]
      /\ Tail(at.rest) = SubSeq(segs, d + 2, Len(segs)) /\ at.params \in Params
  BY RestIs
<1>2. OnWay(at.node, segs) /\ at \in Spots /\ at.node \in Seq(Key) /\ AnyKey \in Key
  BY OnWayKeys DEF Tracks, Key
<1>3. child \in Seq(Key) /\ OnWay(child, segs) /\ Len(child) = d + 1
  BY <1>1, <1>2, OnWayDown, OnWayKeys
<1>4. PICK i : Under(i, child)
  BY <1>3, BelowNode DEF HasNode
<1>5. name \in Name /\ \A k : Under(k, child) => name = inventory[k].pattern[d + 1].name
  BY <1>2, <1>4, NameIs
<1>6. \A k : Under(k, child) => /\ k \in DOMAIN inventory /\ Under(k, at.node)
                                /\ d < Len(Keys(k)) /\ Keys(k)[d + 1] = AnyKey
  BY <1>2, BelowChild DEF Under
<1>7. value \in Seq(Text) /\ value = <<segs[d + 1]>>
  BY <1>1, <1>2, Steps
<1> HIDE DEF value
<1>8. Insert(params, name, value) \in Params
  BY <1>7, ParamsTyped
<1>9. to \in Nearer(at) /\ to \in Spots
  BY <1>2, <1>8, Steps DEF Nearer
<1>10. to.node = child /\ to.rest = Tail(at.rest) /\ to.params = Insert(params, name, value)
  BY DEF Spot
<1> HIDE DEF name, child
<1>11. ASSUME WellNamed, NEW k, Under(k, child)
       PROVE  Insert(params, name, value) = Captured(k, segs, d + 1)
  <2>1. params = Captured(k, segs, d)
    BY <1>6, <1>11 DEF Tracks
  <2> QED
    BY <1>1, <1>5, <1>6, <1>7, <1>11, <2>1, ParamCaptures
<1>12. ASSUME WellNamed PROVE params[name] = {}
  <2>1. params = Captured(i, segs, d)
    BY <1>4, <1>6, <1>12 DEF Tracks
  <2>2. At(i, name, d) = {}
    BY <1>1, <1>4, <1>5, <1>6, <1>12, FreshName, KeysAreNoTexts
  <2> QED
    BY <1>5, <2>1, <2>2 DEF Captured
<1>13. d + 1 + 1 = d + 2
  BY <1>1
<1> HIDE DEF to, d
<1>14. Tracks(to, segs)
  BY <1>1, <1>3, <1>9, <1>10, <1>11, <1>13 DEF Tracks
<1> QED
  BY <1>5, <1>9, <1>12, <1>14 DEF to, child, name, value

-----------------------------------------------------------------------------
(* The two branches.                                                        *)

\* The routes that would serve this path with some method.
Able(segs, passes) == {k \in DOMAIN inventory : Serves(inventory[k], passes) /\ Fits(k, segs)}

\* Their methods.
Offered(segs, passes) == {inventory[k].method : k \in Able(segs, passes)}

\* Of the routes that serve m, the exact or the wildcard ones below a node.
Below(node, wild, m, segs, passes) ==
  {k \in Able(segs, passes) : inventory[k].method = m /\ (Wild(k) <=> wild) /\ Under(k, node)}

\* The outcome is the best of S, with its captures.
Chosen(w, S, segs) ==
  \E i : /\ BestOf(i, S) /\ w.route = inventory[i]
         /\ WellNamed => w.params = Capture(inventory[i], segs)

\* What a search returns that started with these captures and had S to find.
Verdict(w, params, S, segs, passes) ==
  /\ w \in Outcomes /\ w.allow \subseteq Offered(segs, passes)
  /\ w.kind = "found" <=> S # {}
  /\ S # {} => Chosen(w, S, segs)
  /\ S = {} /\ WellNamed => w.params = params

\* The search is right wherever fewer segments are left.
Judged(search, at, wild, m, segs, passes) ==
  \A y \in Nearer(at) :
    /\ search[y] \in Outcomes
    /\ Tracks(y, segs) =>
         Verdict(search[y], y.params, Below(y.node, wild, m, segs, passes), segs, passes)

\* Then it is right about the static branch.
LEMMA StaticVerdict ==
  ASSUME TrieOK, NEW segs \in Seq(Text), NEW at, Tracks(at, segs), NEW m, NEW passes,
         NEW wild, NEW search, Judged(search, at, wild, m, segs, passes)
  PROVE  LET S == IF at.rest = <<>> THEN {}
                  ELSE Below(Append(at.node, Head(at.rest)), wild, m, segs, passes)
         IN  Verdict(StaticBranch(search, at), at.params, S, segs, passes)
<1> DEFINE child == Append(at.node, Head(at.rest))
           S == IF at.rest = <<>> THEN {} ELSE Below(child, wild, m, segs, passes)
           w == StaticBranch(search, at)
<1>1. at.params \in Params
  BY RestIs
<1>2. CASE at.rest = <<>> \/ ~HasNode(child)
  <2>1. w = Nothing(at.params)
    BY <1>2 DEF StaticBranch
  <2>2. S = {}
    <3>1. CASE at.rest = <<>>
      BY <3>1
    <3>2. CASE at.rest # <<>> /\ ~HasNode(child)
      <4>1. child \in Seq(Key)
        <5>1. at.node \in Seq(Key) /\ at.node \in Seq(Plainly) /\ Head(at.rest) \in Text
          BY <1>1, <3>2, Steps, OnWayKeys DEF Tracks
        <5>2. Head(at.rest) \in Key
          BY <5>1 DEF Key
        <5> QED
          BY <5>1, <5>2
      <4>2. \A k : ~Under(k, child)
        BY <3>2, <4>1, BelowNode DEF HasNode
      <4> QED
        BY <3>2, <4>2 DEF Below
    <3> QED
      BY <1>2, <3>1, <3>2
  <2>3. w \in Outcomes /\ w.allow = {} /\ w.kind = "nothing" /\ w.params = at.params
    BY <1>1, <2>1, NothingTyped DEF Nothing, Outcome
  <2> QED
    BY <2>2, <2>3 DEF Verdict
<1>3. CASE ~(at.rest = <<>> \/ ~HasNode(child))
  <2> DEFINE to == Spot(child, Tail(at.rest), at.params)
  <2>1. Tracks(to, segs) /\ to \in Nearer(at)
    BY <1>3, TracksStatic
  <2>2. to.node = child /\ to.params = at.params
    BY DEF Spot
  <2>3. w = search[to]
    BY <1>3 DEF StaticBranch
  <2> HIDE DEF to
  <2>4. Verdict(search[to], to.params, Below(to.node, wild, m, segs, passes), segs, passes)
    BY <2>1 DEF Judged
  <2> QED
    BY <1>3, <2>2, <2>3, <2>4
<1> QED
  BY <1>2, <1>3

\* And about the parameter branch, whichever captures that restores.
LEMMA ParamVerdict ==
  ASSUME TrieOK, NEW segs \in Seq(Text), NEW at, Tracks(at, segs), NEW m, NEW passes,
         NEW wild, NEW search, Judged(search, at, wild, m, segs, passes),
         NEW params \in Params, WellNamed => params = at.params, NEW before \in {params, NoParams}
  PROVE  LET S == IF at.rest = <<>> THEN {}
                  ELSE Below(Append(at.node, AnyKey), wild, m, segs, passes)
         IN  Verdict(ParamBranch(search, at, params, before), at.params, S, segs, passes)
<1> DEFINE child == Append(at.node, AnyKey)
           S == IF at.rest = <<>> THEN {} ELSE Below(child, wild, m, segs, passes)
           w == ParamBranch(search, at, params, before)
<1>1. CASE at.rest = <<>> \/ ~HasNode(child)
  <2>1. w = Nothing(params)
    BY <1>1 DEF ParamBranch
  <2>2. S = {}
    <3>1. CASE at.rest = <<>>
      BY <3>1
    <3>2. CASE at.rest # <<>> /\ ~HasNode(child)
      <4>1. child \in Seq(Key)
        <5>1. at.node \in Seq(Key) /\ AnyKey \in Key
          BY OnWayKeys DEF Tracks, Key
        <5> QED
          BY <5>1
      <4>2. \A k : ~Under(k, child)
        BY <3>2, <4>1, BelowNode DEF HasNode
      <4> QED
        BY <3>2, <4>2 DEF Below
    <3> QED
      BY <1>1, <3>1, <3>2
  <2>3. w \in Outcomes /\ w.allow = {} /\ w.kind = "nothing" /\ w.params = params
    BY <2>1, NothingTyped DEF Nothing, Outcome
  <2> QED
    BY <2>2, <2>3 DEF Verdict
<1>2. CASE ~(at.rest = <<>> \/ ~HasNode(child))
  <2> DEFINE name == NameOf(child)
             value == <<Head(at.rest)>>
             to == Spot(child, Tail(at.rest), Insert(params, name, value))
             branch == search[to]
             T == Below(child, wild, m, segs, passes)
  <2>1. /\ Tracks(to, segs) /\ to \in Nearer(at) /\ name \in Name
        /\ WellNamed => params[name] = {}
    BY <1>2, TracksParam
  <2>2. to.node = child /\ to.params = Insert(params, name, value)
    BY DEF Spot
  <2>3. w = Leave(branch, name, before)
    BY <1>2 DEF ParamBranch
  <2>4. S = T
    BY <1>2
  <2> HIDE DEF to, value, name, w, S, T
  <2>5. Verdict(branch, Insert(params, name, value), T, segs, passes)
    BY <2>1, <2>2 DEF Judged, T
  <2> HIDE DEF branch
  <2>6. branch \in Outcomes /\ before \in Params
    BY <2>5 DEF Verdict, NoParams, Params
  <2>7. /\ w \in Outcomes /\ w.kind = branch.kind /\ w.route = branch.route
        /\ w.allow = branch.allow
        /\ w.params = IF branch.kind = "found" THEN branch.params
                      ELSE Restored(branch.params, name, before)
    <3> DEFINE left == Leave(branch, name, before)
    <3>1. /\ left \in Outcomes /\ left.kind = branch.kind /\ left.route = branch.route
          /\ left.allow = branch.allow
          /\ left.params = IF branch.kind = "found" THEN branch.params
                           ELSE Restored(branch.params, name, before)
      BY <2>6, LeaveIs
    <3> HIDE DEF left
    <3>2. w = left
      BY <2>3 DEF left
    <3> QED
      BY <3>1, <3>2
  <2>8. ASSUME T # {} PROVE Chosen(w, T, segs)
    <3>1. w.params = branch.params /\ w.route = branch.route
      BY <2>5, <2>7, <2>8 DEF Verdict
    <3>2. Chosen(branch, T, segs)
      BY <2>5, <2>8 DEF Verdict
    <3> QED
      BY <3>1, <3>2 DEF Chosen
  <2>9. ASSUME T = {}, WellNamed PROVE w.params = at.params
    <3>1. w.params = [Insert(params, name, value) EXCEPT ![name] = before[name]]
      BY <2>5, <2>7, <2>9 DEF Verdict, Restored
    <3>2. before[name] = params[name]
      BY <2>1, <2>9 DEF NoParams
    <3>3. params = [n \in Name |-> params[n]] /\ DOMAIN params = Name
      BY DEF Params
    <3>4. [Insert(params, name, value) EXCEPT ![name] = params[name]] = params
      BY <3>3 DEF Insert
    <3> QED
      BY <2>9, <3>1, <3>2, <3>4
  <2>10. Verdict(w, at.params, T, segs, passes)
    BY <2>5, <2>7, <2>8, <2>9 DEF Verdict
  <2> QED
    BY <2>4, <2>10 DEF w, S
<1> QED
  BY <1>1, <1>2

-----------------------------------------------------------------------------
(* The two walks.                                                           *)

\* A node's own wildcard gives an outcome.
LEMMA OwnTyped ==
  ASSUME TrieOK, NEW at \in Spots, NEW m, NEW passes, NEW deeper \in Outcomes
  PROVE  OwnWildcard(at, m, passes, deeper) \in Outcomes
<1> DEFINE path == Append(at.node, RestKey)
           route == Pick(path, m, passes)
           methods == MethodsMatching(path, passes) \cup deeper.allow
<1>1. deeper.params \in Params /\ deeper.allow \subseteq Method /\ at.rest \in Seq(Text)
  BY DEF Outcomes, Spots
<1>2. Refused(deeper.params) \in Outcomes
  BY <1>1 DEF Refused, Outcome, Outcomes
<1>3. route \in Routes \cup {NoRoute}
  BY PickTyped
<1>4. methods \subseteq Method
  <2>1. \A k \in Candidates(path) : inventory[k].method \in Method
    BY RouteFacts DEF Candidates
  <2> QED
    BY <1>1, <2>1 DEF MethodsMatching
<1> HIDE DEF route, methods
<1>5. /\ Insert(deeper.params, NameOf(path), at.rest) \in Params
      /\ Without(deeper.params, NameOf(path)) \in Params
  BY <1>1, ParamsTyped
<1> DEFINE inserted == Insert(deeper.params, NameOf(path), at.rest)
           cleared == Without(deeper.params, NameOf(path))
<1>6. ThisWildcard(path, at.rest, passes, deeper, route)
        = IF route # NoRoute THEN Found(route, inserted) ELSE Mismatch(methods, cleared)
  BY DEF ThisWildcard, methods
<1> HIDE DEF inserted, cleared
<1>7. Found(route, inserted) \in Outcomes /\ Mismatch(methods, cleared) \in Outcomes
  BY <1>3, <1>4, <1>5 DEF Found, Mismatch, Outcome, Outcomes, inserted, cleared
<1>8. ThisWildcard(path, at.rest, passes, deeper, route) \in Outcomes
  BY <1>6, <1>7
<1> HIDE DEF path
<1> QED
  BY <1>2, <1>8 DEF OwnWildcard, route, path

\* Of two branches that failed the methods of both at most are remembered.
LEMMA AbandonedIs ==
  ASSUME NEW first \in Outcomes, NEW second \in Outcomes,
         first.kind # "found", second.kind # "found"
  PROVE  /\ Abandoned(first, second) \in Outcomes /\ Abandoned(first, second).kind # "found"
         /\ Abandoned(first, second).params = second.params
         /\ Abandoned(first, second).allow \subseteq first.allow \cup second.allow
<1>1. CASE second.kind = "nothing"
  <2>1. Abandoned(first, second) = [first EXCEPT !.params = second.params]
    BY <1>1 DEF Abandoned
  <2> QED
    BY <2>1 DEF Outcomes
<1>2. CASE second.kind # "nothing"
  BY <1>2 DEF Abandoned
<1> QED
  BY <1>1, <1>2

\* The step of walk_wildcard is typed, and depends on nearer spots only.
LEMMA DeepestIs ==
  ASSUME TrieOK, NEW m, NEW passes, NEW at \in Spots, NEW h,
         \A y \in Nearer(at) : h[y] \in Outcomes
  PROVE  /\ Deepest(h, at, m, passes) \in Outcomes
         /\ \A k : (\A y \in Nearer(at) : h[y] = k[y])
                     => Deepest(h, at, m, passes) = Deepest(k, at, m, passes)
<1> DEFINE first == StaticBranch(h, at)
           second == ParamBranch(h, at, first.params, NoParams)
<1>1. at.params \in Params /\ NoParams \in Params
  BY DEF Spots, Params, NoParams
<1>2. first \in Outcomes
  BY <1>1, BranchesTyped
<1>3. first.params \in Params
  BY <1>2 DEF Outcomes
<1>4. second \in Outcomes
  BY <1>1, <1>3, BranchesTyped
<1>5. Deepest(h, at, m, passes)
        = IF first.kind = "found" THEN first ELSE AfterStatic(at, m, passes, first, second)
  BY DEF Deepest
<1>6. ASSUME NEW k, \A y \in Nearer(at) : h[y] = k[y]
      PROVE  Deepest(h, at, m, passes) = Deepest(k, at, m, passes)
  <2>1. StaticBranch(h, at) = StaticBranch(k, at)
    BY <1>1, <1>6, BranchesDepend
  <2>2. ParamBranch(h, at, first.params, NoParams) = ParamBranch(k, at, first.params, NoParams)
    BY <1>3, <1>6, BranchesDepend
  <2> QED
    BY <2>1, <2>2 DEF Deepest
<1> HIDE DEF first, second
<1>7. ASSUME first.kind # "found" PROVE AfterStatic(at, m, passes, first, second) \in Outcomes
  <2>1. CASE second.kind = "found"
    BY <1>4, <2>1 DEF AfterStatic
  <2>2. CASE second.kind # "found"
    <3>1. Abandoned(first, second) \in Outcomes
      BY <1>2, <1>4, <1>7, <2>2, AbandonedIs
    <3> QED
      BY <2>2, <3>1, OwnTyped DEF AfterStatic
  <2> QED
    BY <2>1, <2>2
<1> QED
  BY <1>2, <1>5, <1>6, <1>7

\* A solution of the equation of walk_wildcard.
SolvesWildcard(walk, m, passes) == walk = [at \in Spots |-> Deepest(walk, at, m, passes)]

\* walk_wildcard returns an outcome and satisfies its equation.
LEMMA WildcardUnfolds ==
  ASSUME TrieOK, NEW m, NEW passes
  PROVE  /\ WalkWildcard(m, passes) \in [Spots -> Outcomes]
         /\ \A at \in Spots :
              WalkWildcard(m, passes)[at] = Deepest(WalkWildcard(m, passes), at, m, passes)
<1> DEFINE g == [h \in [Spots -> Outcomes] |-> [at \in Spots |-> Deepest(h, at, m, passes)]]
<1>1. g \in [[Spots -> Outcomes] -> [Spots -> Outcomes]]
  <2>1. \A h \in [Spots -> Outcomes] : \A at \in Spots : Deepest(h, at, m, passes) \in Outcomes
    <3> TAKE h \in [Spots -> Outcomes]
    <3> TAKE at \in Spots
    <3>1. \A y \in Nearer(at) : h[y] \in Outcomes
      BY DEF Nearer
    <3> QED
      BY <3>1, DeepestIs
  <2> QED
    BY <2>1
<1>2. \A h, k \in [Spots -> Outcomes] : \A at \in Spots :
        (\A y \in Spots : Distance[y] < Distance[at] => h[y] = k[y]) => g[h][at] = g[k][at]
  <2> TAKE h, k \in [Spots -> Outcomes]
  <2> TAKE at \in Spots
  <2> HAVE \A y \in Spots : Distance[y] < Distance[at] => h[y] = k[y]
  <2>1. \A y \in Nearer(at) : h[y] \in Outcomes /\ h[y] = k[y]
    BY DistanceTyped
  <2>2. Deepest(h, at, m, passes) = Deepest(k, at, m, passes)
    BY <2>1, DeepestIs
  <2> QED
    BY <2>2
<1>3. Nothing(NoParams) \in Outcomes
  BY NothingTyped DEF NoParams, Params
<1> DEFINE X == Spots
           V == Outcomes
           v == Nothing(NoParams)
           size == Distance
<1>4. v \in V /\ size \in [X -> Nat] /\ g \in [[X -> V] -> [X -> V]]
  BY <1>1, <1>3, DistanceTyped
<1>5. Descends(g, size, X, V)
  BY <1>2 DEF Descends
<1> HIDE DEF X, V, v, size, g
<1>6. PICK f \in [X -> V] : Solves(f, g)
  BY <1>4, <1>5, Recursion
<1>7. SolvesWildcard(f, m, passes)
  BY <1>6 DEF Solves, SolvesWildcard, g, X, V
<1>8. SolvesWildcard(WalkWildcard(m, passes), m, passes)
  <2>1. WalkWildcard(m, passes) = CHOOSE walk : SolvesWildcard(walk, m, passes)
    BY DEF WalkWildcard, SolvesWildcard
  <2> QED
    BY <1>7, <2>1
<1> DEFINE walk == WalkWildcard(m, passes)
<1> HIDE DEF walk
<1>9. DOMAIN walk = Spots /\ \A at \in Spots : walk[at] = Deepest(walk, at, m, passes)
  BY <1>8 DEF SolvesWildcard, walk
<1> DEFINE P == {at \in Spots : walk[at] \in Outcomes}
<1>10. \A at \in Spots : (\A y \in Spots : Distance[y] < Distance[at] => y \in P) => at \in P
  <2> TAKE at \in Spots
  <2> HAVE \A y \in Spots : Distance[y] < Distance[at] => y \in P
  <2>1. \A y \in Nearer(at) : walk[y] \in Outcomes
    BY DistanceTyped
  <2> QED
    BY <1>9, <2>1, DeepestIs
<1>11. Spots \subseteq P
  <2> HIDE DEF P
  <2> QED
    BY <1>10, DistanceTyped, SmallestFirst
<1>12. walk = [at \in Spots |-> walk[at]]
  BY <1>8 DEF SolvesWildcard, walk
<1> QED
  BY <1>9, <1>11, <1>12 DEF walk

\* walk_matching serves the best exact route below its spot, or restores the
\* captures.
LEMMA MatchingVerdict ==
  ASSUME TrieOK, NEW segs \in Seq(Text), NEW m, NEW passes
  PROVE  \A at \in Spots : Tracks(at, segs) =>
           Verdict(WalkMatching(m, passes)[at], at.params,
                   Below(at.node, FALSE, m, segs, passes), segs, passes)
<1> DEFINE walk == WalkMatching(m, passes)
           Right(at) == Tracks(at, segs) =>
              Verdict(walk[at], at.params, Below(at.node, FALSE, m, segs, passes), segs, passes)
           P == {at \in Spots : Right(at)}
<1>1. walk \in [Spots -> Outcomes] /\ \A at \in Spots : walk[at] = MatchingStep(walk, at, m, passes)
  BY MatchingUnfolds
<1> HIDE DEF walk
<1>2. ASSUME NEW at \in Spots, \A y \in Nearer(at) : Right(y), Tracks(at, segs)
      PROVE  Verdict(walk[at], at.params, Below(at.node, FALSE, m, segs, passes), segs, passes)
  <2> DEFINE S == Below(at.node, FALSE, m, segs, passes)
             w == walk[at]
  <2>1. Judged(walk, at, FALSE, m, segs, passes)
    BY <1>1, <1>2 DEF Judged, Nearer
  <2>2. OnWay(at.node, segs) /\ at.node \in Seq(Key) /\ w \in Outcomes /\ at.params \in Params
    BY <1>1, <1>2, OnWayKeys, RestIs DEF Tracks
  <2>3. CASE at.rest = <<>>
    <3> DEFINE c == Pickable(at.node, m, passes)
    <3>1. Len(at.node) = Len(segs)
      BY <1>2, <2>3, RestIs
    <3>2. \A k : k \in S <=> k \in c
      <4>1. ASSUME NEW k \in S PROVE k \in c
        <5>1. /\ k \in DOMAIN inventory /\ Fits(k, segs) /\ ~Wild(k) /\ Under(k, at.node)
              /\ inventory[k].method = m /\ Serves(inventory[k], passes)
          BY DEF Below, Able
        <5> QED
          BY <2>2, <3>1, <5>1, ExactSplit DEF Pickable
      <4>2. ASSUME NEW k \in c PROVE k \in S
        BY <2>2, <3>1, LeafFits DEF Below, Able, Pickable
      <4> QED
        BY <4>1, <4>2
    <3>3. S = c
      BY <3>2
    <3>4. w = Accept(at, Pick(at.node, m, passes))
      BY <1>1, <2>3 DEF MatchingStep
    <3>5. /\ c = {} => Pick(at.node, m, passes) = NoRoute
          /\ c # {} => \E i : /\ BestOf(i, c) /\ Pick(at.node, m, passes) = inventory[i]
                              /\ inventory[i] # NoRoute
      BY <2>2, PickIs
    <3>6. CASE S = {}
      <4>1. w = Nothing(at.params)
        BY <3>3, <3>4, <3>5, <3>6 DEF Accept
      <4>2. w.kind = "nothing" /\ w.allow = {} /\ w.params = at.params
        BY <4>1 DEF Nothing, Outcome
      <4> QED
        BY <2>2, <3>6, <4>2 DEF Verdict
    <3>7. CASE S # {}
      <4>1. PICK i : /\ BestOf(i, c) /\ Pick(at.node, m, passes) = inventory[i]
                     /\ inventory[i] # NoRoute
        BY <3>3, <3>5, <3>7
      <4>2. w = Found(inventory[i], at.params)
        BY <3>4, <4>1 DEF Accept
      <4>3. w.kind = "found" /\ w.allow = {} /\ w.params = at.params /\ w.route = inventory[i]
        BY <4>2 DEF Found, Outcome
      <4>4. i \in Candidates(at.node)
        BY <4>1 DEF BestOf, Pickable
      <4>5. i \in DOMAIN inventory /\ Fits(i, segs) /\ ~Wild(i) /\ Under(i, at.node)
        BY <2>2, <3>1, <4>4, LeafFits
      <4>6. WellNamed => at.params = Capture(inventory[i], segs)
        BY <1>2, <3>1, <4>5, ExactCapture DEF Tracks
      <4>7. Chosen(w, S, segs)
        BY <3>3, <4>1, <4>3, <4>6 DEF Chosen
      <4> QED
        BY <2>2, <3>7, <4>3, <4>7 DEF Verdict
    <3> QED
      BY <3>6, <3>7
  <2>4. CASE at.rest # <<>>
    <3> DEFINE d == Len(at.node)
               A == Below(Append(at.node, Head(at.rest)), FALSE, m, segs, passes)
               B == Below(Append(at.node, AnyKey), FALSE, m, segs, passes)
               first == StaticBranch(walk, at)
               second == ParamBranch(walk, at, first.params, first.params)
    <3>1. d < Len(segs) /\ Head(at.rest) = segs[d + 1] /\ d \in Nat
      BY <1>2, <2>4, RestIs
    <3>2. segs[d + 1] \in Key /\ AnyKey \in Key
      BY <3>1, KeysApart DEF Key
    <3>3. S = A \cup B
      <4>1. ASSUME NEW k \in S PROVE k \in A \cup B
        <5>1. /\ k \in DOMAIN inventory /\ Fits(k, segs) /\ ~Wild(k) /\ Under(k, at.node)
          BY DEF Below, Able
        <5>2. Under(k, Append(at.node, segs[d + 1])) \/ Under(k, Append(at.node, AnyKey))
          BY <2>2, <3>1, <5>1, ExactSplit
        <5> QED
          BY <3>1, <5>2 DEF Below
      <4>2. ASSUME NEW k \in A \cup B PROVE k \in S
        <5>1. Under(k, Append(at.node, segs[d + 1])) \/ Under(k, Append(at.node, AnyKey))
          BY <3>1 DEF Below
        <5>2. Under(k, at.node)
          BY <2>2, <3>2, <5>1, BelowChild
        <5> QED
          BY <5>2 DEF Below
      <4> QED
        BY <4>1, <4>2
    <3>4. \A i \in A : \A j \in B : Preferred(i, j)
      <4> TAKE i \in A
      <4> TAKE j \in B
      <4>1. /\ Under(i, Append(at.node, segs[d + 1])) /\ Under(j, Append(at.node, AnyKey))
            /\ Wild(i) <=> Wild(j)
        BY <3>1 DEF Below
      <4> QED
        BY <2>2, <3>1, <4>1, StaticBeforeParam
    <3>5. Verdict(first, at.params, A, segs, passes)
      BY <1>2, <2>1, <2>4, StaticVerdict
    <3>6. w = IF first.kind = "found" THEN first ELSE second
      BY <1>1, <2>4 DEF MatchingStep, Matching
    <3>7. CASE first.kind = "found"
      <4>1. w = first /\ A # {} /\ S # {}
        BY <3>3, <3>5, <3>6, <3>7 DEF Verdict
      <4>2. Chosen(first, A, segs)
        BY <3>5, <4>1 DEF Verdict
      <4> HIDE DEF first, second, A, B, S, w
      <4>3. Chosen(first, S, segs)
        BY <3>3, <3>4, <4>2 DEF Chosen, BestOf
      <4> QED
        BY <3>5, <3>7, <4>1, <4>3 DEF Verdict, S, w
    <3>8. CASE first.kind # "found"
      <4>1. A = {} /\ first.params \in Params /\ (WellNamed => first.params = at.params)
        BY <3>5, <3>8 DEF Verdict, Outcomes
      <4>2. Verdict(second, at.params, B, segs, passes)
        BY <1>2, <2>1, <2>4, <4>1, ParamVerdict
      <4>3. w = second /\ S = B
        BY <3>3, <3>6, <3>8, <4>1
      <4> QED
        BY <4>2, <4>3
    <3> QED
      BY <3>7, <3>8
  <2> QED
    BY <2>3, <2>4
<1>3. \A at \in Spots : (\A y \in Spots : Distance[y] < Distance[at] => y \in P) => at \in P
  <2> TAKE at \in Spots
  <2> HAVE \A y \in Spots : Distance[y] < Distance[at] => y \in P
  <2>1. \A y \in Nearer(at) : Right(y)
    BY DistanceTyped
  <2>2. Right(at)
    BY <1>2, <2>1
  <2> QED
    BY <2>2
<1>4. Spots \subseteq P
  <2> HIDE DEF P
  <2> QED
    BY <1>3, DistanceTyped, SmallestFirst
<1> QED
  BY <1>4 DEF walk

\* The routes of a node's own wildcard that serve.
Own(node, m, segs, passes) ==
  {k \in Able(segs, passes) : inventory[k].method = m /\ k \in Candidates(Append(node, RestKey))}

\* They have the name of its edge.
LEMMA WildName ==
  ASSUME TrieOK, NEW segs \in Seq(Text), NEW node, OnWay(node, segs), WellNamed,
         NEW k \in Through(Append(node, RestKey))
  PROVE  /\ k \in Candidates(Append(node, RestKey))
         /\ NameOf(Append(node, RestKey)) = inventory[k].pattern[Len(node) + 1].name
<1> DEFINE own == Append(node, RestKey)
           f == First(Through(own))
<1>1. node \in Seq(Key) /\ Len(node) \in Nat /\ RestKey \in Key
  BY OnWayKeys DEF Key
<1>2. own \in Seq(Key) /\ Len(own) = Len(node) + 1
  BY <1>1
<1>3. \A j \in Through(own) : j \in DOMAIN inventory /\ j \in Candidates(own) /\ Keys(j) = own
  <2> TAKE j \in Through(own)
  <2>1. Under(j, own)
    BY <1>2, BelowNode
  <2>2. /\ j \in DOMAIN inventory /\ Len(node) < Len(Keys(j)) /\ Keys(j)[Len(node) + 1] = RestKey
    BY <1>1, <2>1, BelowChild DEF Under
  <2>3. Len(Keys(j)) \in Nat /\ Len(node) + 1 \in 1..Len(Keys(j))
    BY <1>1, <2>2, RouteFacts
  <2>4. Len(Keys(j)) = Len(node) + 1
    BY <2>2, <2>3, RouteFacts
  <2>5. j \in Candidates(own)
    BY <1>2, <2>1, <2>4, BelowNode
  <2> QED
    BY <2>2, <2>5 DEF Candidates, Keys
<1>4. f \in Through(own)
  <2>1. Through(own) \subseteq Nat /\ Through(own) # {}
    BY <1>3, RouteFacts
  <2> QED
    BY <2>1, FirstIs
<1>5. inventory[f].pattern = inventory[k].pattern
  BY <1>3, <1>4 DEF WellNamed, Keys
<1> HIDE DEF f
<1>6. NameOf(own) = inventory[f].pattern[Len(own)].name
  BY DEF NameOf, f
<1> QED
  BY <1>2, <1>3, <1>5, <1>6

\* Once nothing deeper served, the node's own wildcard is right.
LEMMA OwnVerdict ==
  ASSUME TrieOK, NEW segs \in Seq(Text), NEW at, Tracks(at, segs), NEW m, NEW passes,
         NEW deeper \in Outcomes, deeper.kind # "found",
         deeper.allow \subseteq Offered(segs, passes),
         WellNamed => deeper.params = at.params
  PROVE  Verdict(OwnWildcard(at, m, passes, deeper), at.params, Own(at.node, m, segs, passes),
                 segs, passes)
<1> DEFINE path == Append(at.node, RestKey)
           d == Len(at.node)
           S == Own(at.node, m, segs, passes)
           w == OwnWildcard(at, m, passes, deeper)
           route == Pick(path, m, passes)
<1>1. /\ d \in Nat /\ d \in 0..Len(segs) /\ at.rest = SubSeq(segs, d + 1, Len(segs))
      /\ OnWay(at.node, segs) /\ at.params \in Params
  <2>1. d \in Nat /\ d <= Len(segs) /\ at.params \in Params
    BY RestIs
  <2> HIDE DEF d
  <2>2. d \in 0..Len(segs)
    BY <2>1
  <2> QED
    BY <2>1, <2>2 DEF Tracks, d
<1>2. at.node \in Seq(Key) /\ path \in Seq(Key) /\ Len(path) = d + 1 /\ at \in Spots
  <2>1. RestKey \in Key
    BY DEF Key
  <2> QED
    BY <1>1, <2>1, OnWayKeys DEF Tracks
<1>3. HasSeparator(at.rest) <=> ~Clear(segs, d)
  BY <1>1, Separators DEF Clear
<1>4. \A k \in Candidates(path) :
        /\ k \in DOMAIN inventory /\ Wild(k) /\ Under(k, at.node) /\ Len(Keys(k)) = d + 1
        /\ Fits(k, segs) <=> Clear(segs, d)
  BY <1>1, OwnFits
<1>5. w \in Outcomes
  BY <1>2, OwnTyped
<1>6. CASE ~HasNode(path)
  <2>1. \A k : k \notin Candidates(path)
    BY <1>2, <1>6, BelowNode DEF HasNode
  <2>2. S = {} /\ w = deeper
    BY <1>6, <2>1 DEF Own, OwnWildcard
  <2> QED
    BY <2>2 DEF Verdict
<1>7. CASE HasNode(path) /\ HasSeparator(at.rest)
  <2>1. S = {}
    BY <1>3, <1>4, <1>7 DEF Own, Able
  <2>2. w = Refused(deeper.params)
    BY <1>7 DEF OwnWildcard
  <2>3. w.kind = "badPath" /\ w.allow = {} /\ w.params = deeper.params
    BY <2>2 DEF Refused, Outcome
  <2> QED
    BY <1>5, <2>1, <2>3 DEF Verdict
<1>8. CASE HasNode(path) /\ ~HasSeparator(at.rest)
  <2> DEFINE c == Pickable(path, m, passes)
  <2>1. S = c
    BY <1>3, <1>4, <1>8 DEF Own, Able, Pickable
  <2>2. w = ThisWildcard(path, at.rest, passes, deeper, route)
    BY <1>8 DEF OwnWildcard
  <2>3. /\ c = {} => route = NoRoute
        /\ c # {} => \E i : BestOf(i, c) /\ route = inventory[i] /\ inventory[i] # NoRoute
    BY <1>2, PickIs
  <2> HIDE DEF route
  <2>4. CASE S = {}
    <3>1. w = Mismatch(MethodsMatching(path, passes) \cup deeper.allow,
                       Without(deeper.params, NameOf(path)))
      BY <2>1, <2>2, <2>3, <2>4 DEF ThisWildcard
    <3>2. /\ w.kind = "mismatch" /\ w.allow = MethodsMatching(path, passes) \cup deeper.allow
          /\ w.params = Without(deeper.params, NameOf(path))
      BY <3>1 DEF Mismatch, Outcome
    <3>3. MethodsMatching(path, passes) \subseteq Offered(segs, passes)
      BY <1>3, <1>4, <1>8 DEF MethodsMatching, Offered, Able
    <3>4. ASSUME WellNamed PROVE Without(deeper.params, NameOf(path)) = at.params
      <4>1. PICK k : k \in Through(path)
        BY <1>8 DEF HasNode
      <4>2. k \in Candidates(path) /\ NameOf(path) = inventory[k].pattern[d + 1].name
        BY <1>1, <3>4, <4>1, WildName
      <4>3. /\ k \in DOMAIN inventory /\ Wild(k) /\ Under(k, at.node) /\ Len(Keys(k)) = d + 1
        BY <1>4, <4>2
      <4>4. at.params = Captured(k, segs, d)
        BY <3>4, <4>3 DEF Tracks
      <4>5. Keys(k)[d + 1] \notin Text /\ d < Len(Keys(k))
        BY <1>1, <4>3, KeysAreNoTexts DEF Wild
      <4>6. At(k, NameOf(path), d) = {}
        BY <1>1, <3>4, <4>2, <4>3, <4>5, FreshName
      <4> DEFINE n == NameOf(path)
      <4> HIDE DEF n
      <4>7. n \in Name => at.params[n] = {}
        BY <4>4, <4>6 DEF Captured, n
      <4>8. at.params = [x \in Name |-> at.params[x]]
        BY <1>1 DEF Params
      <4>9. [at.params EXCEPT ![n] = {}] = at.params
        BY <4>7, <4>8
      <4> QED
        BY <3>4, <4>9 DEF Without, n
    <3> QED
      BY <1>5, <2>4, <3>2, <3>3, <3>4 DEF Verdict
  <2>5. CASE S # {}
    <3>1. PICK i : BestOf(i, c) /\ route = inventory[i] /\ inventory[i] # NoRoute
      BY <2>1, <2>3, <2>5
    <3>2. w = Found(inventory[i], Insert(deeper.params, NameOf(path), at.rest))
      BY <2>2, <3>1 DEF ThisWildcard
    <3>3. /\ w.kind = "found" /\ w.route = inventory[i] /\ w.allow = {}
          /\ w.params = Insert(deeper.params, NameOf(path), at.rest)
      BY <3>2 DEF Found, Outcome
    <3>4. ASSUME WellNamed PROVE w.params = Capture(inventory[i], segs)
      <4>1. i \in Candidates(path)
        BY <3>1 DEF BestOf, Pickable
      <4>2. /\ i \in DOMAIN inventory /\ Wild(i) /\ Under(i, at.node) /\ Len(Keys(i)) = d + 1
            /\ Fits(i, segs)
        BY <1>3, <1>4, <1>8, <4>1
      <4>3. i \in Through(path)
        BY <1>2, <4>1, BelowNode
      <4>4. NameOf(path) = inventory[i].pattern[d + 1].name
        BY <1>1, <3>4, <4>3, WildName
      <4>5. at.params = Captured(i, segs, d)
        BY <3>4, <4>2 DEF Tracks
      <4> QED
        BY <1>1, <3>3, <3>4, <4>2, <4>4, <4>5, WildCapture
    <3>5. Chosen(w, S, segs)
      BY <2>1, <3>1, <3>3, <3>4 DEF Chosen
    <3> QED
      BY <1>5, <2>5, <3>3, <3>5 DEF Verdict
  <2> QED
    BY <2>4, <2>5
<1> QED
  BY <1>6, <1>7, <1>8

\* walk_wildcard serves the best wildcard route below its spot, or restores the
\* captures.
LEMMA WildcardVerdict ==
  ASSUME TrieOK, NEW segs \in Seq(Text), NEW m, NEW passes
  PROVE  \A at \in Spots : Tracks(at, segs) =>
           Verdict(WalkWildcard(m, passes)[at], at.params,
                   Below(at.node, TRUE, m, segs, passes), segs, passes)
<1> DEFINE walk == WalkWildcard(m, passes)
           Right(at) == Tracks(at, segs) =>
              Verdict(walk[at], at.params, Below(at.node, TRUE, m, segs, passes), segs, passes)
           P == {at \in Spots : Right(at)}
<1>1. walk \in [Spots -> Outcomes] /\ \A at \in Spots : walk[at] = Deepest(walk, at, m, passes)
  BY WildcardUnfolds
<1> HIDE DEF walk
<1>2. ASSUME NEW at \in Spots, \A y \in Nearer(at) : Right(y), Tracks(at, segs)
      PROVE  Verdict(walk[at], at.params, Below(at.node, TRUE, m, segs, passes), segs, passes)
  <2> DEFINE d == Len(at.node)
             S == Below(at.node, TRUE, m, segs, passes)
             w == walk[at]
             A == IF at.rest = <<>> THEN {}
                  ELSE Below(Append(at.node, Head(at.rest)), TRUE, m, segs, passes)
             B == IF at.rest = <<>> THEN {}
                  ELSE Below(Append(at.node, AnyKey), TRUE, m, segs, passes)
             C == Own(at.node, m, segs, passes)
             first == StaticBranch(walk, at)
             second == ParamBranch(walk, at, first.params, NoParams)
  <2>1. Judged(walk, at, TRUE, m, segs, passes)
    BY <1>1, <1>2 DEF Judged, Nearer
  <2>2. OnWay(at.node, segs) /\ at.node \in Seq(Key) /\ d \in Nat
    BY <1>2, OnWayKeys, RestIs DEF Tracks
  <2>3. /\ at.rest = <<>> <=> d = Len(segs)
        /\ at.rest # <<>> => d < Len(segs) /\ Head(at.rest) = segs[d + 1]
    BY <1>2, RestIs
  <2>4. at.rest # <<>> => segs[d + 1] \in Key /\ AnyKey \in Key
    BY <2>2, <2>3, KeysApart DEF Key
  <2>5. \A k \in A \cup B \cup C : k \in S
    <3>1. ASSUME NEW k \in A \cup B PROVE k \in S
      <4>1. /\ at.rest # <<>>
            /\ Under(k, Append(at.node, segs[d + 1])) \/ Under(k, Append(at.node, AnyKey))
        BY <2>3 DEF Below
      <4>2. Under(k, at.node)
        BY <2>2, <2>4, <4>1, BelowChild
      <4> QED
        BY <4>2 DEF Below
    <3>2. ASSUME NEW k \in C PROVE k \in S
      <4>1. Wild(k) /\ Under(k, at.node)
        BY <2>2, OwnFits DEF Own
      <4> QED
        BY <4>1 DEF Below, Own
    <3> QED
      BY <3>1, <3>2
  <2>6. \A k \in S : k \in A \cup B \cup C
    <3> TAKE k \in S
    <3>1. k \in DOMAIN inventory /\ Fits(k, segs) /\ Wild(k) /\ Under(k, at.node)
      BY DEF Below, Able
    <3>2. CASE k \in Candidates(Append(at.node, RestKey))
      BY <3>2 DEF Own, Below
    <3>3. CASE /\ d < Len(segs)
               /\ \/ Under(k, Append(at.node, segs[d + 1]))
                  \/ Under(k, Append(at.node, AnyKey))
      <4>1. at.rest # <<>> /\ Head(at.rest) = segs[d + 1]
        BY <2>2, <2>3, <3>3
      <4> QED
        BY <3>3, <4>1 DEF Below
    <3> QED
      BY <2>2, <3>1, <3>2, <3>3, WildSplit
  <2>7. S = A \cup B \cup C
    BY <2>5, <2>6
  <2>8. \A i \in A : \A j \in B : Preferred(i, j)
    <3> TAKE i \in A
    <3> TAKE j \in B
    <3>1. /\ Under(i, Append(at.node, segs[d + 1])) /\ Under(j, Append(at.node, AnyKey))
          /\ (Wild(i) <=> Wild(j)) /\ d < Len(segs)
      BY <2>3 DEF Below
    <3> QED
      BY <2>2, <3>1, StaticBeforeParam
  <2>9. \A i \in A \cup B : \A j \in C : Preferred(i, j)
    <3> TAKE i \in A \cup B
    <3> TAKE j \in C
    <3>1. PICK key \in {segs[d + 1], AnyKey} : Under(i, Append(at.node, key))
      BY <2>3 DEF Below
    <3>2. Wild(i) /\ d < Len(segs) /\ j \in Candidates(Append(at.node, RestKey))
      BY <2>3 DEF Below, Own
    <3> QED
      BY <2>2, <3>1, <3>2, DeeperBeforeOwn
  <2>10. Verdict(first, at.params, A, segs, passes)
    BY <1>2, <2>1, StaticVerdict
  <2>11. w = IF first.kind = "found" THEN first ELSE AfterStatic(at, m, passes, first, second)
    BY <1>1 DEF Deepest
  <2>12. CASE first.kind = "found"
    <3>1. w = first /\ A # {} /\ S # {}
      BY <2>7, <2>10, <2>11, <2>12 DEF Verdict
    <3>2. Chosen(first, A, segs)
      BY <2>10, <3>1 DEF Verdict
    <3> HIDE DEF first, second, A, B, C, S, w
    <3>3. Chosen(first, S, segs)
      BY <2>7, <2>8, <2>9, <3>2 DEF Chosen, BestOf
    <3> QED
      BY <2>10, <2>12, <3>1, <3>3 DEF Verdict, S, w
  <2>13. CASE first.kind # "found"
    <3>1. /\ A = {} /\ first \in Outcomes /\ first.params \in Params
          /\ first.allow \subseteq Offered(segs, passes)
          /\ WellNamed => first.params = at.params
      BY <2>10, <2>13 DEF Verdict, Outcomes
    <3>2. Verdict(second, at.params, B, segs, passes)
      BY <1>2, <2>1, <3>1, ParamVerdict
    <3>3. w = AfterStatic(at, m, passes, first, second)
      BY <2>11, <2>13
    <3> HIDE DEF first, second, A, B, C, w
    <3>4. CASE second.kind = "found"
      <4>1. w = second /\ B # {} /\ S # {}
        BY <2>7, <3>2, <3>3, <3>4 DEF Verdict, AfterStatic
      <4>2. Chosen(second, B, segs)
        BY <3>2, <4>1 DEF Verdict
      <4> HIDE DEF S
      <4>3. Chosen(second, S, segs)
        BY <2>7, <2>9, <3>1, <4>2 DEF Chosen, BestOf
      <4> QED
        BY <3>2, <3>4, <4>1, <4>3 DEF Verdict, S, w
    <3>5. CASE second.kind # "found"
      <4> DEFINE deeper == Abandoned(first, second)
      <4>1. w = OwnWildcard(at, m, passes, deeper)
        BY <3>3, <3>5 DEF AfterStatic
      <4>2. /\ B = {} /\ second \in Outcomes /\ second.allow \subseteq Offered(segs, passes)
            /\ WellNamed => second.params = at.params
        BY <3>2, <3>5 DEF Verdict
      <4>3. /\ deeper \in Outcomes /\ deeper.kind # "found" /\ deeper.params = second.params
            /\ deeper.allow \subseteq first.allow \cup second.allow
        BY <2>13, <3>1, <3>5, <4>2, AbandonedIs
      <4> HIDE DEF deeper
      <4>4. Verdict(OwnWildcard(at, m, passes, deeper), at.params, C, segs, passes)
        BY <1>2, <3>1, <4>2, <4>3, OwnVerdict DEF C
      <4>5. S = C
        BY <2>7, <3>1, <4>2
      <4> HIDE DEF S
      <4> QED
        BY <4>1, <4>4, <4>5 DEF S, w
    <3> QED
      BY <3>4, <3>5
  <2> QED
    BY <2>12, <2>13
<1>3. \A at \in Spots : (\A y \in Spots : Distance[y] < Distance[at] => y \in P) => at \in P
  <2> TAKE at \in Spots
  <2> HAVE \A y \in Spots : Distance[y] < Distance[at] => y \in P
  <2>1. \A y \in Nearer(at) : Right(y)
    BY DistanceTyped
  <2>2. Right(at)
    BY <1>2, <2>1
  <2> QED
    BY <2>2
<1>4. Spots \subseteq P
  <2> HIDE DEF P
  <2> QED
    BY <1>3, DistanceTyped, SmallestFirst
<1> QED
  BY <1>4 DEF walk

-----------------------------------------------------------------------------
(* Router::route and methods_for.                                           *)

\* What n segments reach is on the way.
LEMMA ReachedIsOnWay ==
  ASSUME TrieOK, NEW segs \in Seq(Text), NEW n \in 0..Len(segs), NEW node \in Reached(segs, n)
  PROVE  OnWay(node, segs) /\ Len(node) = n
<1>1. PICK i \in DOMAIN inventory :
        /\ node = SubSeq(Keys(i), 1, n) /\ Len(Keys(i)) >= n
        /\ \A l \in 1..n : Keys(i)[l] \in {segs[l], AnyKey}
  BY DEF Reached, Keys
<1> DEFINE t == Keys(i)
<1>2. t \in Seq(Key) /\ Len(t) \in Nat /\ n \in Nat /\ Len(segs) \in Nat /\ n <= Len(segs)
  BY RouteFacts
<1> HIDE DEF t
<1>3. /\ SubSeq(t, 1, n) \in Seq(Key) /\ Len(SubSeq(t, 1, n)) = n
      /\ \A l \in 1..n : SubSeq(t, 1, n)[l] = t[l]
  BY <1>1, <1>2 DEF t
<1>4. \A l \in 1..n : node[l] \in {segs[l], AnyKey} /\ segs[l] \in Text
  <2> TAKE l \in 1..n
  <2>1. l \in 1..Len(segs)
    BY <1>2
  <2> QED
    BY <1>1, <1>3, <2>1 DEF t
<1>5. node \in Seq(Plainly)
  <2>1. \A l \in 1..n : node[l] \in Plainly
    BY <1>4 DEF Plainly
  <2>2. node \in Seq(Key) /\ Len(node) = n
    BY <1>1, <1>3 DEF t
  <2> QED
    BY <2>1, <2>2
<1> QED
  BY <1>1, <1>2, <1>3, <1>4, <1>5 DEF OnWay, t

\* A route reaches what its first keys lead to.
LEMMA LeadsThere ==
  ASSUME TrieOK, NEW segs \in Seq(Text), NEW k \in DOMAIN inventory, NEW n \in Nat,
         n <= Len(Keys(k)), Leads(k, segs, n)
  PROVE  SubSeq(Keys(k), 1, n) \in Reached(segs, n)
BY DEF Reached, Keys, Leads

\* The methods an exact miss collects would serve.
LEMMA ExactAllowOffered ==
  ASSUME TrieOK, NEW segs \in Seq(Text), NEW passes
  PROVE  ExactAllow(segs, passes) \subseteq Offered(segs, passes)
<1> SUFFICES ASSUME NEW node \in Reached(segs, Len(segs)), NEW k \in Candidates(node),
                    Serves(inventory[k], passes)
             PROVE  inventory[k].method \in Offered(segs, passes)
  BY DEF ExactAllow, MethodsMatching
<1>1. Len(segs) \in 0..Len(segs)
  OBVIOUS
<1>2. OnWay(node, segs) /\ Len(node) = Len(segs)
  BY <1>1, ReachedIsOnWay
<1>3. k \in DOMAIN inventory /\ Fits(k, segs)
  BY <1>2, LeafFits
<1> QED
  BY <1>3 DEF Offered, Able

\* methods_for names every method that would serve.
LEMMA OfferedIsTold ==
  ASSUME TrieOK, NEW segs \in Seq(Text), NEW passes
  PROVE  Offered(segs, passes) \subseteq MethodsFor(segs)
<1> SUFFICES ASSUME NEW k \in DOMAIN inventory, Fits(k, segs)
             PROVE  inventory[k].method \in MethodsFor(segs)
  BY DEF Offered, Able
<1> DEFINE t == Keys(k)
<1>1. Malformed \notin ToSet(segs)
  BY SeparatedTexts DEF ToSet
<1>2. k \in Candidates(t)
  BY DEF Candidates, Keys
<1>3. SUFFICES t \in Reached(segs, Len(segs)) \cup ReachedWildcards(segs)
  BY <1>1, <1>2 DEF MethodsFor, Methods
<1>4. t \in Seq(Key) /\ Len(t) \in Nat /\ Len(segs) \in Nat
  BY RouteFacts
<1>5. CASE ~Wild(k)
  <2>1. Len(t) = Len(segs) /\ Leads(k, segs, Len(segs))
    BY <1>5 DEF Fits
  <2>2. SubSeq(t, 1, Len(segs)) \in Reached(segs, Len(segs))
    BY <1>4, <2>1, LeadsThere
  <2> HIDE DEF t
  <2>3. SubSeq(t, 1, Len(t)) = t
    BY <1>4
  <2> QED
    BY <2>1, <2>2, <2>3
<1>6. CASE Wild(k)
  <2> DEFINE d == Len(t) - 1
             node == SubSeq(t, 1, d)
  <2>1. /\ d \in Nat /\ Len(t) = d + 1 /\ d <= Len(segs) /\ Leads(k, segs, d) /\ Clear(segs, d)
        /\ t[d + 1] = RestKey
    BY <1>4, <1>6, ExactOrWild DEF Fits, Wild
  <2> HIDE DEF d
  <2>2. node \in Reached(segs, d)
    BY <1>4, <2>1, LeadsThere
  <2>3. d \in 0..Len(segs)
    BY <1>4, <2>1
  <2>4. ~HasSeparator(SubSeq(segs, d + 1, Len(segs)))
    BY <2>1, <2>3, Separators DEF Clear
  <2>5. Append(node, RestKey) = t
    <3> HIDE DEF t
    <3>1. node \in Seq(Key) /\ Len(node) = d /\ \A l \in 1..d : node[l] = t[l]
      BY <1>4, <2>1
    <3> HIDE DEF node
    <3> DEFINE own == Append(node, RestKey)
    <3>2. /\ own \in Seq(Key) /\ Len(own) = d + 1 /\ own[d + 1] = RestKey
          /\ \A l \in 1..d : own[l] = node[l]
      <4>1. RestKey \in Key
        BY DEF Key
      <4> QED
        BY <2>1, <3>1, <4>1
    <3> HIDE DEF own
    <3>3. \A l \in 1..(d + 1) : own[l] = t[l]
      BY <2>1, <3>1, <3>2
    <3>4. own = t
      BY <1>4, <2>1, <3>2, <3>3
    <3> QED
      BY <3>4 DEF own
  <2> HIDE DEF node, t
  <2>6. t \in {Append(v, RestKey) : v \in Reached(segs, d)}
    BY <2>2, <2>5
  <2> QED
    BY <2>3, <2>4, <2>6 DEF ReachedWildcards
<1> QED
  BY <1>5, <1>6

\* The routes that serve m.
Serving(m, segs, passes) == {k \in Able(segs, passes) : inventory[k].method = m}

\* All of them are below the root.
LEMMA UnderRoot ==
  ASSUME TrieOK, NEW wild \in BOOLEAN, NEW m, NEW segs, NEW passes
  PROVE  Below(<<>>, wild, m, segs, passes) = {k \in Serving(m, segs, passes) : Wild(k) <=> wild}
<1>1. \A k \in DOMAIN inventory : Under(k, <<>>)
  <2> TAKE k \in DOMAIN inventory
  <2>1. Len(Keys(k)) \in Nat
    BY RouteFacts
  <2> QED
    BY <2>1 DEF Under
<1> QED
  BY <1>1 DEF Below, Serving, Able

\* Router::route finds the best route that serves, and a mismatch names only
\* methods that would serve.
LEMMA RouteIs ==
  ASSUME TrieOK, NEW segs \in Seq(Text), NEW m, NEW passes
  PROVE  /\ Route(m, segs, passes) \in Outcomes
         /\ Route(m, segs, passes).allow \subseteq Offered(segs, passes)
         /\ Route(m, segs, passes).kind = "found" <=> Serving(m, segs, passes) # {}
         /\ Serving(m, segs, passes) # {} =>
              Chosen(Route(m, segs, passes), Serving(m, segs, passes), segs)
<1> DEFINE S == Serving(m, segs, passes)
           A == Below(<<>>, FALSE, m, segs, passes)
           B == Below(<<>>, TRUE, m, segs, passes)
           w == Route(m, segs, passes)
           exact == WalkMatching(m, passes)[Start(segs)]
           wild == WalkWildcard(m, passes)[Start(segs)]
<1>1. Tracks(Start(segs), segs) /\ Start(segs) \in Spots
  BY TracksStart DEF Tracks
<1>2. Start(segs).node = <<>> /\ Start(segs).params = NoParams
  BY DEF Start, Spot, Root
<1>3. Verdict(exact, NoParams, A, segs, passes)
  BY <1>1, <1>2, MatchingVerdict
<1>4. Verdict(wild, NoParams, B, segs, passes)
  BY <1>1, <1>2, WildcardVerdict
<1>5. A = {k \in S : ~Wild(k)} /\ B = {k \in S : Wild(k)}
  <2>1. A = {k \in S : Wild(k) <=> FALSE} /\ B = {k \in S : Wild(k) <=> TRUE}
    BY UnderRoot
  <2> QED
    BY <2>1
<1>6. Malformed \notin ToSet(segs)
  BY SeparatedTexts DEF ToSet
<1>7. w = ExactFirst(m, segs, passes, exact)
  BY <1>6 DEF Route
<1> HIDE DEF exact, A, B, w
<1>8. CASE exact.kind = "found"
  <2>1. w = exact /\ A # {} /\ Chosen(exact, A, segs)
    BY <1>3, <1>7, <1>8 DEF ExactFirst, Verdict
  <2>2. \A i \in A : \A j \in S \ A : Preferred(i, j)
    <3> TAKE i \in A
    <3> TAKE j \in S \ A
    <3>1. i \in DOMAIN inventory /\ j \in DOMAIN inventory /\ ~Wild(i) /\ Wild(j)
      BY <1>5 DEF Serving, Able
    <3> QED
      BY <3>1, PreferredIs
  <2>3. A \subseteq S /\ S # {}
    BY <1>5, <2>1
  <2> HIDE DEF S
  <2>4. Chosen(exact, S, segs)
    BY <2>1, <2>2, <2>3 DEF Chosen, BestOf
  <2> QED
    BY <1>3, <1>8, <2>1, <2>3, <2>4 DEF Verdict, S, w
<1>9. CASE exact.kind # "found"
  <2>1. A = {} /\ S = B
    BY <1>3, <1>5, <1>9 DEF Verdict
  <2>2. w = WildcardFallback(segs, passes, wild)
    BY <1>7, <1>9 DEF ExactFirst
  <2> HIDE DEF wild, S
  <2>3. CASE wild.kind = "found"
    <3>1. w = wild
      BY <2>2, <2>3 DEF WildcardFallback
    <3> QED
      BY <1>4, <2>1, <3>1 DEF Verdict, S, w
  <2>4. CASE wild.kind # "found"
    <3> DEFINE told == ExactAllow(segs, passes)
    <3>1. w = Unmatched(wild, told)
      BY <2>2, <2>4 DEF WildcardFallback
    <3>2. told \subseteq Offered(segs, passes)
      BY ExactAllowOffered
    <3>3. wild.allow \subseteq Offered(segs, passes) /\ S = {}
      BY <1>4, <2>1, <2>4 DEF Verdict
    <3>4. Offered(segs, passes) \subseteq Method
      BY RouteFacts DEF Offered, Able
    <3> HIDE DEF told
    <3>5. NoParams \in Params
      BY DEF NoParams, Params
    <3>6. ASSUME NEW allow, allow \subseteq Offered(segs, passes)
          PROVE  /\ Mismatch(allow, NoParams) \in Outcomes
                 /\ Mismatch(allow, NoParams).allow \subseteq Offered(segs, passes)
                 /\ Mismatch(allow, NoParams).kind # "found"
      BY <3>4, <3>5, <3>6 DEF Mismatch, Outcome, Outcomes
    <3>7. /\ Nothing(NoParams) \in Outcomes /\ Nothing(NoParams).kind # "found"
          /\ Nothing(NoParams).allow \subseteq Offered(segs, passes)
      BY <3>5 DEF Nothing, Outcome, Outcomes
    <3>8. told \cup wild.allow \subseteq Offered(segs, passes)
      BY <3>2, <3>3
    <3>9. w \in {Mismatch(told \cup wild.allow, NoParams), Mismatch(told, NoParams),
                 Nothing(NoParams)}
      BY <3>1 DEF Unmatched
    <3>10. w \in Outcomes /\ w.allow \subseteq Offered(segs, passes) /\ w.kind # "found"
      BY <3>2, <3>6, <3>7, <3>8, <3>9
    <3> QED
      BY <3>3, <3>10 DEF S, w
  <2> QED
    BY <2>3, <2>4
<1> QED
  BY <1>8, <1>9

-----------------------------------------------------------------------------
(* App::dispatch.                                                           *)

\* What may be asked, and whether its path decodes.
Queries == [method: Method, segs: Seq(Text \cup {Malformed}),
            spelling: {"plain", "alias", "asterisk"}, passes: SUBSET Guard]

Decoded(q) == Malformed \notin ToSet(q.segs)

\* A decoded path has texts for segments.
LEMMA DecodedTexts ==
  ASSUME NEW q \in Queries, Decoded(q)
  PROVE  q.segs \in Seq(Text)
<1> DEFINE s == q.segs
<1>1. s \in Seq(Text \cup {Malformed}) /\ Len(s) \in Nat
  BY DEF Queries
<1>2. \A k \in 1..Len(s) : s[k] # Malformed
  BY <1>1 DEF Decoded, ToSet
<1> HIDE DEF s
<1>3. s \in Seq(Text)
  BY <1>1, <1>2
<1> QED
  BY <1>3 DEF s

\* Eligible, said of keys.
LEMMA EligibleIs ==
  ASSUME TrieOK, NEW q \in Queries, Decoded(q), NEW m
  PROVE  Eligible(m, q) = Serving(m, q.segs, q.passes)
<1>1. \A k \in DOMAIN inventory : Matches(inventory[k], q.segs) <=> Fits(k, q.segs)
  BY DecodedTexts, MatchIs
<1> QED
  BY <1>1 DEF Eligible, Serving, Able

\* A path that does not decode is refused.
LEMMA RouteRefuses ==
  ASSUME NEW q, ~Decoded(q), NEW m
  PROVE  /\ Route(m, q.segs, q.passes) \in Outcomes /\ Route(m, q.segs, q.passes).kind = "badPath"
         /\ MethodsFor(q.segs) = {}
BY DEF Decoded, Route, Refused, Outcome, Outcomes, NoParams, Params, MethodsFor

\* The routes that serve a request with method m, and the method that counts.
Servers(m, q) == IF Decoded(q) THEN Serving(m, q.segs, q.passes) ELSE {}

Effect(q) == IF q.method = "HEAD" /\ Servers("HEAD", q) = {} THEN "GET" ELSE q.method

\* Router::route for a request.
LEMMA RouteFor ==
  ASSUME TrieOK, NEW q \in Queries, NEW m
  PROVE  /\ Route(m, q.segs, q.passes) \in Outcomes
         /\ Route(m, q.segs, q.passes).kind = "found" <=> Servers(m, q) # {}
         /\ Servers(m, q) # {} => Chosen(Route(m, q.segs, q.passes), Servers(m, q), q.segs)
         /\ Route(m, q.segs, q.passes).kind = "mismatch" =>
              Decoded(q) /\ Route(m, q.segs, q.passes).allow \subseteq Offered(q.segs, q.passes)
<1>1. CASE Decoded(q)
  BY <1>1, DecodedTexts, RouteIs DEF Servers
<1>2. CASE ~Decoded(q)
  BY <1>2, RouteRefuses DEF Servers
<1> QED
  BY <1>1, <1>2

\* methods_for names methods.
LEMMA ToldMethods ==
  ASSUME TrieOK, NEW segs
  PROVE  MethodsFor(segs) \subseteq Method
<1>1. \A k \in DOMAIN inventory : inventory[k].method \in Method
  BY RouteFacts
<1>2. \A node : Methods(node) \subseteq Method
  BY <1>1 DEF Methods, Candidates
<1> QED
  BY <1>2 DEF MethodsFor

\* allow_header_value adds OPTIONS and HEAD, and nothing else.
LEMMA HeaderIs ==
  ASSUME NEW methods, methods \subseteq Method
  PROVE  /\ AllowHeader(methods) \subseteq Method
         /\ AllowHeader(methods) = {} <=> methods = {}
         /\ methods \subseteq AllowHeader(methods)
         /\ methods # {} => "OPTIONS" \in AllowHeader(methods)
         /\ "GET" \in methods => "HEAD" \in AllowHeader(methods)
         /\ \A n \in AllowHeader(methods) :
              n \in methods \/ n = "OPTIONS" \/ (n = "HEAD" /\ "GET" \in methods)
BY HttpMethods DEF AllowHeader

\* The answer of a request that reaches the router.
Looking(q) == Looked(q, Lookup(q, Route(q.method, q.segs, q.passes)))

\* The lookup finds a route exactly when one serves, under HEAD too.
LEMMA LookupIs ==
  ASSUME TrieOK, NEW q \in Queries
  PROVE  LET found == Lookup(q, Route(q.method, q.segs, q.passes)) IN
         /\ found.match \in Outcomes /\ found.head \in BOOLEAN
         /\ found.match.kind = "found" <=> Servers(Effect(q), q) # {}
         /\ Servers(Effect(q), q) # {} => Chosen(found.match, Servers(Effect(q), q), q.segs)
         /\ found.match.kind = "mismatch" =>
              Decoded(q) /\ found.match.allow \subseteq Offered(q.segs, q.passes)
<1> DEFINE direct == Route(q.method, q.segs, q.passes)
           asGet == Route("GET", q.segs, q.passes)
           found == Lookup(q, direct)
<1>1. /\ direct \in Outcomes
      /\ direct.kind = "found" <=> Servers(q.method, q) # {}
      /\ Servers(q.method, q) # {} => Chosen(direct, Servers(q.method, q), q.segs)
      /\ direct.kind = "mismatch" => Decoded(q) /\ direct.allow \subseteq Offered(q.segs, q.passes)
  BY RouteFor
<1>2. /\ asGet \in Outcomes
      /\ asGet.kind = "found" <=> Servers("GET", q) # {}
      /\ Servers("GET", q) # {} => Chosen(asGet, Servers("GET", q), q.segs)
  BY RouteFor
<1>3. found = IF q.method = "HEAD" /\ direct.kind # "found" THEN HeadFromGet(direct, asGet)
              ELSE [match |-> direct, head |-> FALSE]
  BY DEF Lookup
<1> HIDE DEF direct, asGet, found
<1>4. CASE q.method = "HEAD" /\ direct.kind # "found"
  <2>1. Effect(q) = "GET"
    BY <1>1, <1>4 DEF Effect
  <2>2. CASE asGet.kind = "found"
    <3>1. found = [match |-> asGet, head |-> TRUE]
      BY <1>3, <1>4, <2>2 DEF HeadFromGet
    <3>2. found.match = asGet /\ found.head \in BOOLEAN
      BY <3>1
    <3>3. asGet.kind # "mismatch"
      BY <2>2
    <3> QED
      BY <1>2, <2>1, <3>2, <3>3 DEF found, direct
  <2>3. CASE asGet.kind # "found"
    <3>1. found = [match |-> direct, head |-> FALSE]
      BY <1>3, <1>4, <2>3 DEF HeadFromGet
    <3>2. found.match = direct /\ found.head \in BOOLEAN
      BY <3>1
    <3> QED
      BY <1>1, <1>2, <1>4, <2>1, <2>3, <3>2 DEF found, direct
  <2> QED
    BY <2>2, <2>3
<1>5. CASE ~(q.method = "HEAD" /\ direct.kind # "found")
  <2>1. found.match = direct /\ found.head \in BOOLEAN
    BY <1>3, <1>5
  <2>2. Effect(q) = q.method
    BY <1>1, <1>5 DEF Effect
  <2> QED
    BY <1>1, <2>1, <2>2 DEF found, direct
<1> QED
  BY <1>4, <1>5

\* What that answer says.
LEMMA LookingIs ==
  ASSUME TrieOK, NEW q \in Queries, NEW a, a = Looking(q)
  PROVE  /\ a \in Answers
         /\ a.status = 200 <=> Servers(Effect(q), q) # {}
         /\ a.status = 200 => Chosen(a, Servers(Effect(q), q), q.segs)
         /\ a.status = 405 => \E M : /\ Decoded(q) /\ M \subseteq Offered(q.segs, q.passes)
                                     /\ M # {} /\ a.allow = AllowHeader(M)
         /\ a.status = 204 => a.allow = AllowHeader(MethodsFor(q.segs)) /\ MethodsFor(q.segs) # {}
         /\ q.method = "OPTIONS" /\ MethodsFor(q.segs) # {} => a.status \in {200, 204}
         /\ a.status = 404 => Servers(Effect(q), q) = {}
<1> DEFINE found == Lookup(q, Route(q.method, q.segs, q.passes))
           match == found.match
           tells == AllowHeader(MethodsFor(q.segs))
<1>1. /\ match \in Outcomes /\ found.head \in BOOLEAN
      /\ match.kind = "found" <=> Servers(Effect(q), q) # {}
      /\ Servers(Effect(q), q) # {} => Chosen(match, Servers(Effect(q), q), q.segs)
      /\ match.kind = "mismatch" => Decoded(q) /\ match.allow \subseteq Offered(q.segs, q.passes)
  BY LookupIs
<1>2. a = IF match.kind = "found" THEN Served(match, found.head) ELSE Unclaimed(q, match, tells)
  BY DEF Looking, Looked
<1>3. tells \subseteq Method /\ (tells = {} <=> MethodsFor(q.segs) = {})
  BY ToldMethods, HeaderIs
<1>4. NoParams \in Params
  BY DEF NoParams, Params
<1> HIDE DEF found, match
<1>5. \A status \in {200, 204, 308, 400, 404, 405, 414} : \A allow \in SUBSET Method :
        /\ Answer(status, allow) \in Answers /\ Answer(status, allow).status = status
        /\ Answer(status, allow).allow = allow
  BY <1>4 DEF Answer, Answers
<1>6. CASE match.kind = "found"
  <2>1. a = Served(match, found.head)
    BY <1>2, <1>6
  <2>2. a.status = 200 /\ a.route = match.route /\ a.params = match.params /\ a \in Answers
    BY <1>1, <2>1 DEF Served, Answers, Outcomes
  <2>3. Chosen(a, Servers(Effect(q), q), q.segs)
    BY <1>1, <1>6, <2>2 DEF Chosen
  <2> QED
    BY <1>1, <1>6, <2>2, <2>3
<1>7. CASE match.kind # "found" /\ q.method = "OPTIONS" /\ tells # {}
  <2>1. a = Answer(204, tells)
    BY <1>2, <1>7 DEF Unclaimed
  <2>2. a \in Answers /\ a.status = 204 /\ a.allow = tells
    BY <1>3, <1>5, <2>1
  <2> QED
    BY <1>1, <1>3, <1>7, <2>2
<1>8. CASE match.kind # "found" /\ ~(q.method = "OPTIONS" /\ tells # {})
  <2>1. a = Unserved(match)
    BY <1>2, <1>8 DEF Unclaimed
  <2>2. CASE match.kind = "mismatch" /\ AllowHeader(match.allow) # {}
    <3>1. match.allow \subseteq Method
      BY <1>1 DEF Outcomes
    <3>2. match.allow # {} /\ AllowHeader(match.allow) \subseteq Method
      BY <2>2, <3>1, HeaderIs
    <3>3. a = Answer(405, AllowHeader(match.allow))
      BY <2>1, <2>2 DEF Unserved
    <3>4. a \in Answers /\ a.status = 405 /\ a.allow = AllowHeader(match.allow)
      BY <1>5, <3>2, <3>3
    <3> QED
      BY <1>1, <1>3, <1>8, <2>2, <3>2, <3>4
  <2>3. CASE ~(match.kind = "mismatch" /\ AllowHeader(match.allow) # {})
    <3>1. a \in {Answer(404, {}), Answer(400, {})}
      BY <1>1, <2>1, <2>3 DEF Unserved, Outcomes
    <3>2. a \in Answers /\ a.status \in {400, 404}
      BY <1>5, <3>1
    <3> QED
      BY <1>1, <1>3, <1>8, <3>2
  <2> QED
    BY <2>2, <2>3
<1> QED
  BY <1>6, <1>7, <1>8

\* OPTIONS *, and what is answered before the router is asked.
Star(q) == q.method = "OPTIONS" /\ q.spelling = "asterisk"

Gated(q) == \/ q.spelling = "alias" /\ policy \in {"strict", "redirect"}
            \/ MaxSegments > 0 /\ Len(q.segs) > MaxSegments

\* The three ways to an answer.
LEMMA RespondIs ==
  ASSUME NEW q
  PROVE  /\ Star(q) => Respond(q) = AsteriskAnswer
         /\ ~Star(q) /\ Gated(q) => Respond(q) \in {Answer(s, {}) : s \in {308, 404, 414}}
         /\ ~Star(q) /\ ~Gated(q) => Respond(q) = Looking(q)
<1> DEFINE looking == Looking(q)
<1>1. Respond(q) =
        IF q.method = "OPTIONS" /\ q.spelling = "asterisk" THEN AsteriskAnswer
        ELSE IF q.spelling = "alias" /\ policy = "strict" THEN Answer(404, {})
        ELSE IF q.spelling = "alias" /\ policy = "redirect" THEN Answer(308, {})
        ELSE IF MaxSegments > 0 /\ Len(q.segs) > MaxSegments THEN Answer(414, {})
        ELSE looking
  BY DEF Respond, Looking
<1> HIDE DEF looking
<1> QED
  BY <1>1 DEF Star, Gated, looking

\* OPTIONS * names every method.
LEMMA AsteriskIs ==
  ASSUME TrieOK
  PROVE  /\ AsteriskAnswer \in Answers /\ AsteriskAnswer.status = 204
         /\ AllMethods \subseteq Method
         /\ AllMethods # {} => AsteriskAnswer.allow = AllowHeader(AllMethods)
<1>1. AllMethods \subseteq Method
  BY RouteFacts DEF AllMethods
<1>2. AllMethods # {} => inventory # <<>>
  BY DEF AllMethods
<1>3. inventory # <<>> => AsteriskAnswer = Answer(204, AllowHeader(AllMethods))
  BY DEF AsteriskAnswer
<1>4. inventory = <<>> => AsteriskAnswer = Answer(204, {"OPTIONS"})
  BY DEF AsteriskAnswer
<1>5. AllowHeader(AllMethods) \subseteq Method /\ {"OPTIONS"} \subseteq Method
  BY <1>1, HttpMethods, HeaderIs
<1>6. NoParams \in Params
  BY DEF NoParams, Params
<1>7. \A allow \in SUBSET Method :
        /\ Answer(204, allow) \in Answers /\ Answer(204, allow).status = 204
        /\ Answer(204, allow).allow = allow
  BY <1>6 DEF Answer, Answers
<1> QED
  BY <1>1, <1>2, <1>3, <1>4, <1>5, <1>7

\* What is answered before the router neither serves nor names methods.
LEMMA GatedIs ==
  ASSUME NEW a \in {Answer(s, {}) : s \in {308, 404, 414}}
  PROVE  a \in Answers /\ a.status \in {308, 404, 414}
<1>1. NoParams \in Params
  BY DEF NoParams, Params
<1>2. PICK s \in {308, 404, 414} : a = Answer(s, {})
  OBVIOUS
<1> QED
  BY <1>1, <1>2 DEF Answer, Answers

\* A request gets an answer.
LEMMA RespondTyped ==
  ASSUME TrieOK, NEW q \in Queries
  PROVE  Respond(q) \in Answers
BY RespondIs, AsteriskIs, GatedIs, LookingIs

\* An answer stays that of its request.
AnswerKept == answer # NoAnswer => built /\ request \in Requests /\ answer = Respond(request)

\* The inductive invariant.
DpIInv == TypeOK /\ TrieOK /\ AnswerKept

\* A request is one with any method in place of its own.
LEMMA AskedQueries ==
  ASSUME NEW q \in Requests
  PROVE  q \in Queries /\ \A m \in Method : [q EXCEPT !.method = m] \in Queries
<1>1. q \in Queries
  BY Asking DEF Queries
<1> QED
  BY <1>1 DEF Queries

\* BestServes, of every state of the invariant.
LEMMA BestServed ==
  ASSUME DpIInv
  PROVE  BestServes
<1>1. TypeOK /\ TrieOK
  BY DEF DpIInv
<1>2. SUFFICES ASSUME Answered
      PROVE  /\ Routed(request) =>
                  LET m == Effective(request) IN
                  IF Eligible(m, request) = {} THEN answer.status # 200
                  ELSE answer.status = 200 /\ answer.route = inventory[Best(m, request)]
             /\ WellNamed /\ answer.status = 200 =>
                  answer.params = Capture(answer.route, request.segs)
  BY <1>1 DEF BestServes
<1> DEFINE q == request
<1>3. q \in Queries /\ answer = Respond(q)
  BY <1>2, AskedQueries DEF DpIInv, AnswerKept, Answered
<1>4. ASSUME Routed(q)
      PROVE  LET m == Effective(q) IN
             IF Eligible(m, q) = {} THEN answer.status # 200
             ELSE answer.status = 200 /\ answer.route = inventory[Best(m, q)]
  <2>1. ~Star(q) /\ ~Gated(q) /\ Decoded(q)
    <3>1. ~Star(q) /\ Decoded(q)
      BY <1>4 DEF Routed, Star, Decoded
    <3>2. q.spelling = "alias" => policy \notin {"strict", "redirect"}
      BY <1>4 DEF Routed
    <3>3. MaxSegments > 0 => ~(Len(q.segs) > MaxSegments)
      <4>1. Len(q.segs) \in Nat
        BY <1>3 DEF Queries
      <4> QED
        BY <1>4, <4>1, Sizes DEF Routed
    <3> QED
      BY <3>1, <3>2, <3>3 DEF Gated
  <2>2. answer = Looking(q)
    BY <1>3, <2>1, RespondIs
  <2>3. \A m : Eligible(m, q) = Servers(m, q)
    BY <1>1, <1>3, <2>1, EligibleIs DEF Servers
  <2>4. Effective(q) = Effect(q)
    BY <2>3 DEF Effective, Effect
  <2> DEFINE m == Effective(q)
             S == Eligible(m, q)
  <2>5. /\ answer.status = 200 <=> S # {}
        /\ answer.status = 200 => Chosen(answer, S, q.segs)
    BY <1>1, <1>3, <2>2, <2>3, <2>4, LookingIs
  <2>6. ASSUME S # {} PROVE answer.route = inventory[Best(m, q)]
    <3>1. PICK i : BestOf(i, S) /\ answer.route = inventory[i]
      BY <2>5, <2>6 DEF Chosen
    <3>2. Best(m, q) = i
      BY <1>1, <3>1, OneBest
    <3> QED
      BY <3>1, <3>2
  <2> QED
    BY <2>5, <2>6
<1>5. ASSUME WellNamed, answer.status = 200
      PROVE  answer.params = Capture(answer.route, q.segs)
  <2>1. ~Star(q)
    BY <1>1, <1>3, <1>5, RespondIs, AsteriskIs
  <2>2. ~Gated(q)
    BY <1>3, <1>5, <2>1, RespondIs, GatedIs
  <2>3. answer = Looking(q)
    BY <1>3, <2>1, <2>2, RespondIs
  <2>4. Chosen(answer, Servers(Effect(q), q), q.segs)
    BY <1>1, <1>3, <1>5, <2>3, LookingIs
  <2> QED
    BY <1>5, <2>4 DEF Chosen
<1> QED
  BY <1>4, <1>5

\* AllowIsHonest, of every state of the invariant.
LEMMA AllowHonest ==
  ASSUME DpIInv
  PROVE  AllowIsHonest
<1> DEFINE q == request
           to(m) == [request EXCEPT !.method = m]
           opt == to("OPTIONS")
           options == Again("OPTIONS")
<1>1. TypeOK /\ TrieOK
  BY DEF DpIInv
<1>2. SUFFICES ASSUME Answered
      PROVE  /\ answer.status = 405 => \A m \in answer.allow : Again(m).status \notin {404, 405}
             /\ options.status = 204 =>
                  /\ answer.status = 405 => answer.allow \subseteq options.allow
                  /\ answer.status = 200 => q.method \in options.allow
  BY DEF AllowIsHonest
<1>3. q \in Queries /\ answer = Respond(q) /\ \A m \in Method : to(m) \in Queries
  BY <1>2, AskedQueries DEF DpIInv, AnswerKept, Answered
<1>4. \A m : /\ Again(m) = Respond(to(m)) /\ to(m).segs = q.segs /\ to(m).passes = q.passes
             /\ to(m).spelling = q.spelling /\ (Gated(to(m)) <=> Gated(q))
             /\ to(m).method = m /\ (Decoded(to(m)) <=> Decoded(q))
             /\ \A n : Servers(n, to(m)) = Servers(n, q)
  <2> TAKE m
  <2>1. /\ to(m).segs = q.segs /\ to(m).passes = q.passes /\ to(m).spelling = q.spelling
        /\ to(m).method = m
    BY <1>3 DEF Queries
  <2> HIDE DEF to
  <2>2. /\ Gated(to(m)) <=> Gated(q)
        /\ Decoded(to(m)) <=> Decoded(q)
        /\ \A n : Servers(n, to(m)) = Servers(n, q)
    BY <2>1 DEF Gated, Decoded, Servers
  <2>3. Again(m) = Respond(to(m))
    BY DEF Again, to
  <2> QED
    BY <2>1, <2>2, <2>3
<1> HIDE DEF to
<1>5. ASSUME answer.status \in {200, 405} PROVE ~Star(q) /\ ~Gated(q) /\ answer = Looking(q)
  <2>1. ~Star(q)
    BY <1>1, <1>3, <1>5, RespondIs, AsteriskIs
  <2>2. ~Gated(q)
    BY <1>3, <1>5, <2>1, RespondIs, GatedIs
  <2> QED
    BY <1>3, <2>1, <2>2, RespondIs
<1>6. \A M : Decoded(q) /\ M \subseteq Offered(q.segs, q.passes) =>
        /\ M \subseteq MethodsFor(q.segs) /\ M \subseteq AllMethods /\ M \subseteq Method
        /\ \A m \in M : Servers(m, q) # {}
  <2> TAKE M
  <2> HAVE Decoded(q) /\ M \subseteq Offered(q.segs, q.passes)
  <2>1. q.segs \in Seq(Text)
    BY <1>3, DecodedTexts
  <2>2. Offered(q.segs, q.passes) \subseteq MethodsFor(q.segs)
    BY <1>1, <2>1, OfferedIsTold
  <2>3. Offered(q.segs, q.passes) \subseteq AllMethods
    BY DEF Offered, Able, AllMethods
  <2>4. AllMethods \subseteq Method
    BY <1>1, AsteriskIs
  <2>5. \A m \in Offered(q.segs, q.passes) : Servers(m, q) # {}
    BY DEF Offered, Servers, Serving
  <2> QED
    BY <2>2, <2>3, <2>4, <2>5
<1>7. ASSUME ~Gated(q), NEW m \in Method, ~Star(to(m)) PROVE Again(m) = Looking(to(m))
  BY <1>4, <1>7, RespondIs
<1>8. \A m \in Method : Star(to(m)) => Again(m) = AsteriskAnswer
  BY <1>4, RespondIs
<1>9. "OPTIONS" \in Method /\ "HEAD" \in Method /\ "GET" \in Method
  BY HttpMethods
<1>10. ASSUME answer.status = 405, NEW m \in answer.allow PROVE Again(m).status \notin {404, 405}
  <2>1. PICK M : /\ Decoded(q) /\ M \subseteq Offered(q.segs, q.passes)
                 /\ M # {} /\ answer.allow = AllowHeader(M)
    BY <1>1, <1>3, <1>5, <1>10, LookingIs
  <2>2. /\ M \subseteq MethodsFor(q.segs) /\ M \subseteq Method
        /\ \A n \in M : Servers(n, q) # {}
    BY <1>6, <2>1
  <2>3. /\ m \in Method
        /\ m \in M \/ m = "OPTIONS" \/ (m = "HEAD" /\ "GET" \in M)
    BY <1>9, <1>10, <2>1, <2>2, HeaderIs
  <2>4. CASE Star(to(m))
    BY <1>1, <1>8, <2>3, <2>4, AsteriskIs
  <2>5. CASE ~Star(to(m))
    <3>1. Again(m) = Looking(to(m)) /\ to(m) \in Queries
      BY <1>3, <1>5, <1>7, <1>10, <2>3, <2>5
    <3>2. CASE m \in M
      <4>1. Servers(m, to(m)) # {} /\ to(m).method = m
        BY <1>4, <2>2, <3>2
      <4>2. Effect(to(m)) = m
        BY <4>1 DEF Effect
      <4> QED
        BY <1>1, <3>1, <4>1, <4>2, LookingIs
    <3>3. CASE m = "OPTIONS"
      <4>1. to(m).method = "OPTIONS" /\ MethodsFor(to(m).segs) # {}
        BY <1>4, <2>1, <2>2, <3>3
      <4>2. Again(m).status \in {200, 204}
        BY <1>1, <3>1, <4>1, LookingIs
      <4> QED
        BY <4>2
    <3>4. CASE m = "HEAD" /\ "GET" \in M
      <4>1. Servers("GET", to(m)) # {} /\ to(m).method = "HEAD"
        BY <1>4, <2>2, <3>4
      <4>2. Servers(Effect(to(m)), to(m)) # {}
        BY <4>1 DEF Effect
      <4> QED
        BY <1>1, <3>1, <4>2, LookingIs
    <3> QED
      BY <2>3, <3>2, <3>3, <3>4
  <2> QED
    BY <2>4, <2>5
<1>11. ASSUME options.status = 204, answer.status \in {200, 405}, Decoded(q)
       PROVE  \A M : M # {} /\ M \subseteq Offered(q.segs, q.passes)
                       => AllowHeader(M) \subseteq options.allow
  <2> TAKE M
  <2> HAVE M # {} /\ M \subseteq Offered(q.segs, q.passes)
  <2>1. M \subseteq MethodsFor(q.segs) /\ M \subseteq AllMethods /\ M \subseteq Method
    BY <1>6, <1>11
  <2>2. /\ AllowHeader(M) \subseteq AllowHeader(MethodsFor(q.segs))
        /\ AllowHeader(M) \subseteq AllowHeader(AllMethods)
    BY <2>1 DEF AllowHeader
  <2>3. CASE Star(opt)
    <3>1. options = AsteriskAnswer
      BY <1>8, <1>9, <2>3
    <3> QED
      BY <1>1, <2>1, <2>2, <3>1, AsteriskIs
  <2>4. CASE ~Star(opt)
    <3>1. options = Looking(opt) /\ opt \in Queries /\ opt.segs = q.segs
      BY <1>3, <1>4, <1>5, <1>7, <1>9, <1>11, <2>4
    <3>2. options.allow = AllowHeader(MethodsFor(q.segs))
      BY <1>1, <1>11, <3>1, LookingIs
    <3> QED
      BY <2>2, <3>2
  <2> QED
    BY <2>3, <2>4
<1>12. ASSUME options.status = 204, answer.status = 405 PROVE answer.allow \subseteq options.allow
  <2>1. PICK M : /\ Decoded(q) /\ M \subseteq Offered(q.segs, q.passes)
                 /\ M # {} /\ answer.allow = AllowHeader(M)
    BY <1>1, <1>3, <1>5, <1>12, LookingIs
  <2> QED
    BY <1>11, <1>12, <2>1
<1>13. ASSUME options.status = 204, answer.status = 200 PROVE q.method \in options.allow
  <2> DEFINE e == Effect(q)
  <2>1. Servers(e, q) # {}
    BY <1>1, <1>3, <1>5, <1>13, LookingIs
  <2>2. Decoded(q) /\ {e} \subseteq Offered(q.segs, q.passes)
    BY <2>1 DEF Servers, Serving, Offered
  <2>3. AllowHeader({e}) \subseteq options.allow
    BY <1>11, <1>13, <2>2
  <2>4. q.method = e \/ (q.method = "HEAD" /\ e = "GET")
    BY DEF Effect
  <2>5. q.method \in AllowHeader({e})
    BY <2>4 DEF AllowHeader
  <2> QED
    BY <2>3, <2>5
<1> QED
  BY <1>10, <1>12, <1>13

-----------------------------------------------------------------------------
(* The specification.                                                       *)

\* Router::add keeps the trie.
LEMMA RegisterKeeps ==
  ASSUME TypeOK, TrieOK, NEW r \in Routes, Register(r)
  PROVE  TrieOK'
<1> DEFINE t == r.pattern
<1> PICK n \in Nat : n = Len(inventory)
  BY DEF TrieOK
<1>1. /\ inventory \in Seq(Routes) /\ n \in Nat /\ inventory' = Append(inventory, r)
      /\ WildcardIsLast(t) /\ NamesAgree(t)
  BY DEF Register, Add, TrieOK
<1>2. /\ inventory' \in Seq(Routes) /\ Len(inventory') = n + 1 /\ DOMAIN inventory' = 1..(n + 1)
      /\ inventory'[n + 1] = r /\ \A k \in 1..n : inventory'[k] = inventory[k]
      /\ DOMAIN inventory = 1..n
  BY <1>1
<1>3. \A k \in DOMAIN inventory' : k = n + 1 \/ k \in 1..n
  BY <1>1, <1>2
<1>4. \A k \in DOMAIN inventory' : WildcardIsLast(inventory'[k].pattern)
  BY <1>1, <1>2, <1>3 DEF TrieOK
<1> DEFINE new == Path(t)
<1>5. /\ t \in Seq(Segments) /\ DOMAIN t = 1..Len(t) /\ Len(t) \in Nat
      /\ new \in Seq(Key) /\ Len(new) = Len(t) /\ DOMAIN new = 1..Len(t)
      /\ \A d \in 1..Len(t) : new[d] = t[d].text /\ t[d] \in Segments
  <2>1. t \in Seq(Segments)
    BY Routing
  <2> HIDE DEF t
  <2>2. DOMAIN t = 1..Len(t) /\ Len(t) \in Nat /\ \A d \in 1..Len(t) : t[d] \in Segments
    BY <2>1
  <2>3. \A d \in 1..Len(t) : t[d].text \in Key
    BY <2>2, KeyKinds
  <2>4. new = [d \in 1..Len(t) |-> t[d].text]
    BY <2>2 DEF Path
  <2> HIDE DEF new
  <2>5. new \in Seq(Key) /\ Len(new) = Len(t) /\ DOMAIN new = 1..Len(t)
    BY <2>2, <2>3, <2>4
  <2> QED
    BY <2>1, <2>2, <2>4, <2>5
<1>6. Keys(n + 1)' = new /\ \A k \in 1..n : Keys(k)' = Keys(k)
  <2>1. Keys(n + 1)' = Path(inventory'[n + 1].pattern)
    BY DEF Keys, Path
  <2>2. \A k : Keys(k)' = Path(inventory'[k].pattern) /\ Keys(k) = Path(inventory[k].pattern)
    BY DEF Keys, Path
  <2> QED
    BY <1>2, <2>1, <2>2
<1> HIDE DEF new, t
<1>7. ASSUME NEW i \in 1..n, NEW d \in 1..Len(t), d \in DOMAIN Keys(i),
             \A l \in 1..d : Keys(i)[l] = new[l], t[d].kind = "param"
      PROVE  inventory[i].pattern[d].name = t[d].name
  <2>1. i \in DOMAIN inventory /\ d \in 1..Len(Keys(i)) /\ Keys(i) \in Seq(Key) /\ d \in Nat
    <3>1. i \in DOMAIN inventory
      BY <1>2
    <3>2. Keys(i) \in Seq(Key)
      BY <3>1, RouteFacts
    <3> QED
      BY <1>5, <1>7, <3>1, <3>2
  <2>2. new[d] = AnyKey
    BY <1>5, <1>7, KeyKinds
  <2> DEFINE above == SubSeq(new, 1, d - 1)
             path == SubSeq(new, 1, d)
  <2>3. /\ above \in Seq(Key) /\ Len(above) = d - 1 /\ path \in Seq(Key) /\ Len(path) = d
        /\ \A l \in 1..d : path[l] = new[l]
        /\ \A l \in 1..(d - 1) : above[l] = new[l]
    BY <1>5, <2>1
  <2> HIDE DEF above, path
  <2>4. path = Append(above, AnyKey)
    <3> DEFINE u == Append(above, AnyKey)
    <3>1. /\ u \in Seq(Key) /\ Len(u) = d /\ u[d] = AnyKey
          /\ \A l \in 1..(d - 1) : u[l] = above[l]
      <4>1. AnyKey \in Key
        BY DEF Key
      <4> QED
        BY <2>1, <2>3, <4>1
    <3> HIDE DEF u
    <3>2. \A l \in 1..d : u[l] = path[l]
      BY <2>1, <2>2, <2>3, <3>1
    <3>3. u = path
      BY <2>1, <2>3, <3>1, <3>2
    <3> QED
      BY <3>3 DEF u
  <2>5. Under(i, path)
    BY <1>7, <2>1, <2>3 DEF Under
  <2>6. NameOf(path) = inventory[i].pattern[d].name
    <3>1. NameOf(path) = inventory[i].pattern[Len(above) + 1].name
      BY <2>3, <2>4, <2>5, NameIs
    <3>2. Len(above) + 1 = d
      BY <2>1, <2>3
    <3> QED
      BY <3>1, <3>2
  <2>7. HasNode(path)
    BY <2>3, <2>5, BelowNode DEF HasNode
  <2>8. NameOf(path) = t[d].name
    BY <1>1, <1>5, <1>7, <2>7 DEF NamesAgree, new, path
  <2> QED
    BY <2>6, <2>8
<1>8. NamesKept'
  <2>1. SUFFICES ASSUME NEW i \in 1..(n + 1), NEW j \in 1..(n + 1),
                        NEW d \in DOMAIN Keys(i)' \cap DOMAIN Keys(j)',
                        \A l \in 1..d : Keys(i)'[l] = Keys(j)'[l],
                        inventory'[i].pattern[d].kind = "param"
                 PROVE  inventory'[i].pattern[d].name = inventory'[j].pattern[d].name
    BY <1>2 DEF NamesKept
  <2>2. CASE i \in 1..n /\ j \in 1..n
    BY <1>2, <1>6, <2>1, <2>2 DEF TrieOK, NamesKept
  <2>3. CASE i = n + 1 /\ j = n + 1
    BY <2>3
  <2>4. CASE i = n + 1 /\ j \in 1..n
    <3>1. d \in 1..Len(t) /\ d \in DOMAIN Keys(j) /\ t[d].kind = "param"
          /\ \A l \in 1..d : Keys(j)[l] = new[l]
      BY <1>2, <1>5, <1>6, <2>1, <2>4 DEF t
    <3> QED
      BY <1>2, <1>7, <2>4, <3>1 DEF t
  <2>5. CASE i \in 1..n /\ j = n + 1
    <3>1. d \in 1..Len(t) /\ d \in DOMAIN Keys(i) /\ (\A l \in 1..d : Keys(i)[l] = new[l])
      BY <1>5, <1>6, <2>1, <2>5
    <3>2. inventory[i].pattern[d].kind = "param"
      BY <1>2, <2>1, <2>5
    <3>3. i \in DOMAIN inventory /\ d \in 1..Len(Keys(i))
      <4>1. i \in DOMAIN inventory
        BY <1>2, <2>5
      <4>2. Keys(i) \in Seq(Key)
        BY <4>1, RouteFacts
      <4> QED
        BY <3>1, <4>1, <4>2
    <3>4. Keys(i)[d] = AnyKey
      BY <3>2, <3>3, RouteFacts, KeyKinds
    <3>5. new[d] = AnyKey
      <4>1. d \in 1..d
        BY <1>5, <3>1
      <4> QED
        BY <3>1, <3>4, <4>1
    <3>6. t[d].kind = "param"
      BY <1>5, <3>1, <3>5, KeyKinds
    <3> QED
      BY <1>2, <1>7, <2>5, <3>1, <3>6 DEF t
  <2> QED
    BY <1>3, <1>2, <2>2, <2>3, <2>4, <2>5
<1> QED
  BY <1>2, <1>4, <1>8 DEF TrieOK

\* Nothing else changes it.
LEMMA TrieFrozen ==
  ASSUME TrieOK, UNCHANGED inventory
  PROVE  TrieOK'
<1>1. \A k : Keys(k)' = Keys(k)
  BY DEF Keys
<1> QED
  BY <1>1 DEF TrieOK, NamesKept

\* The invariant holds when nothing is registered.
LEMMA DpStarts ==
  ASSUME Init
  PROVE  DpIInv
<1>1. inventory = <<>> /\ inventory \in Seq(Routes) /\ Len(inventory) = 0 /\ DOMAIN inventory = {}
  BY DEF Init
<1>2. TypeOK
  <2>1. Len(inventory) <= MaxRoutes
    BY <1>1, Sizes
  <2> QED
    BY <1>1, <2>1 DEF Init, TypeOK
<1>3. TrieOK
  BY <1>1 DEF TrieOK, NamesKept
<1> QED
  BY <1>2, <1>3 DEF DpIInv, AnswerKept, Init

\* Every step keeps the invariant.
LEMMA DpSteps ==
  ASSUME DpIInv, [Next]_vars
  PROVE  DpIInv'
<1>1. TypeOK /\ TrieOK /\ AnswerKept
  BY DEF DpIInv
<1>2. ASSUME NEW r \in Routes, Register(r) PROVE DpIInv'
  <2>1. TrieOK'
    BY <1>1, <1>2, RegisterKeeps
  <2>2. TypeOK'
    <3>1. /\ inventory' = Append(inventory, r) /\ inventory \in Seq(Routes)
          /\ Len(inventory) < MaxRoutes
      BY <1>1, <1>2 DEF Register, Add, TypeOK
    <3>2. inventory' \in Seq(Routes) /\ Len(inventory') <= MaxRoutes
      BY <3>1, Sizes
    <3> QED
      BY <1>1, <1>2, <3>2 DEF TypeOK, Register
  <2>3. answer' = NoAnswer
    BY <1>1, <1>2 DEF AnswerKept, Register
  <2> QED
    BY <2>1, <2>2, <2>3 DEF DpIInv, AnswerKept
<1>3. CASE Build
  <2>1. TrieOK'
    BY <1>1, <1>3, TrieFrozen DEF Build
  <2>2. TypeOK'
    BY <1>1, <1>3 DEF TypeOK, Build
  <2>3. answer' = NoAnswer
    BY <1>1, <1>3 DEF AnswerKept, Build
  <2> QED
    BY <2>1, <2>2, <2>3 DEF DpIInv, AnswerKept
<1>4. ASSUME NEW q \in Requests, Handle(q) PROVE DpIInv'
  <2>1. TrieOK'
    BY <1>1, <1>4, TrieFrozen DEF Handle
  <2>2. answer' = Respond(q) /\ answer' \in Answers /\ request' = q /\ built'
    BY <1>1, <1>4, AskedQueries, RespondTyped DEF Handle
  <2>3. answer' # NoAnswer /\ q # NoAnswer
    BY <2>2, NoAnswerIsNone
  <2>4. TypeOK'
    BY <1>1, <1>4, <2>2, <2>3 DEF TypeOK, Handle
  <2>5. Respond(q)' = Respond(q)
    BY <1>4, RespondFrozen DEF Handle
  <2>6. AnswerKept'
    BY <2>2, <2>5 DEF AnswerKept
  <2> QED
    BY <2>1, <2>4, <2>6 DEF DpIInv
<1>5. CASE Deliver
  <2>1. TrieOK'
    BY <1>1, <1>5, TrieFrozen DEF Deliver
  <2>2. TypeOK'
    BY <1>1, <1>5 DEF TypeOK, Deliver
  <2>3. answer' = NoAnswer
    BY <1>5 DEF Deliver
  <2> QED
    BY <2>1, <2>2, <2>3 DEF DpIInv, AnswerKept
<1>6. CASE UNCHANGED vars
  <2>1. TrieOK'
    BY <1>1, <1>6, TrieFrozen DEF vars
  <2>2. TypeOK'
    BY <1>1, <1>6 DEF TypeOK, vars
  <2>3. AnswerKept'
    <3>1. Respond(request)' = Respond(request)
      BY <1>6, RespondFrozen DEF vars
    <3> QED
      BY <1>1, <1>6, <3>1 DEF AnswerKept, vars
  <2> QED
    BY <2>1, <2>2, <2>3 DEF DpIInv
<1> QED
  BY <1>2, <1>3, <1>4, <1>5, <1>6 DEF Next

\* The trie stays well formed and every answer is that of its request, for every
\* set of routes and requests.
THEOREM DispatchInvariance == Spec => []DpIInv
<1>1. Init => DpIInv
  BY DpStarts
<1>2. DpIInv /\ [Next]_vars => DpIInv'
  BY DpSteps
<1> QED
  BY <1>1, <1>2, PTL DEF Spec

\* A request is served exactly when some route serves it, by the best of these
\* and with the captures of its own pattern (App::dispatch, Router::route).
THEOREM BestAlwaysServes == Spec => []BestServes
<1>1. DpIInv => BestServes
  BY BestServed
<1> QED
  BY <1>1, DispatchInvariance, PTL

\* A 405 names methods that the same request would be served with, and the
\* OPTIONS of a resource names them all (App::dispatch, Router::methods_for).
THEOREM AllowAlwaysHonest == Spec => []AllowIsHonest
<1>1. DpIInv => AllowIsHonest
  BY AllowHonest
<1> QED
  BY <1>1, DispatchInvariance, PTL
=============================================================================
