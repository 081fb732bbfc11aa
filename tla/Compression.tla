------------------------------ MODULE Compression ------------------------------
(***************************************************************************)
(* churust-compression: which coding a client and the server agree on, and  *)
(* what the plugin makes of the answer that comes out of the inner layers,  *)
(* a HEAD's included, whose body is already gone.                           *)
(***************************************************************************)
EXTENDS Naturals, Sequences

CONSTANTS
  Preference,  \* the codings the server offers, most preferred first
  MinSize      \* min_size

ASSUME Floor == MinSize \in Nat /\ Preference \in Seq(STRING)

\* Accept-Encoding, its qualities in tenths.
AcceptEncodings == Seq([token: STRING, q: Nat])

Entries(accept, token) == {k \in DOMAIN accept : accept[k].token = token}

FirstOf(places) == CHOOSE k \in places : \A l \in places : k <= l
Largest(qs) == CHOOSE q \in qs : \A p \in qs : q >= p

\* negotiate: a named coding counts with its first entry, any other one with the
\* best wildcard.
Offer(accept, coding) ==
  LET any == {accept[k].q : k \in Entries(accept, "*")}
      named == Entries(accept, coding)
  IN [q |-> IF named # {} THEN accept[FirstOf(named)].q
            ELSE IF any = {} THEN 0 ELSE Largest(any),
      named |-> named # {}]

\* Quality, then named before wildcard, then the server's order.
Better(a, b, i, j) ==
  \/ a.q > b.q
  \/ a.q = b.q /\ a.named /\ ~b.named
  \/ a.q = b.q /\ a.named = b.named /\ i < j

Negotiate(accept) ==
  LET offers == [k \in DOMAIN Preference |-> Offer(accept, Preference[k])]
      usable == {k \in DOMAIN Preference : offers[k].q > 0}
  IN IF usable = {} THEN "identity"
     ELSE Preference[CHOOSE k \in usable :
                       \A l \in usable \ {k} : Better(offers[k], offers[l], k, l)]

\* should_compress, of a media type that is worth it.
ShouldCompress(answer, head) ==
  /\ answer.status \notin {204, 206, 304, 416} /\ answer.coding = "identity"
  /\ IF answer.stream THEN TRUE
     ELSE IF head THEN answer.declared /\ answer.count >= MinSize
     ELSE answer.count >= MinSize

\* Mutant: the ranges of the plain content stay on offer.
Encoded_ranges(answer, coding, head) ==
  [answer EXCEPT !.coding = coding, !.declared = ~answer.stream /\ ~head]

\* handle: no length, unless the body is collected again, and no ranges.
Encoded(answer, coding, head) ==
  [answer EXCEPT !.coding = coding, !.declared = ~answer.stream /\ ~head, !.ranges = FALSE]

Compress(answer, accept, head) ==
  LET coding == Negotiate(accept)
  IN IF coding # "identity" /\ ShouldCompress(answer, head) THEN Encoded(answer, coding, head)
     ELSE answer
=============================================================================
