--------------------------- MODULE Multipart_proofs ----------------------------
(***************************************************************************)
(* Two parsers of one body: what the incremental one hands out is what the  *)
(* buffered one finds, for any bodies, any cutting into chunks and any      *)
(* fields read or skipped.                                                  *)
(*                                                                         *)
(* The inductive invariant relates the buffer and the parts handed out to   *)
(* the delimiter lines of the whole body: which line was the last to be     *)
(* consumed, that no line starts in what was given away, and that what is   *)
(* held back is all that could still be the start of one.                   *)
(***************************************************************************)
EXTENDS Multipart, Counting, SequenceTheorems

Signs == {"CR", "LF", "-", "X"}

Matches5(s, k) == SubSeq(s, k, k + Len(Delimiter) - 1) = Delimiter

\* What a delimiter is made of, and how long it is.
LEMMA Marks ==
  /\ Delimiter \in Seq(Signs) /\ Len(Delimiter) = 5 /\ DOMAIN Delimiter = 1..5
  /\ NewLine \o NewLine \in Seq(Signs) /\ Len(NewLine \o NewLine) = 4
  /\ NewLine \in Seq(Signs) /\ Len(NewLine) = 2 /\ Hold = 4
<1>1. NewLine \in Seq(Signs) /\ Len(NewLine) = 2
  BY DEF NewLine, Signs
<1>2. <<"-", "-", "X">> \in Seq(Signs) /\ Len(<<"-", "-", "X">>) = 3
  BY DEF Signs
<1>3. Delimiter \in Seq(Signs) /\ Len(Delimiter) = 5
  <2> DEFINE rest == <<"-", "-", "X">>
  <2>1. rest \in Seq(Signs) /\ Len(rest) = 3 /\ Delimiter = NewLine \o rest
    BY <1>2 DEF Delimiter
  <2> HIDE DEF rest
  <2>2. NewLine \o rest \in Seq(Signs) /\ Len(NewLine \o rest) = Len(NewLine) + Len(rest)
    BY <1>1, <2>1, ConcatProperties
  <2> HIDE DEF NewLine
  <2> QED
    BY <1>1, <2>1, <2>2
<1>4. NewLine \o NewLine \in Seq(Signs) /\ Len(NewLine \o NewLine) = 4
  BY <1>1, ConcatProperties
<1>5. DOMAIN Delimiter = 1..5
  BY <1>3
<1> QED
  BY <1>1, <1>3, <1>4, <1>5 DEF Hold

\* A piece of a piece of a sequence is a piece of the sequence.
LEMMA PieceOfPiece ==
  ASSUME NEW S, NEW s \in Seq(S), NEW lo \in Nat, NEW hi \in 0..Len(s), lo <= hi,
         NEW k \in Nat \ {0}, NEW l \in Nat, l <= hi - lo
  PROVE  /\ SubSeq(s, lo + 1, hi) \in Seq(S) /\ Len(SubSeq(s, lo + 1, hi)) = hi - lo
         /\ SubSeq(SubSeq(s, lo + 1, hi), k, l) = SubSeq(s, lo + k, lo + l)
<1>1. /\ SubSeq(s, lo + 1, hi) \in Seq(S) /\ Len(SubSeq(s, lo + 1, hi)) = hi - lo
      /\ \A i \in 1..(hi - lo) : SubSeq(s, lo + 1, hi)[i] = s[lo + i]
  OBVIOUS
<1> DEFINE t == SubSeq(s, lo + 1, hi)
           u == SubSeq(t, k, l)
           v == SubSeq(s, lo + k, lo + l)
<1> HIDE DEF t
<1>2. /\ u \in Seq(S) /\ Len(u) = IF k <= l THEN l - k + 1 ELSE 0
      /\ \A i \in 1..Len(u) : u[i] = t[k + i - 1]
  BY <1>1 DEF t
<1>3. /\ v \in Seq(S) /\ Len(v) = IF k <= l THEN l - k + 1 ELSE 0
      /\ \A i \in 1..Len(v) : v[i] = s[lo + k + i - 1]
  OBVIOUS
<1> HIDE DEF u, v
<1>4. ASSUME NEW i \in 1..Len(u) PROVE u[i] = v[i]
  <2>1. k + i - 1 \in 1..(hi - lo)
    BY <1>2
  <2>2. t[k + i - 1] = s[lo + (k + i - 1)]
    BY <1>1, <2>1 DEF t
  <2> QED
    BY <1>2, <1>3, <2>2
<1>5. u = v
  BY <1>2, <1>3, <1>4
<1> QED
  BY <1>1, <1>5 DEF t, u, v

\* The first of a set of places.
LEMMA FirstIs ==
  ASSUME NEW T, T \subseteq Nat, T # {}
  PROVE  /\ (CHOOSE k \in T : \A l \in T : k <= l) \in T
         /\ \A l \in T : (CHOOSE k \in T : \A m \in T : k <= m) <= l
BY LeastElement

\* find returns the first place where the needle is, and 0 when it is nowhere.
LEMMA FindIs ==
  ASSUME NEW S, NEW s \in Seq(S), NEW R, NEW needle \in Seq(R), NEW from \in Nat \ {0}
  PROVE  LET r == Find(s, needle, from)
             At(k) == SubSeq(s, k, k + Len(needle) - 1) = needle
         IN /\ r \in Nat
            /\ r = 0 => \A k \in from..(Len(s) + 1 - Len(needle)) : ~At(k)
            /\ r # 0 => /\ r \in from..(Len(s) + 1 - Len(needle)) /\ At(r)
                        /\ \A k \in from..(r - 1) : ~At(k)
<1> DEFINE At(k) == SubSeq(s, k, k + Len(needle) - 1) = needle
           T == {k \in from..(Len(s) + 1 - Len(needle)) : At(k)}
           r == Find(s, needle, from)
<1>1. r = IF T = {} THEN 0 ELSE CHOOSE k \in T : \A l \in T : k <= l
  BY DEF Find
<1>2. T \subseteq Nat /\ Len(s) \in Nat /\ Len(needle) \in Nat
  OBVIOUS
<1>3. CASE T = {}
  <2>1. r = 0
    BY <1>1, <1>3
  <2>2. \A k \in from..(Len(s) + 1 - Len(needle)) : ~At(k)
    <3> HIDE DEF At
    <3> QED
      BY <1>3
  <2> HIDE DEF r, At
  <2>3. /\ r \in Nat
        /\ r = 0 => \A k \in from..(Len(s) + 1 - Len(needle)) : ~At(k)
        /\ r # 0 => /\ r \in from..(Len(s) + 1 - Len(needle)) /\ At(r)
                    /\ \A k \in from..(r - 1) : ~At(k)
    BY <2>1, <2>2
  <2> QED
    BY <2>3 DEF r, At
<1>4. CASE T # {}
  <2>1. r \in T /\ \A l \in T : r <= l
    <3> HIDE DEF T
    <3> QED
      BY <1>1, <1>2, <1>4, FirstIs
  <2> HIDE DEF r, At
  <2>2. r \in from..(Len(s) + 1 - Len(needle)) /\ At(r) /\ r \in Nat /\ r # 0
    BY <1>2, <2>1
  <2>3. \A k \in from..(r - 1) : ~At(k)
    <3> TAKE k \in from..(r - 1)
    <3>1. k \notin T
      BY <2>1, <2>2
    <3>2. k \in from..(Len(s) + 1 - Len(needle))
      BY <1>2, <2>2
    <3> QED
      BY <3>1, <3>2
  <2> QED
    BY <2>2, <2>3 DEF r, At
<1> QED
  BY <1>3, <1>4

TrueAt(s, k) == Matches5(s, k) /\ TailAt(s, k).kind # "content"

\* The scan stops at the first delimiter that is not content.
LEMMA LineIs ==
  ASSUME NEW S, NEW s \in Seq(S), NEW from \in Nat \ {0}
  PROVE  LET r == LineFrom(s, from)
         IN /\ r \in Nat
            /\ r = 0 => \A k \in from..(Len(s) - 4) : ~TrueAt(s, k)
            /\ r # 0 => /\ r \in from..(Len(s) - 4) /\ TrueAt(s, r)
                        /\ \A k \in from..(r - 1) : ~TrueAt(s, k)
<1> DEFINE T == {k \in from..(Len(s) + 1 - Len(Delimiter)) : TrueAt(s, k)}
           r == LineFrom(s, from)
<1>1. r = IF T = {} THEN 0 ELSE CHOOSE k \in T : \A l \in T : k <= l
  BY DEF LineFrom, TrueAt, Matches5
<1>2. T \subseteq Nat /\ Len(s) \in Nat /\ Len(s) + 1 - Len(Delimiter) = Len(s) - 4
  BY Marks
<1>3. CASE T = {}
  BY <1>1, <1>2, <1>3
<1>4. CASE T # {}
  <2>1. r \in T /\ \A l \in T : r <= l
    <3> HIDE DEF T
    <3> QED
      BY <1>1, <1>2, <1>4, FirstIs
  <2> HIDE DEF r
  <2>2. r \in from..(Len(s) - 4) /\ TrueAt(s, r) /\ r \in Nat /\ r # 0
    BY <1>2, <2>1
  <2>3. \A k \in from..(r - 1) : ~TrueAt(s, k)
    <3> TAKE k \in from..(r - 1)
    <3>1. k \notin T
      BY <2>1, <2>2
    <3>2. k \in from..(Len(s) - 4)
      BY <1>2, <2>2
    <3> QED
      BY <1>2, <3>1, <3>2
  <2> QED
    BY <2>2, <2>3 DEF r
<1> QED
  BY <1>3, <1>4

\* Where the scan starts makes no difference when it passes over no line.
LEMMA LineMoves ==
  ASSUME NEW S, NEW s \in Seq(S), NEW from \in Nat \ {0}, NEW to \in Nat, from <= to,
         \A k \in from..(to - 1) : ~TrueAt(s, k)
  PROVE  LineFrom(s, from) = LineFrom(s, to)
<1> DEFINE p == LineFrom(s, from)
           q == LineFrom(s, to)
<1>1. /\ p \in Nat
      /\ p = 0 => \A k \in from..(Len(s) - 4) : ~TrueAt(s, k)
      /\ p # 0 => /\ p \in from..(Len(s) - 4) /\ TrueAt(s, p)
                  /\ \A k \in from..(p - 1) : ~TrueAt(s, k)
  BY LineIs
<1>2. /\ q \in Nat
      /\ q = 0 => \A k \in to..(Len(s) - 4) : ~TrueAt(s, k)
      /\ q # 0 => /\ q \in to..(Len(s) - 4) /\ TrueAt(s, q)
                  /\ \A k \in to..(q - 1) : ~TrueAt(s, k)
  BY LineIs
<1> HIDE DEF p, q
<1>3. Len(s) \in Nat
  OBVIOUS
<1>4. p # 0 => p >= to
  BY <1>1, <1>3
<1> QED
  BY <1>1, <1>2, <1>3, <1>4 DEF p, q

\* The sequences of one symbol.
LEMMA OneSymbol ==
  ASSUME NEW S, NEW s \in Seq(S), NEW a
  PROVE  s = <<a>> <=> Len(s) = 1 /\ s[1] = a
<1> DEFINE u == <<a>>
           T == S \cup {a}
<1>1. u \in Seq(T) /\ Len(u) = 1 /\ u[1] = a
  OBVIOUS
<1>2. s \in Seq(T)
  OBVIOUS
<1> HIDE DEF u, T
<1>3. Len(s) = 1 /\ s[1] = a => s = u
  <2> SUFFICES ASSUME Len(s) = 1, s[1] = a PROVE s = u
    OBVIOUS
  <2>1. Len(s) = Len(u) /\ \A i \in 1..Len(s) : s[i] = u[i]
    BY <1>1
  <2> QED
    BY <1>1, <1>2, <2>1, SeqEqual
<1> QED
  BY <1>1, <1>3 DEF u

PadAt(after, k) ==
  /\ k \in 0..Len(after) /\ k <= MaxPadding /\ \A l \in 1..k : after[l] = "SP"
  /\ k = MaxPadding \/ k = Len(after) \/ after[k + 1] # "SP"

\* What Padding chooses exists, and there is one.
LEMMA PaddingIs ==
  ASSUME NEW S, NEW s \in Seq(S)
  PROVE  /\ PadAt(s, Padding(s))
         /\ \A k : PadAt(s, k) => k = Padding(s)
<1> DEFINE Stops == {k \in 0..Len(s) : k = MaxPadding \/ k = Len(s) \/ s[k + 1] # "SP"}
<1>0. Len(s) \in Nat /\ MaxPadding \in Nat
  BY MpLimits
<1>1. PICK p \in Stops : \A l \in Stops : p <= l
  <2>1. Len(s) \in Stops /\ Stops \subseteq Nat
    BY <1>0
  <2> HIDE DEF Stops
  <2> QED
    BY <2>1, LeastElement
<1>2. p <= MaxPadding
  <2>1. CASE MaxPadding <= Len(s)
    BY <1>0, <1>1, <2>1
  <2> QED
    BY <1>0, <1>1, <2>1
<1>3. \A l \in 1..p : s[l] = "SP"
  <2> TAKE l \in 1..p
  <2>1. p \in Nat /\ p <= Len(s) /\ l \in Nat /\ l - 1 \in 0..Len(s) /\ l - 1 < p
    BY <1>0, <1>1
  <2>2. l - 1 \notin Stops
    <3> HIDE DEF Stops
    <3> QED
      BY <1>1, <2>1
  <2> QED
    BY <1>0, <2>1, <2>2
<1>4. PadAt(s, p)
  BY <1>0, <1>1, <1>2, <1>3 DEF PadAt
<1>5. PadAt(s, Padding(s))
  <2>1. Padding(s) = CHOOSE k \in 0..Len(s) : PadAt(s, k)
    BY DEF Padding, PadAt
  <2>2. p \in 0..Len(s)
    BY <1>4 DEF PadAt
  <2> QED
    BY <1>4, <2>1, <2>2
<1>6. ASSUME NEW k, NEW m, PadAt(s, k), PadAt(s, m), k < m PROVE FALSE
  <2>1. k \in Nat /\ m \in Nat /\ k < MaxPadding /\ k < Len(s) /\ k + 1 \in 1..m
    BY <1>0, <1>6 DEF PadAt
  <2> QED
    BY <1>0, <1>6, <2>1 DEF PadAt
<1>7. \A k : PadAt(s, k) => k \in Nat
  BY DEF PadAt
<1>8. ASSUME NEW k, PadAt(s, k) PROVE k = Padding(s)
  <2> DEFINE q == Padding(s)
  <2>1. PadAt(s, q) /\ q \in Nat /\ k \in Nat
    BY <1>5, <1>7, <1>8
  <2>2. ~(k < q) /\ ~(q < k)
    BY <1>6, <1>8, <2>1
  <2> HIDE DEF q
  <2>3. k = q
    BY <2>1, <2>2
  <2> QED
    BY <2>3 DEF q
<1> QED
  BY <1>5, <1>8

\* What delimiter_tail can say, and that it decides once there is no more to come.
LEMMA TailIs ==
  ASSUME NEW S, NEW after \in Seq(S), NEW atEnd \in BOOLEAN
  PROVE  LET t == DelimiterTail(after, atEnd)
         IN /\ t.kind \in {"content", "needMore", "part", "close"} /\ t.skip \in Nat
            /\ t.kind = "needMore" => ~atEnd
            /\ t.skip <= Len(after)
<1> DEFINE pad == Padding(after)
           line == SubSeq(after, pad + 1, Len(after))
<1>1. PadAt(after, pad) /\ pad \in Nat /\ pad <= Len(after) /\ Len(after) \in Nat
  BY PaddingIs DEF PadAt
<1>2. line \in Seq(S) /\ Len(line) = Len(after) - pad
  BY <1>1
<1>3. \A a \in {"content", "needMore", "part", "close"}, n \in Nat :
        TailOf(a, n).kind = a /\ TailOf(a, n).skip = n
  BY DEF TailOf
<1>4. LET t == Undecided(atEnd)
      IN /\ t.kind \in {"content", "needMore"} /\ t.skip = 0
         /\ t.kind = "needMore" => ~atEnd
  BY <1>3 DEF Undecided
<1> HIDE DEF pad, line
<1>5. LET t == AfterPadding(line, pad, atEnd)
      IN /\ t.kind \in {"content", "needMore", "part"} /\ t.skip \in Nat
         /\ t.kind = "needMore" => ~atEnd
         /\ t.skip <= Len(after)
  <2>1. CASE line = <<>> \/ line = <<"CR">>
    <3>1. AfterPadding(line, pad, atEnd) = Undecided(atEnd)
      BY <2>1 DEF AfterPadding
    <3> QED
      BY <1>1, <1>4, <3>1
  <2>2. CASE ~(line = <<>> \/ line = <<"CR">>)
    <3>1. CASE line[1] = "CR" /\ line[2] = "LF"
      <4>1. AfterPadding(line, pad, atEnd) = TailOf("part", pad + 2)
        BY <2>2, <3>1 DEF AfterPadding
      <4>2. Len(line) >= 2
        BY <1>2, <2>2, <3>1
      <4> QED
        BY <1>1, <1>2, <1>3, <4>1, <4>2
    <3>2. CASE ~(line[1] = "CR" /\ line[2] = "LF")
      <4>1. AfterPadding(line, pad, atEnd) = TailOf("content", 0)
        BY <2>2, <3>2 DEF AfterPadding
      <4> QED
        BY <1>1, <1>3, <4>1
    <3> QED
      BY <3>1, <3>2
  <2> QED
    BY <2>1, <2>2
<1>6. DelimiterTail(after, atEnd) \in
        {Undecided(atEnd), TailOf("close", 0), TailOf("content", 0), AfterPadding(line, pad, atEnd)}
  BY DEF DelimiterTail, line, pad
<1> QED
  BY <1>1, <1>3, <1>4, <1>5, <1>6

\* What is decided before the end is what the whole body decides.
LEMMA TailStable ==
  ASSUME NEW S, NEW t \in Seq(S), NEW m \in 0..Len(t), NEW u \in Seq(S), u = SubSeq(t, 1, m),
         DelimiterTail(u, FALSE).kind # "needMore"
  PROVE  DelimiterTail(u, FALSE) = DelimiterTail(t, TRUE)
<1>0. Len(t) \in Nat /\ Len(u) = m /\ \A i \in 1..m : u[i] = t[i]
  OBVIOUS
<1>a. Undecided(FALSE).kind = "needMore"
  BY DEF Undecided, TailOf
<1>1. u # <<"-">>
  BY <1>a DEF DelimiterTail
<1>2. CASE u # <<>> /\ Head(u) = "-"
  <2>1. m >= 2 /\ u[2] = t[2] /\ t # <<>> /\ t # <<"-">> /\ Head(t) = "-"
    <3>1. Len(u) > 0 /\ u[1] = "-"
      BY <1>0, <1>2
    <3>2. Len(u) # 1
      BY <1>1, <3>1, OneSymbol
    <3>3. m >= 2
      BY <1>0, <3>1, <3>2
    <3> QED
      BY <1>0, <3>1, <3>3
  <2> QED
    BY <1>1, <1>2, <2>1 DEF DelimiterTail
<1>3. CASE ~(u # <<>> /\ Head(u) = "-")
  <2> DEFINE p == Padding(u)
             q == Padding(t)
             line == SubSeq(u, p + 1, Len(u))
             rest == SubSeq(t, q + 1, Len(t))
  <2>1. PadAt(u, p) /\ PadAt(t, q) /\ \A k : PadAt(t, k) => k = q
    BY PaddingIs
  <2>2. DelimiterTail(u, FALSE) = AfterPadding(line, p, FALSE)
    BY <1>1, <1>3 DEF DelimiterTail
  <2>3. p \in 0..m /\ line \in Seq(S) /\ Len(line) = m - p /\ \A i \in 1..(m - p) : line[i] = u[p + i]
    <3>1. p \in 0..m
      BY <1>0, <2>1 DEF PadAt
    <3> HIDE DEF p
    <3> QED
      BY <1>0, <3>1 DEF line
  <2> HIDE DEF line, p, q
  <2>4. line # <<>> /\ line # <<"CR">>
    BY <1>a, <2>2 DEF AfterPadding
  <2>5. p < m
    BY <1>0, <2>3, <2>4
  <2>6. PadAt(t, p)
    <3>1. p \in 0..Len(t) /\ p <= MaxPadding /\ \A l \in 1..p : t[l] = "SP"
      BY <1>0, <2>1, <2>5 DEF PadAt
    <3>2. p = MaxPadding \/ t[p + 1] # "SP"
      BY <1>0, <2>1, <2>5 DEF PadAt
    <3> QED
      BY <3>1, <3>2 DEF PadAt
  <2>7. q = p
    BY <2>1, <2>6
  <2>8. rest \in Seq(S) /\ Len(rest) = Len(t) - p /\ \A i \in 1..(Len(t) - p) : rest[i] = t[p + i]
    BY <1>0, <2>3, <2>5, <2>7 DEF rest
  <2>9. t # <<"-">> /\ ~(t # <<>> /\ Head(t) = "-")
    <3>1. u[1] # "-" /\ u[1] = t[1] /\ t # <<>> /\ Head(t) = t[1]
      BY <1>0, <1>3, <2>3, <2>5
    <3>2. t # <<"-">>
      BY <3>1, OneSymbol
    <3> QED
      BY <3>1, <3>2
  <2>10. DelimiterTail(t, TRUE) = AfterPadding(rest, p, TRUE)
    BY <2>7, <2>9 DEF DelimiterTail, q
  <2> HIDE DEF rest
  <2>11. rest # <<>> /\ line[1] = rest[1] /\ line[1] = u[p + 1]
    BY <1>0, <2>3, <2>5, <2>8
  <2>12. CASE line[1] = "CR"
    <3>1. m - p >= 2
      <4>1. Len(line) # 1
        BY <2>3, <2>4, <2>12, OneSymbol
      <4> QED
        BY <1>0, <2>3, <2>5, <4>1
    <3>2. line[2] = rest[2] /\ rest # <<"CR">>
      BY <1>0, <2>3, <2>8, <3>1
    <3> QED
      BY <2>2, <2>4, <2>10, <2>11, <3>2 DEF AfterPadding
  <2>13. CASE line[1] # "CR"
    <3>1. rest # <<"CR">>
      BY <2>8, <2>11, <2>13, OneSymbol
    <3> QED
      BY <2>2, <2>4, <2>10, <2>11, <2>13, <3>1 DEF AfterPadding
  <2> QED
    BY <2>12, <2>13
<1> QED
  BY <1>2, <1>3

\* A line ends after it begins.
LEMMA AfterIs ==
  ASSUME NEW S, NEW s \in Seq(S), NEW k \in Nat
  PROVE  /\ TailAt(s, k).kind \in {"content", "part", "close"} /\ TailAt(s, k).skip \in Nat
         /\ AfterLine(s, k) \in Nat \ {0} /\ AfterLine(s, k) >= k + 5
<1>1. SubSeq(s, k + 5, Len(s)) \in Seq(S)
  <2>1. k + 5 \in Nat \ {0} /\ Len(s) \in Nat
    OBVIOUS
  <2> QED
    BY <2>1
<1>2. k + Len(Delimiter) = k + 5
  BY Marks
<1>3. LET t == TailAt(s, k)
      IN /\ t.kind \in {"content", "needMore", "part", "close"} /\ t.skip \in Nat
         /\ t.kind = "needMore" => FALSE
  BY <1>1, <1>2, TailIs DEF TailAt
<1> QED
  BY <1>2, <1>3 DEF AfterLine

\* The numbers of the lines are well defined, and each line follows from the one before.
LEMMA LinesAre ==
  ASSUME NEW S, NEW s \in Seq(S)
  PROVE  /\ LineStarts(s) \in [Nat -> Nat]
         /\ LineStarts(s)[0] = LineFrom(s, 1)
         /\ \A n \in Nat : LineStarts(s)[n + 1] =
              LET hit == LineStarts(s)[n]
              IN IF hit = 0 \/ TailAt(s, hit).kind = "close" THEN 0
                 ELSE LineFrom(s, AfterLine(s, hit))
<1> DEFINE After(hit) == IF hit = 0 \/ TailAt(s, hit).kind = "close" THEN 0
                         ELSE LineFrom(s, AfterLine(s, hit))
           g == [hit \in Nat |-> After(hit)]
           Lines(line) == line = [n \in Nat |-> IF n = 0 THEN LineFrom(s, 1)
                                                ELSE LET hit == line[n - 1]
                                                     IN IF hit = 0 \/ TailAt(s, hit).kind = "close" THEN 0
                                                        ELSE LineFrom(s, AfterLine(s, hit))]
<1>1. \A from \in Nat \ {0} : LineFrom(s, from) \in Nat
  BY LineIs
<1>2. g \in [Nat -> Nat]
  <2>1. \A hit \in Nat : After(hit) \in Nat
    BY <1>1, AfterIs
  <2> HIDE DEF After
  <2> QED
    BY <2>1
<1>3. LineFrom(s, 1) \in Nat
  BY <1>1
<1>4. PICK f \in [Nat -> Nat] : f[0] = LineFrom(s, 1) /\ \A n \in Nat : f[n + 1] = g[f[n]]
  <2> HIDE DEF g
  <2>1. \E f : Iterates(f, LineFrom(s, 1), g, Nat)
    BY <1>2, <1>3, Iterated
  <2> QED
    BY <2>1 DEF Iterates
<1>5. Lines(f)
  <2> DEFINE h == [n \in Nat |-> IF n = 0 THEN LineFrom(s, 1) ELSE After(f[n - 1])]
  <2>1. \A n \in Nat : f[n] = h[n]
    <3> TAKE n \in Nat
    <3>1. CASE n = 0
      BY <1>4, <3>1
    <3>2. CASE n # 0
      <4>0. n - 1 \in Nat /\ (n - 1) + 1 = n
        BY <3>2
      <4>1. f[n - 1] \in Nat /\ f[(n - 1) + 1] = g[f[n - 1]]
        <5> HIDE DEF g
        <5> QED
          BY <1>4, <4>0
      <4>2. g[f[n - 1]] = After(f[n - 1])
        BY <4>1
      <4> HIDE DEF g, After
      <4> QED
        BY <3>2, <4>0, <4>1, <4>2
    <3> QED
      BY <3>1, <3>2
  <2>2. f = h
    <3> HIDE DEF After
    <3>1. h = [n \in Nat |-> h[n]]
      OBVIOUS
    <3> HIDE DEF h
    <3> QED
      BY <2>1, <3>1
  <2> QED
    BY <2>2
<1>6. LineStarts(s) = CHOOSE line : Lines(line)
  BY DEF LineStarts
<1>7. Lines(LineStarts(s))
  <2> HIDE DEF Lines
  <2> QED
    BY <1>5, <1>6
<1> DEFINE L == LineStarts(s)
<1> HIDE DEF L
<1>8. \A n \in Nat : L[n] = IF n = 0 THEN LineFrom(s, 1) ELSE After(L[n - 1])
  <2>1. L = [n \in Nat |-> IF n = 0 THEN LineFrom(s, 1) ELSE After(L[n - 1])]
    BY <1>7 DEF L
  <2> HIDE DEF After
  <2> QED
    BY <2>1
<1>9. L[0] = LineFrom(s, 1) /\ \A n \in Nat : L[n + 1] = After(L[n])
  <2> HIDE DEF After
  <2>1. \A n \in Nat : n + 1 \in Nat /\ n + 1 # 0 /\ (n + 1) - 1 = n
    OBVIOUS
  <2> QED
    BY <1>8, <2>1
<1>10. L \in [Nat -> Nat]
  <2>1. L = [n \in Nat |-> L[n]]
    <3>1. L = [n \in Nat |-> IF n = 0 THEN LineFrom(s, 1) ELSE After(L[n - 1])]
      BY <1>7 DEF L
    <3> HIDE DEF After
    <3> QED
      BY <3>1
  <2>2. \A n \in Nat : L[n] \in Nat
    <3> DEFINE Bad == {n \in Nat : L[n] \notin Nat}
    <3>1. ASSUME Bad # {} PROVE FALSE
      <4>1. PICK b \in Bad : \A m \in Bad : b <= m
        <5> Bad \subseteq Nat
          OBVIOUS
        <5> HIDE DEF Bad
        <5> QED
          BY <3>1, LeastElement
      <4>2. b # 0
        BY <1>3, <1>9, <4>1
      <4>3. b - 1 \in Nat /\ b - 1 \notin Bad
        BY <4>1, <4>2
      <4>4. L[b - 1] \in Nat /\ L[(b - 1) + 1] = After(L[b - 1]) /\ (b - 1) + 1 = b
        <5>1. (b - 1) + 1 = b
          BY <4>1
        <5> HIDE DEF After
        <5> QED
          BY <1>9, <4>1, <4>3, <5>1
      <4>5. After(L[b - 1]) \in Nat
        BY <1>1, <4>4, AfterIs
      <4> QED
        BY <4>1, <4>4, <4>5
    <3> QED
      BY <3>1
  <2> QED
    BY <2>1, <2>2
<1> QED
  BY <1>9, <1>10 DEF L

\* What the buffered parser makes of a body it takes.
LEMMA TakenIs ==
  ASSUME NEW S, NEW s \in Seq(S), Buffered(s).status = "ok"
  PROVE  LET L == LineStarts(s)
             last == CHOOSE n \in Closings(s) : TRUE
         IN /\ last \in Nat /\ L[last] # 0 /\ TailAt(s, L[last]).kind = "close"
            /\ \A n \in 0..last : L[n] \in Nat \ {0} /\ L[n] \in 1..(Len(s) - 4) /\ TrueAt(s, L[n])
            /\ \A n \in 0..(last - 1) : /\ TailAt(s, L[n]).kind = "part"
                                        /\ L[n + 1] = LineFrom(s, AfterLine(s, L[n]))
                                        /\ AfterLine(s, L[n]) <= L[n + 1]
            /\ \A n \in 1..last : ChunkName(Between(s, n)) # NoName
            /\ last <= MaxParts
            /\ Buffered(s).parts = [n \in 1..last |-> PushPart(Between(s, n))]
<1> DEFINE L == LineStarts(s)
           last == CHOOSE n \in Closings(s) : TRUE
           Good == [status |-> "ok", parts |-> [n \in 1..last |-> PushPart(Between(s, n))]]
           Bad == \/ Closings(s) = {}
                  \/ \E n \in 1..last : ChunkName(Between(s, n)) = NoName
                  \/ last > MaxParts
<1>1. Buffered(s) = IF Bad THEN Refusal ELSE Good
  BY DEF Buffered
<1>2. Refusal.status # "ok"
  BY DEF Refusal
<1>3. ~Bad /\ Buffered(s) = Good
  <2> HIDE DEF Bad, Good
  <2> QED
    BY <1>1, <1>2
<1>4. last \in Closings(s)
  <2>1. Closings(s) # {}
    BY <1>3
  <2> QED
    BY <2>1
<1> HIDE DEF last
<1>5. /\ last \in Nat /\ last <= MaxParts
      /\ \A n \in 1..last : ChunkName(Between(s, n)) # NoName
      /\ Buffered(s).parts = [n \in 1..last |-> PushPart(Between(s, n))]
  BY <1>3, <1>4, MpLimits DEF Closings
<1>6. L[last] # 0 /\ TailAt(s, L[last]).kind = "close"
  BY <1>4 DEF Closings
<1>7. /\ L \in [Nat -> Nat] /\ L[0] = LineFrom(s, 1)
      /\ \A n \in Nat : L[n + 1] = IF L[n] = 0 \/ TailAt(s, L[n]).kind = "close" THEN 0
                                   ELSE LineFrom(s, AfterLine(s, L[n]))
  BY LinesAre
<1> HIDE DEF L
<1>8. ASSUME NEW n \in 0..(last - 1), L[n] = 0 \/ TailAt(s, L[n]).kind = "close" PROVE FALSE
  <2> DEFINE Later == {m \in Nat : m > n /\ L[m] # 0}
  <2>1. last \in Later
    BY <1>5, <1>6
  <2>2. PICK m \in Later : \A k \in Later : m <= k
    <3> Later \subseteq Nat
      OBVIOUS
    <3> HIDE DEF Later
    <3> QED
      BY <2>1, LeastElement
  <2>3. m - 1 \in Nat /\ m - 1 \notin Later /\ (m - 1) + 1 = m /\ n \in Nat
    BY <2>2
  <2>4. m - 1 = n \/ L[m - 1] = 0
    BY <2>2, <2>3
  <2>5. L[(m - 1) + 1] = 0
    BY <1>7, <1>8, <2>3, <2>4
  <2> QED
    BY <2>2, <2>3, <2>5
<1>9. \A n \in 0..(last - 1) : n \in Nat /\ L[n] \in Nat \ {0}
  BY <1>7, <1>8
<1>10. ASSUME NEW n \in 0..(last - 1)
       PROVE  L[n] # 0 /\ L[n + 1] = LineFrom(s, AfterLine(s, L[n]))
  BY <1>7, <1>8, <1>9
<1>11. ASSUME NEW n \in 0..last
       PROVE  L[n] \in Nat \ {0} /\ L[n] \in 1..(Len(s) - 4) /\ TrueAt(s, L[n])
  <2>1. n \in Nat /\ L[n] \in Nat \ {0}
    <3>1. CASE n = last
      BY <1>5, <1>6, <1>7, <3>1
    <3>2. CASE n # last
      <4>1. n \in 0..(last - 1)
        BY <1>5, <3>2
      <4> QED
        BY <1>9, <4>1
    <3> QED
      BY <3>1, <3>2
  <2>2. CASE n = 0
    BY <1>7, <2>1, <2>2, LineIs
  <2>3. CASE n # 0
    <3>1. n - 1 \in 0..(last - 1) /\ (n - 1) + 1 = n
      BY <1>5, <2>1, <2>3
    <3>2. L[n] = LineFrom(s, AfterLine(s, L[n - 1])) /\ L[n - 1] \in Nat
      BY <1>9, <1>10, <3>1
    <3>3. AfterLine(s, L[n - 1]) \in Nat \ {0}
      BY <3>2, AfterIs
    <3> DEFINE a == AfterLine(s, L[n - 1])
    <3>4. a \in Nat \ {0} /\ LineFrom(s, a) # 0
      BY <2>1, <3>2, <3>3
    <3> HIDE DEF a
    <3>5. LineFrom(s, a) \in a..(Len(s) - 4) /\ TrueAt(s, LineFrom(s, a))
      BY <3>4, LineIs
    <3>6. Len(s) \in Nat
      OBVIOUS
    <3> QED
      BY <2>1, <3>2, <3>4, <3>5, <3>6 DEF a
  <2> QED
    BY <2>2, <2>3
<1>12. ASSUME NEW n \in 0..(last - 1)
       PROVE  /\ TailAt(s, L[n]).kind = "part"
              /\ AfterLine(s, L[n]) <= L[n + 1]
  <2>1. n \in 0..last /\ n + 1 \in 0..last /\ L[n] \in Nat
    BY <1>5, <1>9
  <2>2. TailAt(s, L[n]).kind = "part"
    BY <1>8, <1>11, <2>1, AfterIs DEF TrueAt
  <2> DEFINE a == AfterLine(s, L[n])
  <2>3. a \in Nat \ {0} /\ LineFrom(s, a) # 0
    BY <1>10, <1>11, <2>1, AfterIs
  <2> HIDE DEF a
  <2>4. LineFrom(s, a) \in a..(Len(s) - 4)
    BY <2>3, LineIs
  <2>5. a <= LineFrom(s, a)
    BY <2>3, <2>4
  <2> QED
    BY <1>10, <2>2, <2>5 DEF a
<1> QED
  BY <1>5, <1>6, <1>10, <1>11, <1>12 DEF L, last

MpSpec == MpInit /\ [][MpNext]_form

MpSymbol == {"CR", "LF"} \cup UNION {{body[k] : k \in DOMAIN body} : body \in MpBodies}

MpForm ==
  [phase : {"none", "preamble", "afterDelimiter", "inPart", "done", "failed"},
   op : {"idle", "delimiter", "headers", "content", "skip"},
   framed : Seq(MpSymbol), lo : Nat, hi : Nat, from : Nat, drained : BOOLEAN,
   parts : Seq([name : MpHeaders, content : Seq(MpSymbol), whole : BOOLEAN]),
   end : {"none", "ok", "400", "413"}]

\* What the parser is told to do fits where it is, and what it holds is of the body.
MpFits(f) ==
  /\ f.lo <= f.hi /\ f.hi <= Len(f.framed) /\ (f.from = 0 \/ f.lo + f.from + 4 <= f.hi)
  /\ f.drained => f.hi = Len(f.framed)
  /\ f.op = "delimiter" => f.phase = "preamble"
  /\ f.op = "headers" => f.phase = "afterDelimiter"
  /\ f.op \in {"content", "skip"} => f.phase = "inPart"
  /\ f.phase # "inPart" => f.from = 0
  /\ f.phase = "none" => f.end = "none" /\ f.parts = <<>> /\ f.lo = 0 /\ ~f.drained
  /\ f.phase = "inPart" => f.parts # <<>>

LastLine(s) == CHOOSE n \in Closings(s) : TRUE

\* Where the content of part n begins.
ContentAt(s, n) == AfterLine(s, LineStarts(s)[n - 1]) + Split(Between(s, n)) + 3

Named(f, k) == f.parts[k].name = ChunkName(Between(f.framed, k))
Whole(f, k) == f.parts[k].whole => f.parts[k].content = PushPart(Between(f.framed, k)).content

\* How far the incremental parser is in what the buffered one makes of the body: the
\* line it looks for is the next one, and the part it reads is, so far, that one's.
Follows(f) ==
  LET s == f.framed
      n == Len(f.parts)
  IN /\ n <= LastLine(s) /\ f.end # "400" /\ (f.end = "ok" => f.phase = "done")
     /\ f.phase = "preamble" => n = 0
     /\ f.phase \in {"preamble", "inPart"} => LineStarts(s)[n] = LineFrom(s, f.lo + f.from + 1)
     /\ f.phase = "afterDelimiter" =>
          n < LastLine(s) /\ f.lo + 1 = AfterLine(s, LineStarts(s)[n])
     /\ f.phase = "inPart" =>
          /\ n > 0 /\ ContentAt(s, n) <= f.lo + 1
          /\ f.parts[n].whole => f.parts[n].content = SubSeq(s, ContentAt(s, n), f.lo)
     /\ f.phase = "done" => n = LastLine(s)
     /\ f.phase = "failed" => f.end # "none"
     /\ \A k \in 1..n : Named(f, k) /\ (f.phase # "inPart" \/ k < n => Whole(f, k))

Taken(s) == Buffered(s).status = "ok"

MpSound(f) == f \in MpForm /\ MpFits(f) /\ (f.phase # "none" /\ Taken(f.framed) => Follows(f))
MpIInv == MpSound(form)

MatchesAt(s, needle, k) == SubSeq(s, k, k + Len(needle) - 1) = needle

\* find in a piece of a sequence, in places of the sequence.
LEMMA FindPiece ==
  ASSUME NEW S, NEW s \in Seq(S), NEW lo \in Nat, NEW hi \in 0..Len(s), lo <= hi,
         NEW R, NEW needle \in Seq(R), NEW from \in Nat \ {0}
  PROVE  LET r == Find(SubSeq(s, lo + 1, hi), needle, from)
         IN /\ r \in Nat
            /\ r = 0 => \A k \in (lo + from)..(hi + 1 - Len(needle)) : ~MatchesAt(s, needle, k)
            /\ r # 0 => /\ r \in from..(hi - lo + 1 - Len(needle)) /\ MatchesAt(s, needle, lo + r)
                        /\ \A k \in (lo + from)..(lo + r - 1) : ~MatchesAt(s, needle, k)
<1> DEFINE t == SubSeq(s, lo + 1, hi)
           r == Find(t, needle, from)
           m == Len(needle)
           At(k) == SubSeq(t, k, k + m - 1) = needle
<1>1. t \in Seq(S) /\ Len(t) = hi - lo /\ hi \in Nat /\ m \in Nat
  OBVIOUS
<1> HIDE DEF t
<1>2. /\ r \in Nat
      /\ r = 0 => \A k \in from..(Len(t) + 1 - m) : ~At(k)
      /\ r # 0 => /\ r \in from..(Len(t) + 1 - m) /\ At(r)
                  /\ \A k \in from..(r - 1) : ~At(k)
  BY <1>1, FindIs
<1>3. \A k \in from..(hi - lo + 1 - m) : At(k) <=> MatchesAt(s, needle, lo + k)
  <2> TAKE k \in from..(hi - lo + 1 - m)
  <2>1. k \in Nat \ {0} /\ k + m - 1 \in Nat /\ k + m - 1 <= hi - lo
    BY <1>1
  <2>2. SubSeq(t, k, k + m - 1) = SubSeq(s, lo + k, lo + (k + m - 1))
    BY <2>1, PieceOfPiece DEF t
  <2>3. lo + (k + m - 1) = lo + k + m - 1
    BY <1>1, <2>1
  <2> QED
    BY <2>2, <2>3 DEF MatchesAt
<1> HIDE DEF At, m, r
<1>4. ASSUME NEW k \in Int, lo + from <= k PROVE k - lo \in Int /\ from <= k - lo /\ lo + (k - lo) = k
  BY <1>4
<1>5. ASSUME r = 0, NEW k \in (lo + from)..(hi + 1 - m) PROVE ~MatchesAt(s, needle, k)
  <2>1. k - lo \in from..(hi - lo + 1 - m) /\ lo + (k - lo) = k
    BY <1>1
  <2> QED
    BY <1>1, <1>2, <1>3, <1>5, <2>1
<1>6. ASSUME r # 0 PROVE r \in from..(hi - lo + 1 - m) /\ MatchesAt(s, needle, lo + r)
  BY <1>1, <1>2, <1>3, <1>6
<1>7. ASSUME r # 0, NEW k \in (lo + from)..(lo + r - 1) PROVE ~MatchesAt(s, needle, k)
  <2>1. k - lo \in from..(r - 1) /\ k - lo \in from..(hi - lo + 1 - m) /\ lo + (k - lo) = k
    BY <1>1, <1>6, <1>7
  <2> QED
    BY <1>1, <1>2, <1>3, <1>7, <2>1
<1> QED
  BY <1>2, <1>5, <1>6, <1>7 DEF r, m, t

\* The piece of the body that is in the buffer.
LEMMA BufferIs ==
  ASSUME form \in MpForm, MpFits(form)
  PROVE  /\ form.framed \in Seq(MpSymbol) /\ form.lo \in Nat /\ form.from \in Nat
         /\ form.hi \in 0..Len(form.framed) /\ form.lo <= form.hi
         /\ Len(Buffer) = form.hi - form.lo
         /\ \A k \in Nat \ {0}, l \in Nat : l <= form.hi - form.lo =>
              SubSeq(Buffer, k, l) = SubSeq(form.framed, form.lo + k, form.lo + l)
<1>1. /\ form.framed \in Seq(MpSymbol) /\ form.lo \in Nat /\ form.from \in Nat
      /\ form.hi \in Nat /\ form.lo <= form.hi /\ form.hi <= Len(form.framed)
  BY DEF MpForm, MpFits
<1> DEFINE s == form.framed
           lo == form.lo
           hi == form.hi
<1>2. s \in Seq(MpSymbol) /\ lo \in Nat /\ hi \in 0..Len(s) /\ lo <= hi /\ Buffer = SubSeq(s, lo + 1, hi)
  BY <1>1 DEF Buffer
<1> HIDE DEF s, lo, hi
<1>3. Len(Buffer) = hi - lo
  BY <1>2
<1>4. \A k \in Nat \ {0}, l \in Nat : l <= hi - lo => SubSeq(Buffer, k, l) = SubSeq(s, lo + k, lo + l)
  BY <1>2, PieceOfPiece
<1> QED
  BY <1>1, <1>2, <1>3, <1>4 DEF s, lo, hi

\* The delimiter that the incremental parser finds in its buffer, in places of the body.
LEMMA HitIs ==
  ASSUME form \in MpForm, MpFits(form)
  PROVE  /\ Hit \in Nat
         /\ Hit = 0 => \A k \in (form.lo + form.from + 1)..(form.hi - 4) : ~TrueAt(form.framed, k)
         /\ Hit # 0 =>
              /\ Hit \in (form.from + 1)..(form.hi - form.lo - 4) /\ Matches5(form.framed, form.lo + Hit)
              /\ \A k \in (form.lo + form.from + 1)..(form.lo + Hit - 1) : ~TrueAt(form.framed, k)
              /\ HitTail.kind \in {"content", "needMore", "part", "close"}
              /\ HitTail.kind = "needMore" => ~form.drained
              /\ HitTail.kind # "needMore" => HitTail = TailAt(form.framed, form.lo + Hit)
              /\ HitTail.skip \in Nat /\ HitTail.skip <= form.hi - form.lo - Hit - 4
<1> DEFINE s == form.framed
           lo == form.lo
           hi == form.hi
           from == form.from
<1>1. /\ s \in Seq(MpSymbol) /\ lo \in Nat /\ hi \in 0..Len(s) /\ lo <= hi /\ from \in Nat
      /\ Buffer = SubSeq(s, lo + 1, hi) /\ Len(Buffer) = hi - lo
      /\ \A k \in Nat \ {0}, l \in Nat : l <= hi - lo => SubSeq(Buffer, k, l) = SubSeq(s, lo + k, lo + l)
      /\ Hit = Find(Buffer, Delimiter, from + 1)
      /\ form.drained \in BOOLEAN /\ (form.drained => hi = Len(s))
  BY BufferIs DEF Buffer, Hit, MpForm, MpFits
<1>t. HitTail = DelimiterTail(SubSeq(Buffer, Hit + 5, hi - lo), form.drained)
  BY <1>1, Marks DEF HitTail
<1> HIDE DEF s, lo, hi, from
<1>n. lo \in Nat /\ hi \in Nat /\ from \in Nat /\ Len(s) \in Nat /\ lo <= hi /\ hi <= Len(s)
  BY <1>1
<1>2. /\ Hit \in Nat
      /\ Hit = 0 => \A k \in (lo + (from + 1))..(hi + 1 - Len(Delimiter)) : ~MatchesAt(s, Delimiter, k)
      /\ Hit # 0 => /\ Hit \in (from + 1)..(hi - lo + 1 - Len(Delimiter)) /\ MatchesAt(s, Delimiter, lo + Hit)
                    /\ \A k \in (lo + (from + 1))..(lo + Hit - 1) : ~MatchesAt(s, Delimiter, k)
  <2>1. Delimiter \in Seq(Signs) /\ from + 1 \in Nat \ {0}
    BY <1>1, Marks
  <2> QED
    BY <1>1, <2>1, FindPiece
<1>3. \A k : MatchesAt(s, Delimiter, k) <=> Matches5(s, k)
  BY DEF MatchesAt, Matches5
<1>4. lo + (from + 1) = lo + from + 1 /\ hi + 1 - Len(Delimiter) = hi - 4
      /\ hi - lo + 1 - Len(Delimiter) = hi - lo - 4
  BY <1>1, Marks
<1>5. Hit = 0 => \A k \in (lo + from + 1)..(hi - 4) : ~TrueAt(s, k)
  BY <1>2, <1>3, <1>4 DEF TrueAt
<1>6. ASSUME Hit # 0
      PROVE  /\ Hit \in (from + 1)..(hi - lo - 4) /\ Matches5(s, lo + Hit)
             /\ \A k \in (lo + from + 1)..(lo + Hit - 1) : ~TrueAt(s, k)
  BY <1>2, <1>3, <1>4, <1>6 DEF TrueAt
<1>7. ASSUME Hit # 0
      PROVE  /\ HitTail.kind \in {"content", "needMore", "part", "close"}
             /\ HitTail.kind = "needMore" => ~form.drained
             /\ HitTail.kind # "needMore" => HitTail = TailAt(s, lo + Hit)
             /\ HitTail.skip \in Nat /\ HitTail.skip <= hi - lo - Hit - 4
  <2> DEFINE u == SubSeq(s, lo + (Hit + 5), lo + (hi - lo))
             t == SubSeq(s, lo + Hit + 5, Len(s))
             m == hi - lo - Hit - 4
  <2>1. Hit + 5 \in Nat \ {0} /\ hi - lo \in Nat /\ Hit + 4 <= hi - lo /\ m \in Nat /\ Hit \in Nat
    BY <1>n, <1>6, <1>7
  <2>2. HitTail = DelimiterTail(u, form.drained)
    <3>1. SubSeq(Buffer, Hit + 5, hi - lo) = u
      <4> DEFINE k == Hit + 5
                 l == hi - lo
      <4>1. k \in Nat \ {0} /\ l \in Nat /\ l <= hi - lo
        BY <2>1
      <4> HIDE DEF k, l
      <4>2. SubSeq(Buffer, k, l) = SubSeq(s, lo + k, lo + l)
        BY <1>1, <4>1
      <4> QED
        BY <4>2 DEF k, l
    <3> QED
      BY <1>t, <3>1
  <2>3. TailAt(s, lo + Hit) = DelimiterTail(t, TRUE)
    BY Marks DEF TailAt
  <2>4. lo + (Hit + 5) = (lo + Hit + 4) + 1 /\ lo + (hi - lo) = hi /\ lo + Hit + 5 = (lo + Hit + 4) + 1
    BY <1>n, <2>1
  <2>5. u \in Seq(MpSymbol) /\ Len(u) = m
    <3>1. u = SubSeq(s, (lo + Hit + 4) + 1, hi) /\ lo + Hit + 4 \in Nat /\ lo + Hit + 4 <= hi
      BY <1>n, <2>1, <2>4
    <3>2. SubSeq(s, (lo + Hit + 4) + 1, hi) \in Seq(MpSymbol)
          /\ Len(SubSeq(s, (lo + Hit + 4) + 1, hi)) = hi - (lo + Hit + 4)
      BY <1>1, <3>1, PieceOfPiece
    <3>3. hi - (lo + Hit + 4) = m
      BY <1>n, <2>1
    <3> QED
      BY <3>1, <3>2, <3>3
  <2>6. /\ HitTail.kind \in {"content", "needMore", "part", "close"} /\ HitTail.skip \in Nat
        /\ HitTail.kind = "needMore" => ~form.drained
        /\ HitTail.skip <= m
    <3> HIDE DEF u, m
    <3> QED
      BY <1>1, <2>2, <2>5, TailIs
  <2>7. ASSUME form.drained PROVE HitTail = TailAt(s, lo + Hit)
    <3>1. u = t
      <4>1. hi = Len(s)
        BY <1>1, <2>7
      <4> QED
        BY <2>4, <4>1
    <3>2. form.drained = TRUE
      BY <1>1, <2>7
    <3>3. HitTail = TailAt(s, lo + Hit)
      <4> HIDE DEF u, t
      <4> QED
        BY <2>2, <2>3, <3>1, <3>2
    <3> QED
      BY <3>3
  <2>8. ASSUME ~form.drained, HitTail.kind # "needMore" PROVE HitTail = TailAt(s, lo + Hit)
    <3>1. lo + Hit + 4 \in Nat /\ Len(s) \in 0..Len(s) /\ lo + Hit + 4 <= Len(s) /\ m <= Len(s) - (lo + Hit + 4)
      BY <1>n, <2>1
    <3>2. t \in Seq(MpSymbol) /\ Len(t) = Len(s) - (lo + Hit + 4)
          /\ SubSeq(t, 1, m) = SubSeq(s, (lo + Hit + 4) + 1, (lo + Hit + 4) + m)
      <4> DEFINE a == lo + Hit + 4
                 e == Len(s)
                 v == SubSeq(s, a + 1, e)
      <4>0. t = v
        BY <2>4
      <4>1. /\ a \in Nat /\ e \in 0..Len(s) /\ a <= e /\ m \in Nat /\ m <= e - a /\ t = v
            /\ 1 \in Nat \ {0}
        <5> HIDE DEF t, v, m
        <5> QED
          BY <2>1, <3>1, <4>0
      <4> HIDE DEF a, e, m, t
      <4>2. v \in Seq(MpSymbol) /\ Len(v) = e - a /\ SubSeq(v, 1, m) = SubSeq(s, a + 1, a + m)
        BY <1>1, <4>1, PieceOfPiece
      <4> QED
        BY <4>1, <4>2 DEF a, e
    <3>3. (lo + Hit + 4) + m = hi
      BY <1>n, <2>1
    <3>4. u = SubSeq(t, 1, m) /\ m \in 0..Len(t)
      <4>1. u = SubSeq(s, (lo + Hit + 4) + 1, hi)
        BY <2>4
      <4>2. m <= Len(t) /\ Len(t) \in Nat
        <5> HIDE DEF m, t
        <5> QED
          BY <1>n, <2>1, <3>1, <3>2
      <4>3. u = SubSeq(t, 1, m)
        <5> HIDE DEF u, t, m
        <5> QED
          BY <3>2, <3>3, <4>1
      <4>4. m \in 0..Len(t)
        <5> HIDE DEF t, m
        <5> QED
          BY <2>1, <4>2
      <4> QED
        BY <4>3, <4>4
    <3>5. DelimiterTail(u, FALSE) = HitTail
      BY <1>1, <2>2, <2>8
    <3> HIDE DEF u, t, m
    <3>6. DelimiterTail(u, FALSE) = DelimiterTail(t, TRUE)
      BY <2>5, <2>8, <3>2, <3>4, <3>5, TailStable
    <3> QED
      BY <2>3, <3>5, <3>6
  <2>9. HitTail.skip <= hi - lo - Hit - 4
    BY <2>6
  <2>10. HitTail.kind # "needMore" => HitTail = TailAt(s, lo + Hit)
    BY <2>7, <2>8
  <2> HIDE DEF u, t, m
  <2> QED
    BY <2>6, <2>9, <2>10
<1> QED
  BY <1>2, <1>5, <1>6, <1>7 DEF s, lo, hi, from

BlankAt(s, k) == SubSeq(s, k, k + 3) = NewLine \o NewLine

\* The first empty line of a piece of the body, in places of the body.
LEMMA BlankIs ==
  ASSUME NEW S, NEW s \in Seq(S), NEW lo \in Nat, NEW hi \in 0..Len(s), lo <= hi
  PROVE  LET r == Split(SubSeq(s, lo + 1, hi))
         IN /\ r \in Nat
            /\ r = 0 => \A k \in 1..(hi - lo - 3) : ~BlankAt(s, lo + k)
            /\ r # 0 => /\ r \in 1..(hi - lo - 3) /\ BlankAt(s, lo + r)
                        /\ \A k \in 1..(r - 1) : ~BlankAt(s, lo + k)
<1> DEFINE n == NewLine \o NewLine
           r == Split(SubSeq(s, lo + 1, hi))
<1>0. n \in Seq(Signs) /\ Len(n) = 4
  BY Marks
<1>1. \A k \in Int : MatchesAt(s, n, k) <=> BlankAt(s, k)
  BY <1>0 DEF MatchesAt, BlankAt
<1>2. r = Find(SubSeq(s, lo + 1, hi), n, 1)
  BY DEF Split
<1> HIDE DEF n, r
<1>3. /\ r \in Nat
      /\ r = 0 => \A k \in (lo + 1)..(hi + 1 - Len(n)) : ~MatchesAt(s, n, k)
      /\ r # 0 => /\ r \in 1..(hi - lo + 1 - Len(n)) /\ MatchesAt(s, n, lo + r)
                  /\ \A k \in (lo + 1)..(lo + r - 1) : ~MatchesAt(s, n, k)
  <2> DEFINE from == 1
  <2>1. from \in Nat \ {0}
    OBVIOUS
  <2>2. r = Find(SubSeq(s, lo + 1, hi), n, from)
    BY <1>2
  <2> HIDE DEF from
  <2>3. /\ r \in Nat
        /\ r = 0 => \A k \in (lo + from)..(hi + 1 - Len(n)) : ~MatchesAt(s, n, k)
        /\ r # 0 => /\ r \in from..(hi - lo + 1 - Len(n)) /\ MatchesAt(s, n, lo + r)
                    /\ \A k \in (lo + from)..(lo + r - 1) : ~MatchesAt(s, n, k)
    BY <1>0, <2>1, <2>2, FindPiece
  <2> QED
    BY <2>3 DEF from
<1>4. ASSUME r = 0, NEW k \in 1..(hi - lo - 3) PROVE ~BlankAt(s, lo + k)
  <2>1. lo + k \in (lo + 1)..(hi + 1 - Len(n)) /\ lo + k \in Int
    BY <1>0
  <2> QED
    BY <1>1, <1>3, <1>4, <2>1
<1>5. ASSUME r # 0 PROVE r \in 1..(hi - lo - 3) /\ BlankAt(s, lo + r)
  <2>1. r \in 1..(hi - lo - 3) /\ lo + r \in Int
    BY <1>0, <1>3, <1>5
  <2> QED
    BY <1>1, <1>3, <1>5, <2>1
<1>6. ASSUME r # 0, NEW k \in 1..(r - 1) PROVE ~BlankAt(s, lo + k)
  <2>1. lo + k \in (lo + 1)..(lo + r - 1) /\ lo + k \in Int
    BY <1>3
  <2> QED
    BY <1>1, <1>3, <1>6, <2>1
<1> QED
  BY <1>3, <1>4, <1>5, <1>6 DEF r

\* Two adjacent pieces make one.
LEMMA Glue ==
  ASSUME NEW S, NEW s \in Seq(S), NEW a \in Nat \ {0}, NEW b \in Nat, NEW c \in Nat,
         a <= b + 1, b <= c, c <= Len(s)
  PROVE  SubSeq(s, a, b) \o SubSeq(s, b + 1, c) = SubSeq(s, a, c)
<1> DEFINE u == SubSeq(s, a, b)
           v == SubSeq(s, b + 1, c)
           w == SubSeq(s, a, c)
<1>1. u \in Seq(S) /\ Len(u) = b + 1 - a /\ \A i \in 1..(b + 1 - a) : u[i] = s[a + i - 1]
  OBVIOUS
<1>2. v \in Seq(S) /\ Len(v) = c - b /\ \A i \in 1..(c - b) : v[i] = s[b + i]
  OBVIOUS
<1>3. w \in Seq(S) /\ Len(w) = c + 1 - a /\ \A i \in 1..(c + 1 - a) : w[i] = s[a + i - 1]
  OBVIOUS
<1> HIDE DEF u, v, w
<1>4. /\ u \o v \in Seq(S) /\ Len(u \o v) = Len(u) + Len(v)
      /\ \A i \in 1..(Len(u) + Len(v)) : (u \o v)[i] = IF i <= Len(u) THEN u[i] ELSE v[i - Len(u)]
  BY <1>1, <1>2, ConcatProperties
<1>5. Len(u) + Len(v) = Len(w)
  BY <1>1, <1>2, <1>3
<1>6. ASSUME NEW i \in 1..Len(w) PROVE (u \o v)[i] = w[i]
  <2>1. i \in 1..(Len(u) + Len(v)) /\ w[i] = s[a + i - 1]
    BY <1>3, <1>5
  <2>2. CASE i <= Len(u)
    <3>1. i \in 1..(b + 1 - a)
      BY <1>1, <2>1, <2>2
    <3> QED
      BY <1>1, <1>4, <2>1, <2>2, <3>1
  <2>3. CASE ~(i <= Len(u))
    <3>1. i - Len(u) \in 1..(c - b) /\ b + (i - Len(u)) = a + i - 1
      BY <1>1, <1>2, <2>1, <2>3
    <3>2. (u \o v)[i] = v[i - Len(u)] /\ v[i - Len(u)] = s[b + (i - Len(u))]
      BY <1>2, <1>4, <2>1, <2>3, <3>1
    <3> QED
      BY <2>1, <3>1, <3>2
  <2> QED
    BY <2>2, <2>3
<1> QED
  <2>1. u \o v = w
    BY <1>3, <1>4, <1>5, <1>6, SeqEqual
  <2> QED
    BY <2>1 DEF u, v, w

\* A name that is found is that of a Content-Disposition line.
LEMMA NameIs ==
  ASSUME NEW S, NEW head \in Seq(S), NameIn(head) # NoName
  PROVE  NameIn(head) \in MpHeaders
<1> DEFINE T == {k \in DOMAIN head : head[k] \in MpHeaders}
           n == Len(head)
           f == [k \in 1..n |-> k]
<1>1. T # {} /\ n \in Nat /\ T \subseteq 1..n /\ f \in [1..n -> Nat]
  BY DEF NameIn
<1>2. NameIn(head) = head[CHOOSE k \in T : \A l \in T : l <= k]
  BY <1>1 DEF NameIn
<1>3. PICK k \in T : \A l \in T : f[l] <= f[k]
  <2> HIDE DEF T, n, f
  <2> QED
    BY <1>1, GreatestElement
<1>4. \A l \in T : l <= k
  BY <1>1, <1>3
<1> DEFINE c == CHOOSE m \in T : \A l \in T : l <= m
<1>5. c \in T
  <2> HIDE DEF T
  <2> QED
    BY <1>3, <1>4
<1> QED
  BY <1>2, <1>5

\* A chunk that is a part: where its headers end and what its content is.
LEMMA ChunkIs ==
  ASSUME NEW S, NEW s \in Seq(S), Taken(s), NEW n \in 1..LastLine(s)
  PROVE  LET a == AfterLine(s, LineStarts(s)[n - 1])
             e == LineStarts(s)[n]
             r == Split(Between(s, n))
         IN /\ a \in Nat \ {0} /\ e \in Nat \ {0} /\ a <= e /\ e <= Len(s) - 4
            /\ e = LineFrom(s, a)
            /\ r \in 1..(e - a - 3) /\ BlankAt(s, a - 1 + r)
            /\ \A k \in 1..(r - 1) : ~BlankAt(s, a - 1 + k)
            /\ ContentAt(s, n) = a + r + 3
            /\ PushPart(Between(s, n)).content = SubSeq(s, ContentAt(s, n), e - 1)
            /\ ChunkName(Between(s, n)) = NameIn(SubSeq(s, a, a + r - 2))
            /\ ChunkName(Between(s, n)) # NoName
<1> DEFINE L == LineStarts(s)
           last == LastLine(s)
           a == AfterLine(s, L[n - 1])
           e == L[n]
           chunk == Between(s, n)
           r == Split(chunk)
<1>1. /\ last \in Nat
      /\ \A m \in 0..last : L[m] \in Nat \ {0} /\ L[m] \in 1..(Len(s) - 4)
      /\ \A m \in 0..(last - 1) : /\ L[m + 1] = LineFrom(s, AfterLine(s, L[m]))
                                  /\ AfterLine(s, L[m]) <= L[m + 1]
      /\ \A m \in 1..last : ChunkName(Between(s, m)) # NoName
  BY TakenIs DEF Taken, LastLine
<1>2. n \in 0..last /\ n - 1 \in 0..last /\ n - 1 \in 0..(last - 1) /\ (n - 1) + 1 = n /\ n \in 1..last
  BY <1>1
<1>3. chunk = SubSeq(s, a, e - 1) /\ ContentAt(s, n) = a + r + 3
  BY DEF Between, ContentAt
<1>4. a \in Nat \ {0} /\ e \in Nat \ {0} /\ a <= e /\ e <= Len(s) - 4 /\ Len(s) \in Nat /\ e = LineFrom(s, a)
  <2>1. L[n - 1] \in Nat /\ e \in 1..(Len(s) - 4) /\ e \in Nat \ {0} /\ Len(s) \in Nat
    BY <1>1, <1>2
  <2>2. a \in Nat \ {0}
    BY <2>1, AfterIs
  <2>3. a <= e /\ e = LineFrom(s, a)
    BY <1>1, <1>2
  <2> HIDE DEF a, e
  <2> QED
    BY <2>1, <2>2, <2>3
<1>5. ChunkName(chunk) # NoName
  BY <1>1, <1>2
<1>6. r # 0 /\ ChunkName(chunk) = NameIn(SubSeq(chunk, 1, r - 1))
      /\ PushPart(chunk).content = SubSeq(chunk, r + 4, Len(chunk))
  BY <1>5 DEF ChunkName, PushPart, Part
<1> HIDE DEF L, last, a, e, chunk
<1> DEFINE lo == a - 1
           hi == e - 1
<1>7. lo \in Nat /\ hi \in 0..Len(s) /\ lo <= hi /\ lo + 1 = a /\ hi - lo = e - a
  BY <1>4
<1>8. chunk = SubSeq(s, lo + 1, hi)
  BY <1>3, <1>7
<1>9. /\ chunk \in Seq(S) /\ Len(chunk) = hi - lo
      /\ \A k \in Nat \ {0}, l \in Nat : l <= hi - lo => SubSeq(chunk, k, l) = SubSeq(s, lo + k, lo + l)
  <2> HIDE DEF lo, hi
  <2>1. chunk \in Seq(S) /\ Len(chunk) = hi - lo
    BY <1>7, <1>8
  <2>2. \A k \in Nat \ {0}, l \in Nat : l <= hi - lo => SubSeq(chunk, k, l) = SubSeq(s, lo + k, lo + l)
    BY <1>7, <1>8, PieceOfPiece
  <2> QED
    BY <2>1, <2>2
<1>10. r \in 1..(hi - lo - 3) /\ BlankAt(s, lo + r) /\ \A k \in 1..(r - 1) : ~BlankAt(s, lo + k)
  <2> HIDE DEF lo, hi
  <2> QED
    BY <1>6, <1>7, <1>8, BlankIs
<1> HIDE DEF r
<1>11. SubSeq(chunk, 1, r - 1) = SubSeq(s, a, a + r - 2)
  <2>1. 1 \in Nat \ {0} /\ r - 1 \in Nat /\ r - 1 <= hi - lo
    BY <1>4, <1>10
  <2>2. SubSeq(chunk, 1, r - 1) = SubSeq(s, lo + 1, lo + (r - 1))
    BY <1>9, <2>1
  <2>3. lo + (r - 1) = a + r - 2
    BY <1>4, <1>10
  <2> QED
    BY <1>7, <2>2, <2>3
<1>12. SubSeq(chunk, r + 4, Len(chunk)) = SubSeq(s, a + r + 3, e - 1)
  <2>1. r + 4 \in Nat \ {0} /\ hi - lo \in Nat
    BY <1>4, <1>10
  <2>2. SubSeq(chunk, r + 4, Len(chunk)) = SubSeq(s, lo + (r + 4), lo + (hi - lo))
    <3> DEFINE k == r + 4
               l == hi - lo
    <3>1. k \in Nat \ {0} /\ l \in Nat /\ l <= hi - lo /\ Len(chunk) = l
      BY <1>9, <2>1
    <3> HIDE DEF k, l, lo, hi
    <3>2. SubSeq(chunk, k, l) = SubSeq(s, lo + k, lo + l)
      BY <1>9, <3>1
    <3> QED
      BY <3>1, <3>2 DEF k, l
  <2>3. lo + (r + 4) = a + r + 3 /\ lo + (hi - lo) = e - 1
    BY <1>4, <1>10
  <2> QED
    BY <2>2, <2>3
<1>13. r \in 1..(e - a - 3) /\ BlankAt(s, a - 1 + r) /\ \A k \in 1..(r - 1) : ~BlankAt(s, a - 1 + k)
  BY <1>4, <1>10
<1> QED
  BY <1>3, <1>4, <1>5, <1>6, <1>11, <1>12, <1>13 DEF a, e, r, chunk, L

\* What a call that hands out nothing leaves of where the parser is.
LEMMA FollowsOn ==
  ASSUME NEW f, NEW g, Follows(f),
         g.framed = f.framed, g.parts = f.parts, g.phase = f.phase,
         g.end = f.end \/ (g.phase = "done" /\ g.end = "ok"),
         f.phase # "preamble" => g.lo = f.lo,
         f.phase \in {"preamble", "inPart"} =>
           LineFrom(f.framed, g.lo + g.from + 1) = LineFrom(f.framed, f.lo + f.from + 1)
  PROVE  Follows(g)
<1>1. \A k : Named(f, k) => Named(g, k)
  BY DEF Named
<1>2. \A k : Whole(f, k) => Whole(g, k)
  BY DEF Whole
<1> QED
  BY <1>1, <1>2 DEF Follows

MpOK(f) == f \in MpForm /\ MpFits(f)

\* The body with the line break that new puts before it.
LEMMA BodyFramed ==
  ASSUME NEW body \in MpBodies
  PROVE  NewLine \o body \in Seq(MpSymbol) /\ Len(NewLine \o body) \in Nat /\ Len(NewLine \o body) >= 2
<1>1. body \in Seq(MpSymbol)
  <2>1. body \in Seq({body[k] : k \in DOMAIN body})
    BY MpSymbols
  <2>2. {body[k] : k \in DOMAIN body} \subseteq MpSymbol
    BY DEF MpSymbol
  <2> DEFINE T == {body[k] : k \in DOMAIN body}
  <2>3. body \in Seq(T) /\ T \subseteq MpSymbol
    BY <2>1, <2>2
  <2> HIDE DEF T
  <2> QED
    BY <2>3
<1>2. NewLine \in Seq(MpSymbol) /\ Len(NewLine) = 2
  BY DEF NewLine, MpSymbol
<1> HIDE DEF NewLine
<1> QED
  BY <1>1, <1>2, ConcatProperties

\* The constructor.
LEMMA TypedStart ==
  ASSUME MpOK(form), NEW body \in MpBodies, MpStart(body)
  PROVE  /\ MpOK(form)' /\ form'.framed = NewLine \o body /\ form'.phase = "preamble"
         /\ form'.parts = form.parts /\ form'.lo = form.lo /\ form'.from = form.from
         /\ form'.end = form.end /\ form'.op = form.op
<1> DEFINE b == NewLine \o body
<1>1. b \in Seq(MpSymbol) /\ Len(b) \in Nat /\ Len(b) >= 2
  BY BodyFramed
<1>2. form' = [form EXCEPT !.phase = "preamble", !.framed = b, !.hi = 2] /\ form.phase = "none"
  BY DEF MpStart
<1> HIDE DEF b
<1>3. form' \in MpForm
  BY <1>1, <1>2 DEF MpOK, MpForm
<1>4. MpFits(form')
  BY <1>1, <1>2 DEF MpOK, MpForm, MpFits
<1> QED
  BY <1>1, <1>2, <1>3, <1>4 DEF MpOK, MpForm, b

\* What next_field keeps of a preamble.
LEMMA KeptIs ==
  ASSUME MpOK(form), Starved
  PROVE  /\ Kept \in Nat /\ form.lo <= Kept /\ Kept + form.from <= form.hi
         /\ Kept # form.lo => form.op = "delimiter" /\ Hit = 0 /\ Kept = form.hi - 4 /\ form.from = 0
         /\ form.from # 0 => Kept = form.lo
<1>1. form.lo \in Nat /\ form.hi \in Nat /\ form.from \in Nat /\ form.lo <= form.hi
      /\ Len(Buffer) = form.hi - form.lo
  BY BufferIs DEF MpOK
<1>2. form.from = 0 \/ form.lo + form.from + 4 <= form.hi
  BY DEF MpOK, MpFits
<1>3. form.op = "delimiter" => form.from = 0
  BY DEF MpOK, MpFits
<1>4. CASE form.op = "delimiter" /\ Hit = 0 /\ ~Held
  <2>1. Kept = form.hi - 4 /\ form.hi - form.lo > 4
    BY <1>1, <1>4, Marks DEF Kept, Held
  <2> QED
    BY <1>1, <1>3, <1>4, <2>1
<1>5. CASE ~(form.op = "delimiter" /\ Hit = 0 /\ ~Held)
  <2>1. Kept = form.lo
    BY <1>5 DEF Kept
  <2> QED
    BY <1>1, <1>2, <2>1
<1> QED
  BY <1>4, <1>5

\* More of the body, or its end.
LEMMA TypedFill ==
  ASSUME MpOK(form), (\E n \in 1..3 : Fill(n)) \/ Drain
  PROVE  /\ MpOK(form)' /\ Starved /\ form'.framed = form.framed /\ form'.phase = form.phase
         /\ form'.parts = form.parts /\ form'.lo = Kept /\ form'.from = form.from
         /\ form'.end = form.end /\ form'.op = form.op
<1>0. Starved
  BY DEF Fill, Drain
<1>1. /\ Kept \in Nat /\ form.lo <= Kept /\ Kept + form.from <= form.hi
      /\ Kept # form.lo => form.op = "delimiter" /\ form.from = 0
      /\ form.from # 0 => Kept = form.lo
  BY <1>0, KeptIs
<1>2. form.phase # "none"
  BY <1>0 DEF Starved, Scanning, MpOK, MpFits
<1>3. CASE \E n \in 1..3 : Fill(n)
  <2>1. PICK n \in 1..3 : Fill(n)
    BY <1>3
  <2>2. form' = [form EXCEPT !.hi = @ + n, !.lo = Kept] /\ form.hi + n <= Len(form.framed)
    BY <2>1 DEF Fill
  <2> DEFINE hi == form.hi + n
  <2>a. hi \in Nat /\ form' = [form EXCEPT !.hi = hi, !.lo = Kept]
    BY <2>2 DEF MpOK, MpForm
  <2> HIDE DEF hi
  <2>3. form' \in MpForm
    BY <1>1, <2>a DEF MpOK, MpForm
  <2> USE DEF hi
  <2>4. MpFits(form')
    BY <1>1, <1>2, <2>2 DEF MpOK, MpForm, MpFits
  <2> QED
    BY <1>0, <2>2, <2>3, <2>4 DEF MpOK, MpForm
<1>4. CASE Drain
  <2>1. form' = [form EXCEPT !.drained = TRUE, !.lo = Kept] /\ form.hi = Len(form.framed)
    BY <1>4 DEF Drain
  <2>2. form' \in MpForm
    BY <1>1, <2>1 DEF MpOK, MpForm
  <2>3. MpFits(form')
    BY <1>1, <1>2, <2>1 DEF MpOK, MpForm, MpFits
  <2> QED
    BY <1>0, <2>1, <2>2, <2>3 DEF MpOK, MpForm
<1> QED
  BY <1>3, <1>4

\* A call that fails.
LEMMA TypedFail ==
  ASSUME MpOK(form), NEW status \in {"400", "413"}, form' = Fails(status), form.phase # "none", form.from = 0
  PROVE  /\ MpOK(form)' /\ form'.framed = form.framed /\ form'.phase = "failed"
         /\ form'.parts = form.parts /\ form'.end = status
<1>1. form' = [form EXCEPT !.op = "idle", !.phase = "failed", !.end = status]
  BY DEF Fails
<1>2. form' \in MpForm
  BY <1>1 DEF MpOK, MpForm
<1>3. MpFits(form')
  BY <1>1 DEF MpOK, MpForm, MpFits
<1> QED
  BY <1>1, <1>2, <1>3 DEF MpOK, MpForm

\* The calls of the handler.
LEMMA TypedCall ==
  ASSUME MpOK(form), NextField \/ Chunk
  PROVE  /\ MpOK(form)' /\ form'.framed = form.framed /\ form'.phase = form.phase
         /\ form'.parts = form.parts /\ form'.lo = form.lo /\ form'.from = form.from
         /\ form'.end = form.end \/ (form'.phase = "done" /\ form'.end = "ok")
<1>1. CASE Chunk
  <2>1. form' = [form EXCEPT !.op = "content"] /\ form.phase = "inPart"
    BY <1>1 DEF Chunk
  <2>2. form' \in MpForm
    BY <2>1 DEF MpOK, MpForm
  <2> QED
    BY <2>1, <2>2 DEF MpOK, MpForm, MpFits
<1>2. CASE NextField
  <2>0. form.op = "idle"
    BY <1>2 DEF NextField
  <2>1. CASE form.phase = "done"
    <3>1. form' = [form EXCEPT !.end = "ok"]
      BY <1>2, <2>1 DEF NextField
    <3>2. form' \in MpForm
      BY <3>1 DEF MpOK, MpForm
    <3> QED
      BY <2>0, <2>1, <3>1, <3>2 DEF MpOK, MpForm, MpFits
  <2>2. CASE form.phase # "done"
    <3>1. PICK op \in {"skip", "delimiter", "headers"} :
            /\ form' = [form EXCEPT !.op = op]
            /\ op = "skip" <=> form.phase = "inPart"
            /\ op = "delimiter" <=> form.phase = "preamble"
            /\ op = "headers" <=> form.phase = "afterDelimiter"
      <4>1. form.phase \in {"preamble", "inPart", "afterDelimiter"}
        BY <1>2, <2>2 DEF NextField
      <4>2. CASE form.phase = "preamble"
        BY <1>2, <4>2 DEF NextField
      <4>3. CASE form.phase = "inPart"
        BY <1>2, <4>3 DEF NextField
      <4>4. CASE form.phase = "afterDelimiter"
        BY <1>2, <4>4 DEF NextField
      <4> QED
        BY <4>1, <4>2, <4>3, <4>4
    <3>2. form' \in MpForm
      BY <3>1 DEF MpOK, MpForm
    <3> QED
      BY <3>1, <3>2 DEF MpOK, MpForm, MpFits
  <2> QED
    BY <2>1, <2>2
<1> QED
  BY <1>1, <1>2

\* The body has ended, and nothing is left to be found in it.
LEMMA TypedTruncated ==
  ASSUME MpOK(form), Truncated
  PROVE  /\ form.from = 0 /\ form.phase # "none" /\ form' = Fails("400")
         /\ form.drained /\ form.hi = Len(form.framed)
         /\ Scanning => Hit = 0
<1>1. Starved /\ form.drained /\ form' = Fails("400")
  BY DEF Truncated
<1>2. form.phase # "none"
  BY <1>1 DEF Starved, Scanning, MpOK, MpFits
<1>3. Scanning => Hit = 0
  <2>1. Scanning => form.op # "headers"
    BY DEF Scanning
  <2>2. Hit # 0 => HitTail.kind # "needMore"
    BY <1>1, HitIs DEF MpOK
  <2> QED
    BY <1>1, <2>1, <2>2 DEF Starved
<1>4. form.from = 0
  <2>1. CASE form.op \in {"content", "skip"}
    <3>1. Held
      BY <1>1, <1>3, <2>1 DEF Starved, Scanning
    <3>2. form.hi - form.lo <= 4
      BY <3>1, BufferIs, Marks DEF Held, MpOK
    <3> QED
      BY <3>2 DEF MpOK, MpForm, MpFits
  <2>2. CASE form.op \notin {"content", "skip"}
    BY <1>1, <2>2 DEF Starved, Scanning, MpOK, MpFits
  <2> QED
    BY <2>1, <2>2
<1> QED
  BY <1>1, <1>2, <1>3, <1>4 DEF MpOK, MpFits

\* A delimiter that is content.
LEMMA TypedFalse ==
  ASSUME MpOK(form), FalseMatch
  PROVE  /\ MpOK(form)' /\ form'.framed = form.framed /\ form'.phase = form.phase
         /\ form'.parts = form.parts /\ form'.end = form.end
         /\ Hit \in (form.from + 1)..(form.hi - form.lo - 4)
         /\ form.phase \in {"preamble", "inPart"}
         /\ \/ form.op = "delimiter" /\ form'.lo = form.lo + Hit /\ form'.from = 0 /\ form.from = 0
            \/ form.phase = "inPart" /\ form'.lo = form.lo /\ form'.from = Hit
<1>1. Scanning /\ Hit # 0 /\ HitTail.kind = "content" /\ Hit \in (form.from + 1)..(form.hi - form.lo - 4)
  BY HitIs DEF FalseMatch, MpOK
<1>2. form.lo \in Nat /\ form.hi \in Nat /\ form.from \in Nat /\ Hit \in Nat
  BY HitIs DEF MpOK, MpForm
<1>3. CASE form.op = "delimiter"
  <2> DEFINE lo == form.lo + Hit
  <2>1. form' = [form EXCEPT !.lo = lo] /\ form.phase = "preamble" /\ form.from = 0
    BY <1>3 DEF FalseMatch, MpOK, MpFits
  <2>2. lo \in Nat
    BY <1>2
  <2>3. form' \in MpForm
    <3> HIDE DEF lo
    <3> QED
      BY <2>1, <2>2 DEF MpOK, MpForm
  <2>4. MpFits(form')
    BY <1>1, <1>2, <2>1 DEF MpOK, MpForm, MpFits
  <2> QED
    BY <1>1, <1>3, <2>1, <2>3, <2>4 DEF MpOK, MpForm
<1>4. CASE form.op # "delimiter"
  <2>1. form' = [form EXCEPT !.from = Hit] /\ form.phase = "inPart"
    BY <1>1, <1>4 DEF FalseMatch, Scanning, MpOK, MpFits
  <2>2. form' \in MpForm
    BY <1>2, <2>1 DEF MpOK, MpForm
  <2>3. MpFits(form')
    BY <1>1, <1>2, <2>1 DEF MpOK, MpForm, MpFits
  <2> QED
    BY <1>1, <2>1, <2>2, <2>3 DEF MpOK, MpForm
<1> QED
  BY <1>3, <1>4

\* What is given of a part changes the part alone.
LEMMA GivenIs ==
  ASSUME MpOK(form), NEW data \in Seq(MpSymbol)
  PROVE  LET g == Given(form, data)
             n == Len(form.parts)
         IN /\ g = [form EXCEPT !.parts = g.parts]
            /\ g.parts \in Seq([name : MpHeaders, content : Seq(MpSymbol), whole : BOOLEAN])
            /\ Len(g.parts) = n /\ n \in Nat
            /\ \A k \in 1..n : /\ g.parts[k].name = form.parts[k].name
                               /\ k # n => g.parts[k] = form.parts[k]
            /\ form.op = "content" =>
                 /\ n > 0 /\ g.parts[n].whole = form.parts[n].whole
                 /\ g.parts[n].content = form.parts[n].content \o data
            /\ form.op = "skip" => n > 0 /\ g.parts[n].whole = FALSE
            /\ form.op \notin {"content", "skip"} => g = form
<1> DEFINE PartType == [name : MpHeaders, content : Seq(MpSymbol), whole : BOOLEAN]
           n == Len(form.parts)
           ps == form.parts
<1>1. form.parts \in Seq(PartType) /\ n \in Nat /\ form \in MpForm
  BY DEF MpOK, MpForm
<1>2. form.op \in {"content", "skip"} => n > 0 /\ n \in 1..n
  BY <1>1 DEF MpOK, MpFits
<1>3. CASE form.op = "content"
  <2> DEFINE p == [ps[n] EXCEPT !.content = @ \o data]
  <2>0. n \in 1..n
    BY <1>1, <1>2, <1>3
  <2>1. n \in 1..n /\ ps[n] \in PartType
    <3> HIDE DEF PartType
    <3> QED
      BY <1>1, <2>0
  <2>2. p \in PartType /\ p.name = ps[n].name /\ p.whole = ps[n].whole /\ p.content = ps[n].content \o data
    <3> DEFINE c == ps[n].content \o data
    <3>1. c \in Seq(MpSymbol)
      BY <2>1
    <3>2. p = [ps[n] EXCEPT !.content = c]
      OBVIOUS
    <3> HIDE DEF c, p
    <3>3. p \in PartType /\ p.name = ps[n].name /\ p.whole = ps[n].whole /\ p.content = c
      BY <2>1, <3>1, <3>2
    <3> QED
      BY <3>3 DEF c
  <2>3. Given(form, data) = [form EXCEPT !.parts = [ps EXCEPT ![n] = p]]
    BY <1>3 DEF Given
  <2> DEFINE qs == [ps EXCEPT ![n] = p]
  <2> HIDE DEF p
  <2>4. qs \in Seq(PartType) /\ Len(qs) = n /\ qs[n] = p /\ \A k \in 1..n : k # n => qs[k] = ps[k]
    BY <1>1, <2>1, <2>2, ExceptSeq
  <2> HIDE DEF qs
  <2>5. Given(form, data).parts = qs /\ Given(form, data) = [form EXCEPT !.parts = qs]
    BY <1>1, <2>3 DEF MpForm, qs
  <2> QED
    BY <1>1, <1>2, <1>3, <2>2, <2>4, <2>5
<1>4. CASE form.op = "skip"
  <2> DEFINE p == [ps[n] EXCEPT !.whole = FALSE]
  <2>0. n \in 1..n
    BY <1>1, <1>2, <1>4
  <2>1. n \in 1..n /\ ps[n] \in PartType
    <3> HIDE DEF PartType
    <3> QED
      BY <1>1, <2>0
  <2>2. p \in PartType /\ p.name = ps[n].name /\ p.whole = FALSE
    BY <2>1
  <2>3. Given(form, data) = [form EXCEPT !.parts = [ps EXCEPT ![n] = p]]
    BY <1>4 DEF Given
  <2> DEFINE qs == [ps EXCEPT ![n] = p]
  <2> HIDE DEF p
  <2>4. qs \in Seq(PartType) /\ Len(qs) = n /\ qs[n] = p /\ \A k \in 1..n : k # n => qs[k] = ps[k]
    BY <1>1, <2>1, <2>2, ExceptSeq
  <2> HIDE DEF qs
  <2>5. Given(form, data).parts = qs /\ Given(form, data) = [form EXCEPT !.parts = qs]
    BY <1>1, <2>3 DEF MpForm, qs
  <2> QED
    BY <1>1, <1>2, <1>4, <2>2, <2>4, <2>5
<1>5. CASE form.op \notin {"content", "skip"}
  <2>1. Given(form, data) = form
    BY <1>5 DEF Given
  <2>2. form = [form EXCEPT !.parts = form.parts]
    BY <1>1 DEF MpForm
  <2> QED
    BY <1>1, <1>5, <2>1, <2>2
<1> QED
  BY <1>3, <1>4, <1>5

\* Who scans, and where.
LEMMA ScanIs ==
  ASSUME MpOK(form), Scanning
  PROVE  /\ form.phase \in {"preamble", "inPart"} /\ form.op \in {"delimiter", "content", "skip"}
         /\ form.op = "delimiter" <=> form.phase = "preamble"
         /\ form.phase = "preamble" => form.from = 0
         /\ form.phase = "inPart" => Len(form.parts) > 0
BY DEF MpOK, MpForm, MpFits, Scanning

\* The start of the buffer is a piece of the body.
LEMMA PieceIs ==
  ASSUME MpOK(form), NEW m \in Nat, m <= form.hi - form.lo
  PROVE  /\ SubSeq(Buffer, 1, m) \in Seq(MpSymbol)
         /\ SubSeq(Buffer, 1, m) = SubSeq(form.framed, form.lo + 1, form.lo + m)
<1> DEFINE s == form.framed
           lo == form.lo
           hi == form.hi
<1>1. /\ s \in Seq(MpSymbol) /\ lo \in Nat /\ hi \in 0..Len(s) /\ lo <= hi
      /\ \A k \in Nat \ {0}, l \in Nat : l <= hi - lo => SubSeq(Buffer, k, l) = SubSeq(s, lo + k, lo + l)
  BY BufferIs DEF MpOK
<1>2. m <= hi - lo
  OBVIOUS
<1> HIDE DEF s, lo, hi
<1>3. SubSeq(Buffer, 1, m) = SubSeq(s, lo + 1, lo + m)
  <2>1. 1 \in Nat \ {0}
    OBVIOUS
  <2> QED
    BY <1>1, <1>2, <2>1
<1>4. SubSeq(s, lo + 1, lo + m) \in Seq(MpSymbol)
  BY <1>1, <1>2
<1> QED
  BY <1>3, <1>4 DEF s, lo

\* A delimiter line: what is given of the part, and where the next one begins.
LEMMA TypedLine ==
  ASSUME MpOK(form), DelimiterLine
  PROVE  LET data == SubSeq(Buffer, 1, Hit - 1)
             tail == TailAt(form.framed, form.lo + Hit)
         IN /\ MpOK(form)' /\ form'.framed = form.framed /\ form'.from = 0
            /\ Scanning /\ Hit # 0 /\ HitTail = tail /\ HitTail.kind \in {"part", "close"}
            /\ data \in Seq(MpSymbol) /\ form'.parts = Given(form, data).parts
            /\ tail.kind = "close" => form'.phase = "done" /\ form'.end \in {"ok", form.end}
            /\ tail.kind = "part" => /\ form'.phase = "afterDelimiter" /\ form'.end = form.end
                                     /\ form'.lo = form.lo + Hit - 1 + 5 + tail.skip
<1> DEFINE data == SubSeq(Buffer, 1, Hit - 1)
           g == Given(form, data)
           lo == form.lo + Hit - 1 + 5 + HitTail.skip
<1>1. Scanning /\ Hit # 0 /\ HitTail.kind \in {"part", "close"}
  BY HitIs DEF DelimiterLine, MpOK
<1>2. /\ Hit \in (form.from + 1)..(form.hi - form.lo - 4)
      /\ HitTail = TailAt(form.framed, form.lo + Hit)
      /\ HitTail.skip \in Nat /\ HitTail.skip <= form.hi - form.lo - Hit - 4
  BY <1>1, HitIs DEF MpOK
<1>3. form.lo \in Nat /\ form.hi \in Nat /\ form.from \in Nat /\ Hit \in Nat
  BY HitIs DEF MpOK, MpForm
<1>4. data \in Seq(MpSymbol)
  <2>1. Hit - 1 \in Nat /\ Hit - 1 <= form.hi - form.lo
    BY <1>1, <1>2, <1>3
  <2> QED
    BY <2>1, PieceIs
<1>5. /\ g = [form EXCEPT !.parts = g.parts]
      /\ g.parts \in Seq([name : MpHeaders, content : Seq(MpSymbol), whole : BOOLEAN])
      /\ Len(g.parts) = Len(form.parts)
  <2> HIDE DEF data
  <2> QED
    BY <1>4, GivenIs
<1>6. lo \in Nat /\ lo <= form.hi
  BY <1>2, <1>3
<1>7. Len(Delimiter) = 5
  BY Marks
<1>8. /\ HitTail.kind = "close" => form' = MoveOn(g, "done")
      /\ HitTail.kind = "part" => form' = MoveOn([g EXCEPT !.lo = lo], "afterDelimiter")
  <2>1. g.lo = form.lo
    BY <1>5 DEF MpOK, MpForm
  <2> QED
    BY <1>1, <1>7, <2>1 DEF DelimiterLine
<1> HIDE DEF g, data, lo
<1>9. form.phase \in {"preamble", "inPart"}
  BY <1>1, ScanIs
<1>10. CASE HitTail.kind = "close"
  <2> DEFINE op == "idle"
             end == IF g.op # "content" THEN "ok" ELSE g.end
  <2>1. form' = [g EXCEPT !.phase = "done", !.from = 0, !.op = op, !.end = end]
    BY <1>8, <1>10 DEF MoveOn
  <2>2. g \in MpForm /\ end \in {"ok", form.end} /\ end \in {"none", "ok", "400", "413"}
    BY <1>5 DEF MpOK, MpForm
  <2> HIDE DEF end
  <2>3. form' \in MpForm
    BY <2>1, <2>2 DEF MpForm
  <2>4. MpFits(form')
    BY <1>5, <1>9, <2>1, <2>2 DEF MpOK, MpForm, MpFits
  <2>5. form'.framed = form.framed /\ form'.parts = g.parts
    BY <1>5, <2>1, <2>2 DEF MpForm, MpOK
  <2> QED
    BY <1>1, <1>2, <1>4, <1>10, <2>1, <2>2, <2>3, <2>4, <2>5 DEF MpOK, MpForm, data, g
<1>11. CASE HitTail.kind = "part"
  <2> DEFINE h == [g EXCEPT !.lo = lo]
             op == IF h.op = "content" THEN "idle" ELSE "headers"
  <2>0. h \in MpForm /\ g \in MpForm
    BY <1>5, <1>6 DEF MpOK, MpForm
  <2>1. form' = [h EXCEPT !.phase = "afterDelimiter", !.from = 0, !.op = op, !.end = h.end]
    BY <1>8, <1>11, <2>0 DEF MoveOn
  <2>2. op \in {"idle", "headers"} /\ h.end = form.end /\ h.lo = lo /\ h.hi = form.hi /\ h.parts = g.parts
        /\ h.framed = form.framed /\ h.drained = form.drained
    BY <1>5, <1>6, <2>0 DEF MpOK, MpForm
  <2> HIDE DEF h, op
  <2>3. form' \in MpForm
    BY <2>0, <2>1, <2>2 DEF MpForm
  <2>4. MpFits(form')
    BY <1>6, <1>9, <2>0, <2>1, <2>2 DEF MpOK, MpForm, MpFits
  <2>5. /\ form'.framed = form.framed /\ form'.parts = g.parts /\ form'.from = 0
        /\ form'.phase = "afterDelimiter" /\ form'.end = form.end /\ form'.lo = lo
    BY <2>0, <2>1, <2>2 DEF MpForm
  <2>6. lo = form.lo + Hit - 1 + 5 + TailAt(form.framed, form.lo + Hit).skip
    BY <1>2 DEF lo
  <2> QED
    BY <1>1, <1>2, <1>4, <1>11, <2>3, <2>4, <2>5, <2>6 DEF MpOK, data, g
<1> QED
  BY <1>1, <1>10, <1>11

\* Content that cannot be the start of a delimiter.
LEMMA TypedEmit ==
  ASSUME MpOK(form), Emit
  PROVE  LET data == SubSeq(Buffer, 1, form.hi - 4 - form.lo)
         IN /\ MpOK(form)' /\ form'.framed = form.framed /\ form'.from = 0
            /\ form.phase = "inPart" /\ form'.phase = "inPart" /\ Scanning /\ Hit = 0
            /\ form.lo < form.hi - 4 /\ form'.lo = form.hi - 4 /\ form'.end = form.end
            /\ data \in Seq(MpSymbol) /\ form'.parts = Given(form, data).parts
<1> DEFINE data == SubSeq(Buffer, 1, form.hi - 4 - form.lo)
           g == Given(form, data)
           lo == form.hi - 4
<1>1. form.op \in {"content", "skip"} /\ Hit = 0 /\ Scanning /\ form.phase = "inPart"
  BY DEF Emit, Scanning, MpOK, MpFits
<1>2. /\ form.lo \in Nat /\ form.hi \in Nat /\ form.lo <= form.hi /\ Len(Buffer) = form.hi - form.lo
      /\ Hold = 4 /\ form.hi - form.lo > 4
  BY BufferIs, Marks DEF MpOK, Emit, Held
<1>3. lo \in Nat /\ form.lo < lo /\ lo <= form.hi
      /\ form.hi - 4 - form.lo \in Nat /\ form.hi - 4 - form.lo <= form.hi - form.lo
      /\ Len(Buffer) - Hold = form.hi - 4 - form.lo
  BY <1>2
<1>4. data \in Seq(MpSymbol)
  BY <1>3, PieceIs
<1>5. /\ g = [form EXCEPT !.parts = g.parts]
      /\ g.parts \in Seq([name : MpHeaders, content : Seq(MpSymbol), whole : BOOLEAN])
      /\ Len(g.parts) = Len(form.parts)
  <2> HIDE DEF data
  <2> QED
    BY <1>4, GivenIs
<1>6. form' = [g EXCEPT !.lo = lo, !.from = 0, !.op = IF @ = "content" THEN "idle" ELSE @]
  BY <1>2, <1>3 DEF Emit
<1> HIDE DEF g, data, lo
<1>7. g \in MpForm /\ g.op = form.op
  BY <1>5 DEF MpOK, MpForm
<1> DEFINE op == IF g.op = "content" THEN "idle" ELSE g.op
<1>8. form' = [g EXCEPT !.lo = lo, !.from = 0, !.op = op] /\ op \in {"idle", "skip"}
  BY <1>1, <1>6, <1>7
<1> HIDE DEF op
<1>9. form' \in MpForm
  BY <1>3, <1>7, <1>8 DEF MpForm
<1>10. MpFits(form')
  <2>1. g.parts # <<>>
    BY <1>1, <1>5, ScanIs
  <2>2. /\ form'.lo = lo /\ form'.hi = form.hi /\ form'.from = 0 /\ form'.op = op
        /\ form'.phase = form.phase /\ form'.parts = g.parts
        /\ form'.framed = form.framed /\ form'.drained = form.drained
    BY <1>5, <1>7, <1>8 DEF MpOK, MpForm
  <2> QED
    BY <1>1, <1>3, <1>8, <2>1, <2>2 DEF MpOK, MpForm, MpFits
<1>11. /\ form'.framed = form.framed /\ form'.parts = g.parts /\ form'.from = 0
       /\ form'.phase = form.phase /\ form'.end = form.end /\ form'.lo = lo
  BY <1>5, <1>7, <1>8 DEF MpOK, MpForm
<1> QED
  BY <1>1, <1>3, <1>4, <1>9, <1>10, <1>11 DEF MpOK, lo, data, g

\* The head of a part.
LEMMA TypedHeaders ==
  ASSUME MpOK(form), Headers
  PROVE  LET name == NameIn(SubSeq(Buffer, 1, Blank - 1))
         IN /\ MpOK(form)' /\ form.phase = "afterDelimiter" /\ form.op = "headers"
            /\ form'.framed = form.framed
            /\ Blank # 0 /\ Blank \in 1..(form.hi - form.lo - 3)
            /\ \/ /\ name # NoName /\ Len(form.parts) < MaxParts /\ form'.phase = "inPart"
                  /\ form'.lo = form.lo + Blank + 3 /\ form'.from = 0 /\ form'.end = form.end
                  /\ form'.parts = Append(form.parts, Part(name, <<>>))
               \/ name = NoName \/ Len(form.parts) >= MaxParts
<1> DEFINE name == NameIn(SubSeq(Buffer, 1, Blank - 1))
           lo == form.lo + Blank + 3
           part == Part(name, <<>>)
<1>1. form.op = "headers" /\ Blank > 0 /\ form.phase = "afterDelimiter" /\ form.from = 0
  BY DEF Headers, MpOK, MpFits
<1>2. /\ form.lo \in Nat /\ form.hi \in Nat /\ Blank \in Nat /\ Blank # 0 /\ Blank \in 1..(form.hi - form.lo - 3)
  <2>1. /\ form.framed \in Seq(MpSymbol) /\ form.lo \in Nat /\ form.hi \in 0..Len(form.framed)
        /\ form.lo <= form.hi
    BY BufferIs DEF MpOK
  <2>2. Blank = Split(SubSeq(form.framed, form.lo + 1, form.hi))
    BY DEF Blank, Split, Buffer
  <2>3. Blank \in Nat /\ (Blank # 0 => Blank \in 1..(form.hi - form.lo - 3))
    BY <2>1, <2>2, BlankIs
  <2> QED
    BY <1>1, <2>1, <2>3
<1>3. lo \in Nat /\ lo <= form.hi
  BY <1>2
<1>4. CASE name = NoName
  <2>1. form' = Fails("400")
    BY <1>4 DEF Headers
  <2> QED
    BY <1>1, <1>2, <1>4, <2>1, TypedFail
<1>5. CASE name # NoName /\ Len(form.parts) >= MaxParts
  <2>1. form' = Fails("413")
    BY <1>5 DEF Headers
  <2> QED
    BY <1>1, <1>2, <1>5, <2>1, TypedFail
<1>6. CASE name # NoName /\ ~(Len(form.parts) >= MaxParts)
  <2>1. form' = [form EXCEPT !.op = "idle", !.phase = "inPart", !.lo = lo, !.parts = Append(form.parts, part)]
    BY <1>6 DEF Headers
  <2>2. part \in [name : MpHeaders, content : Seq(MpSymbol), whole : BOOLEAN]
    <3>1. name \in MpHeaders
      <4>1. Blank - 1 \in Nat /\ Blank - 1 <= form.hi - form.lo
        BY <1>2
      <4>2. SubSeq(Buffer, 1, Blank - 1) \in Seq(MpSymbol)
        BY <4>1, PieceIs
      <4> QED
        BY <1>6, <4>2, NameIs
    <3>2. <<>> \in Seq(MpSymbol)
      OBVIOUS
    <3> HIDE DEF name
    <3> QED
      BY <3>1, <3>2 DEF Part
  <2> DEFINE PartType == [name : MpHeaders, content : Seq(MpSymbol), whole : BOOLEAN]
             qs == Append(form.parts, part)
  <2>3. qs \in Seq(PartType) /\ Len(qs) = Len(form.parts) + 1 /\ Len(form.parts) \in Nat
    <3>1. form.parts \in Seq(PartType) /\ part \in PartType
      BY <2>2 DEF MpOK, MpForm
    <3> HIDE DEF part, PartType
    <3> QED
      BY <3>1
  <2>4. qs # <<>>
    <3> HIDE DEF qs
    <3> QED
      BY <2>3
  <2> HIDE DEF qs, lo
  <2>5. form' = [form EXCEPT !.op = "idle", !.phase = "inPart", !.lo = lo, !.parts = qs]
    BY <2>1 DEF qs
  <2>6. form' \in MpForm
    BY <1>3, <2>3, <2>5 DEF MpOK, MpForm
  <2>7. MpFits(form')
    BY <1>1, <1>3, <2>4, <2>5 DEF MpOK, MpForm, MpFits
  <2>8. /\ form'.framed = form.framed /\ form'.parts = qs /\ form'.from = 0
        /\ form'.phase = "inPart" /\ form'.end = form.end /\ form'.lo = lo
    BY <1>1, <2>5 DEF MpOK, MpForm
  <2>9. Len(form.parts) < MaxParts
    BY <1>6, <2>3, MpLimits
  <2> QED
    BY <1>1, <1>2, <1>6, <2>6, <2>7, <2>8, <2>9 DEF MpOK, qs, lo
<1> QED
  BY <1>4, <1>5, <1>6

\* The search begins where the buffered parser begins its own.
LEMMA FollowsStart ==
  ASSUME MpOK(form), NEW body \in MpBodies, MpStart(body), Taken(form'.framed)
  PROVE  Follows(form')
<1>1. /\ MpOK(form)' /\ form'.framed \in Seq(MpSymbol) /\ form'.phase = "preamble"
      /\ form'.parts = <<>> /\ form'.lo = 0 /\ form'.from = 0 /\ form'.end = "none"
  BY TypedStart, BodyFramed DEF MpOK, MpFits, MpStart
<1> DEFINE s == form'.framed
<1>2. s \in Seq(MpSymbol) /\ Taken(s)
  BY <1>1
<1> HIDE DEF s
<1>3. LastLine(s) \in Nat /\ LineStarts(s)[0] = LineFrom(s, 1)
  BY <1>2, TakenIs, LinesAre DEF Taken, LastLine
<1>4. Len(form'.parts) = 0 /\ form'.lo + form'.from + 1 = 1
  BY <1>1
<1> QED
  BY <1>1, <1>3, <1>4 DEF Follows, s

\* The search may start anywhere up to the next delimiter line.
LEMMA SearchMoves ==
  ASSUME MpOK(form), NEW to \in Nat, form.lo + form.from + 1 <= to,
         \A k \in (form.lo + form.from + 1)..(to - 1) : ~TrueAt(form.framed, k)
  PROVE  LineFrom(form.framed, to) = LineFrom(form.framed, form.lo + form.from + 1)
<1> DEFINE at == form.lo + form.from + 1
           s == form.framed
<1>1. s \in Seq(MpSymbol) /\ at \in Nat \ {0} /\ at <= to /\ \A k \in at..(to - 1) : ~TrueAt(s, k)
  BY DEF MpOK, MpForm
<1> HIDE DEF at, s
<1>2. LineFrom(s, at) = LineFrom(s, to)
  BY <1>1, LineMoves
<1> QED
  BY <1>2 DEF at, s

\* A preamble that is dropped has no line in it.
LEMMA FollowsFill ==
  ASSUME MpOK(form), Follows(form), (\E n \in 1..3 : Fill(n)) \/ Drain
  PROVE  Follows(form')
<1>1. /\ Starved /\ form'.framed = form.framed /\ form'.phase = form.phase /\ form'.parts = form.parts
      /\ form'.lo = Kept /\ form'.from = form.from /\ form'.end = form.end
  BY TypedFill
<1>2. /\ Kept \in Nat /\ form.lo <= Kept
      /\ Kept # form.lo => form.op = "delimiter" /\ Hit = 0 /\ Kept = form.hi - 4 /\ form.from = 0
  BY <1>1, KeptIs
<1>3. form.lo \in Nat /\ form.hi \in Nat /\ form.from \in Nat
  BY DEF MpOK, MpForm
<1>4. CASE Kept = form.lo
  BY <1>1, <1>4, FollowsOn
<1>5. CASE Kept # form.lo
  <2>1. form.phase = "preamble"
    BY <1>2, <1>5 DEF MpOK, MpFits
  <2>2. \A k \in (form.lo + form.from + 1)..(form.hi - 4) : ~TrueAt(form.framed, k)
    BY <1>2, <1>5, HitIs DEF MpOK
  <2> DEFINE to == Kept + form.from + 1
  <2>3. to \in Nat /\ form.lo + form.from + 1 <= to /\ to - 1 = form.hi - 4
    BY <1>2, <1>3, <1>5
  <2>4. \A k \in (form.lo + form.from + 1)..(to - 1) : ~TrueAt(form.framed, k)
    BY <2>2, <2>3
  <2> HIDE DEF to
  <2>5. LineFrom(form.framed, to) = LineFrom(form.framed, form.lo + form.from + 1)
    BY <2>3, <2>4, SearchMoves
  <2>6. form'.lo + form'.from + 1 = to
    BY <1>1 DEF to
  <2> QED
    BY <1>1, <2>1, <2>5, <2>6, FollowsOn
<1> QED
  BY <1>4, <1>5

\* A search that resumes one symbol further passes over no line.
LEMMA FollowsFalse ==
  ASSUME MpOK(form), Follows(form), FalseMatch
  PROVE  Follows(form')
<1>1. /\ form'.framed = form.framed /\ form'.phase = form.phase /\ form'.parts = form.parts
      /\ form'.end = form.end /\ form.phase \in {"preamble", "inPart"}
      /\ Hit \in (form.from + 1)..(form.hi - form.lo - 4)
      /\ \/ form.op = "delimiter" /\ form'.lo = form.lo + Hit /\ form'.from = 0 /\ form.from = 0
         \/ form.phase = "inPart" /\ form'.lo = form.lo /\ form'.from = Hit
  BY TypedFalse
<1>2. form.lo \in Nat /\ form.from \in Nat /\ form.hi \in Nat /\ Hit \in Nat /\ Hit # 0
  BY <1>1 DEF MpOK, MpForm
<1>3. ~TrueAt(form.framed, form.lo + Hit)
  BY <1>2, HitIs DEF FalseMatch, TrueAt, MpOK
<1>4. \A k \in (form.lo + form.from + 1)..(form.lo + Hit - 1) : ~TrueAt(form.framed, k)
  BY <1>2, HitIs DEF MpOK
<1> DEFINE to == form.lo + Hit + 1
<1>5. to \in Nat /\ form.lo + form.from + 1 <= to /\ form'.lo + form'.from + 1 = to
  BY <1>1, <1>2
<1>6. ASSUME NEW k \in (form.lo + form.from + 1)..(to - 1) PROVE ~TrueAt(form.framed, k)
  <2>1. k = form.lo + Hit \/ k \in (form.lo + form.from + 1)..(form.lo + Hit - 1)
    BY <1>2
  <2> QED
    BY <1>3, <1>4, <2>1
<1> HIDE DEF to
<1>7. LineFrom(form.framed, to) = LineFrom(form.framed, form.lo + form.from + 1)
  BY <1>5, <1>6, SearchMoves
<1>8. form.phase # "preamble" => form'.lo = form.lo
  BY <1>1 DEF MpOK, MpFits
<1> QED
  BY <1>1, <1>5, <1>7, <1>8, FollowsOn

\* The handler does not move the parser.
LEMMA FollowsCall ==
  ASSUME MpOK(form), Follows(form), NextField \/ Chunk
  PROVE  Follows(form')
<1>1. /\ form'.framed = form.framed /\ form'.phase = form.phase
      /\ form'.parts = form.parts /\ form'.lo = form.lo /\ form'.from = form.from
      /\ form'.end = form.end \/ (form'.phase = "done" /\ form'.end = "ok")
  BY TypedCall
<1> QED
  BY <1>1, FollowsOn

\* The buffered parser finds a delimiter line after this point.
LEMMA LineAhead ==
  ASSUME MpOK(form), Follows(form), Taken(form.framed), Scanning
  PROVE  LET s == form.framed
             n == Len(form.parts)
             e == LineStarts(s)[n]
         IN /\ n \in 0..LastLine(s) /\ e = LineFrom(s, form.lo + form.from + 1) /\ e \in Nat \ {0}
            /\ e \in (form.lo + form.from + 1)..(Len(s) - 4) /\ TrueAt(s, e)
            /\ \A k \in (form.lo + form.from + 1)..(e - 1) : ~TrueAt(s, k)
<1> DEFINE s == form.framed
           n == Len(form.parts)
           at == form.lo + form.from + 1
           e == LineStarts(s)[n]
<1>1. s \in Seq(MpSymbol) /\ at \in Nat \ {0} /\ n \in Nat /\ n <= LastLine(s) /\ e = LineFrom(s, at) /\ Taken(s)
  BY ScanIs DEF MpOK, MpForm, Follows
<1> HIDE DEF s, n, at
<1>2. LastLine(s) \in Nat /\ \A m \in 0..LastLine(s) : LineStarts(s)[m] \in Nat \ {0}
  BY <1>1, TakenIs DEF Taken, LastLine
<1>3. n \in 0..LastLine(s) /\ e \in Nat \ {0}
  BY <1>1, <1>2
<1> HIDE DEF e
<1>4. e \in at..(Len(s) - 4) /\ TrueAt(s, e) /\ \A k \in at..(e - 1) : ~TrueAt(s, k)
  BY <1>1, <1>3, LineIs
<1> QED
  BY <1>1, <1>3, <1>4 DEF s, n, at, e

\* A body that the buffered parser takes is never found to be cut off.
LEMMA FollowsTruncated ==
  ASSUME MpOK(form), Follows(form), Taken(form.framed), Truncated
  PROVE  FALSE
<1> DEFINE s == form.framed
           lo == form.lo
           hi == form.hi
<1>1. /\ Starved /\ form.drained /\ form.hi = Len(form.framed) /\ (Scanning => Hit = 0)
  BY TypedTruncated DEF Truncated
<1>2. CASE Scanning
  <2>1. \A k \in (form.lo + form.from + 1)..(form.hi - 4) : ~TrueAt(form.framed, k)
    BY <1>1, <1>2, HitIs DEF MpOK
  <2>2. \E k \in (form.lo + form.from + 1)..(Len(form.framed) - 4) : TrueAt(form.framed, k)
    BY <1>2, LineAhead
  <2> QED
    BY <1>1, <2>1, <2>2
<1>3. CASE ~Scanning
  <2>1. form.op = "headers" /\ Blank = 0 /\ form.phase = "afterDelimiter"
    BY <1>1, <1>3 DEF Starved, MpOK, MpFits
  <2> DEFINE n == Len(form.parts)
             a == AfterLine(s, LineStarts(s)[n])
             e == LineStarts(s)[n + 1]
             r == Split(Between(s, n + 1))
  <2>2. /\ s \in Seq(MpSymbol) /\ n \in Nat /\ n < LastLine(s) /\ lo + 1 = a /\ Taken(s)
        /\ lo \in Nat /\ hi \in 0..Len(s) /\ lo <= hi /\ hi = Len(s) /\ Len(s) \in Nat
    BY <1>1, <2>1, BufferIs DEF MpOK, MpForm, Follows
  <2>3. Blank = Split(SubSeq(s, lo + 1, hi))
    BY DEF Blank, Split, Buffer
  <2> HIDE DEF s, n, lo, hi
  <2>4. LastLine(s) \in Nat
    BY <2>2, TakenIs DEF Taken, LastLine
  <2>5. n + 1 \in 1..LastLine(s) /\ (n + 1) - 1 = n
    BY <2>2, <2>4
  <2> DEFINE m == n + 1
  <2>6. /\ r \in 1..(e - a - 3) /\ BlankAt(s, a - 1 + r) /\ e \in Nat \ {0} /\ e <= Len(s) - 4
        /\ a \in Nat \ {0}
    <3>1. m \in 1..LastLine(s) /\ m - 1 = n
      BY <2>5
    <3> HIDE DEF m
    <3>2. LET b == AfterLine(s, LineStarts(s)[m - 1])
              f == LineStarts(s)[m]
              p == Split(Between(s, m))
          IN /\ p \in 1..(f - b - 3) /\ BlankAt(s, b - 1 + p) /\ f \in Nat \ {0} /\ f <= Len(s) - 4
             /\ b \in Nat \ {0}
      BY <2>2, <3>1, ChunkIs
    <3> QED
      BY <3>1, <3>2 DEF m
  <2> HIDE DEF r, e, a
  <2>7. \A k \in 1..(hi - lo - 3) : ~BlankAt(s, lo + k)
    BY <2>1, <2>2, <2>3, BlankIs
  <2>8. r \in 1..(hi - lo - 3) /\ a - 1 + r = lo + r
    BY <2>2, <2>6
  <2> QED
    BY <2>6, <2>7, <2>8
<1> QED
  BY <1>2, <1>3

\* What is handed out extends what the part has of the buffered one's content.
LEMMA GivenFollows ==
  ASSUME MpOK(form), Follows(form), Taken(form.framed), Scanning, form.phase = "inPart",
         NEW m \in Nat, m <= form.hi - form.lo
  PROVE  LET data == SubSeq(Buffer, 1, m)
             ps == Given(form, data).parts
             n == Len(form.parts)
             c == ContentAt(form.framed, n)
         IN /\ n \in Nat /\ n > 0 /\ Len(ps) = n /\ c \in Nat \ {0} /\ c <= form.lo + 1
            /\ ps[n].whole => ps[n].content = SubSeq(form.framed, c, form.lo + m)
            /\ \A k \in 1..n : ps[k].name = form.parts[k].name /\ (k # n => ps[k] = form.parts[k])
<1> DEFINE s == form.framed
           n == Len(form.parts)
           data == SubSeq(Buffer, 1, m)
           ps == Given(form, data).parts
           c == ContentAt(s, n)
           lo == form.lo
           old == form.parts[n]
<1>1. /\ s \in Seq(MpSymbol) /\ lo \in Nat /\ Len(s) \in Nat /\ lo + m <= Len(s) /\ Taken(s)
  <2>1. s \in Seq(MpSymbol) /\ lo \in Nat /\ form.hi \in 0..Len(s) /\ m <= form.hi - lo /\ lo <= form.hi
    BY BufferIs DEF MpOK
  <2> HIDE DEF lo
  <2>2. Len(s) \in Nat /\ lo + m <= Len(s)
    <3> HIDE DEF s
    <3> QED
      BY <2>1
  <2> QED
    BY <2>1, <2>2
<1>2. data \in Seq(MpSymbol) /\ data = SubSeq(s, lo + 1, lo + m)
  BY PieceIs
<1>3. /\ Len(ps) = n /\ n \in Nat
      /\ \A k \in 1..n : ps[k].name = form.parts[k].name /\ (k # n => ps[k] = form.parts[k])
      /\ form.op = "content" => ps[n].whole = old.whole /\ ps[n].content = old.content \o data
      /\ form.op = "skip" => ps[n].whole = FALSE
  <2> HIDE DEF data
  <2>1. /\ Len(ps) = n /\ n \in Nat
        /\ \A k \in 1..n : ps[k].name = form.parts[k].name /\ (k # n => ps[k] = form.parts[k])
    <3>1. Len(ps) = n /\ n \in Nat
      BY <1>2, GivenIs
    <3>2. LET g == Given(form, data)
              o == Len(form.parts)
          IN \A k \in 1..o : /\ g.parts[k].name = form.parts[k].name
                             /\ k # o => g.parts[k] = form.parts[k]
      BY <1>2, GivenIs
    <3> QED
      BY <3>1, <3>2
  <2>2. form.op = "content" => ps[n].whole = old.whole /\ ps[n].content = old.content \o data
    BY <1>2, GivenIs
  <2>3. form.op = "skip" => ps[n].whole = FALSE
    BY <1>2, GivenIs
  <2> QED
    BY <2>1, <2>2, <2>3
<1>4. form.op \in {"content", "skip"}
  BY ScanIs
<1>5. n > 0 /\ n <= LastLine(s) /\ c <= lo + 1 /\ (old.whole => old.content = SubSeq(s, c, lo))
  BY DEF Follows
<1> HIDE DEF s, n, ps, data, lo, old, c
<1>6. LastLine(s) \in Nat
  BY <1>1, TakenIs DEF Taken, LastLine
<1>7. c \in Nat \ {0}
  <2>1. n \in 1..LastLine(s)
    BY <1>3, <1>5, <1>6
  <2> DEFINE a == AfterLine(s, LineStarts(s)[n - 1])
             e == LineStarts(s)[n]
             r == Split(Between(s, n))
  <2>2. a \in Nat \ {0} /\ e \in Nat /\ r \in 1..(e - a - 3) /\ ContentAt(s, n) = a + r + 3
    BY <1>1, <2>1, ChunkIs
  <2> HIDE DEF a, r, e
  <2> QED
    BY <2>2 DEF c
<1>8. ps[n].whole => ps[n].content = SubSeq(s, c, lo + m)
  <2>1. CASE form.op = "content" /\ ps[n].whole
    <3>1. ps[n].content = SubSeq(s, c, lo) \o SubSeq(s, lo + 1, lo + m)
      BY <1>2, <1>3, <1>5, <2>1
    <3> DEFINE to == lo + m
    <3>2. to \in Nat /\ lo <= to /\ to <= Len(s)
      BY <1>1
    <3> HIDE DEF to
    <3>3. SubSeq(s, c, lo) \o SubSeq(s, lo + 1, to) = SubSeq(s, c, to)
      BY <1>1, <1>5, <1>7, <3>2, Glue
    <3> QED
      BY <3>1, <3>3 DEF to
  <2>2. CASE form.op = "skip"
    BY <1>3, <2>2
  <2> QED
    BY <1>4, <2>1, <2>2
<1> QED
  BY <1>3, <1>5, <1>7, <1>8 DEF s, n, ps, data, c, lo

\* The line that ends a part is the one that ends the chunk.
LEMMA FollowsLine ==
  ASSUME MpOK(form), Follows(form), Taken(form.framed), DelimiterLine
  PROVE  Follows(form')
<1> DEFINE s == form.framed
           n == Len(form.parts)
           e == LineStarts(s)[n]
           hit == form.lo + Hit
           tail == TailAt(s, hit)
           data == SubSeq(Buffer, 1, Hit - 1)
           ps == form'.parts
           last == LastLine(s)
<1>1. /\ form'.framed = s /\ Scanning /\ Hit # 0 /\ HitTail = tail /\ tail.kind \in {"part", "close"}
      /\ data \in Seq(MpSymbol) /\ ps = Given(form, data).parts
      /\ tail.kind = "close" => form'.phase = "done" /\ form'.end \in {"ok", form.end}
      /\ tail.kind = "part" => /\ form'.phase = "afterDelimiter" /\ form'.end = form.end
                               /\ form'.lo = form.lo + Hit - 1 + 5 + tail.skip
  <2>1. /\ form'.framed = s /\ Scanning /\ Hit # 0 /\ HitTail = tail /\ tail.kind \in {"part", "close"}
        /\ data \in Seq(MpSymbol) /\ ps = Given(form, data).parts
    BY TypedLine
  <2>2. tail.kind = "close" => form'.phase = "done" /\ form'.end \in {"ok", form.end}
    BY TypedLine
  <2>3. tail.kind = "part" => /\ form'.phase = "afterDelimiter" /\ form'.end = form.end
                              /\ form'.lo = form.lo + Hit - 1 + 5 + tail.skip
    BY TypedLine
  <2> HIDE DEF s, tail, hit, data, ps
  <2> QED
    BY <2>1, <2>2, <2>3
<1>2. /\ s \in Seq(MpSymbol) /\ Taken(s) /\ form.lo \in Nat /\ form.from \in Nat /\ form.hi \in Nat
      /\ Hit \in Nat /\ Hit \in (form.from + 1)..(form.hi - form.lo - 4)
      /\ Matches5(s, hit) /\ \A k \in (form.lo + form.from + 1)..(hit - 1) : ~TrueAt(s, k)
  BY <1>1, HitIs DEF MpOK, MpForm
<1>3. /\ n \in 0..last /\ e \in Nat
      /\ e \in (form.lo + form.from + 1)..(Len(s) - 4) /\ TrueAt(s, e)
      /\ \A k \in (form.lo + form.from + 1)..(e - 1) : ~TrueAt(s, k)
  BY <1>1, LineAhead
<1>4. /\ last \in Nat /\ TailAt(s, LineStarts(s)[last]).kind = "close"
      /\ \A m \in 0..(last - 1) : TailAt(s, LineStarts(s)[m]).kind = "part"
  BY <1>2, TakenIs DEF Taken, LastLine
<1>5. form.end # "400" /\ form.end # "ok" /\ \A k \in 1..n : Named(form, k)
      /\ (form.phase # "inPart" \/ k < n => Whole(form, k))
  BY <1>1, ScanIs DEF Follows
<1>6. form.phase \in {"preamble", "inPart"} /\ (form.phase = "preamble" => n = 0)
  BY <1>1, ScanIs DEF Follows
<1>7. e = hit
  <2>1. TrueAt(s, hit)
    BY <1>1, <1>2 DEF TrueAt
  <2>2. hit \in Nat /\ hit >= form.lo + form.from + 1
    BY <1>2
  <2> HIDE DEF e, hit
  <2>3. ~(e < hit) /\ ~(hit < e)
    BY <1>2, <1>3, <2>1, <2>2
  <2> QED
    BY <1>3, <2>2, <2>3
<1>8. Len(ps) = n /\ \A k \in 1..n : Named(form', k) /\ Whole(form', k)
  <2>1. CASE form.phase = "preamble"
    <3>1. n = 0
      BY <1>6, <2>1
    <3>2. Len(ps) = n
      <4> HIDE DEF data
      <4> QED
        BY <1>1, GivenIs
    <3> QED
      BY <3>1, <3>2
  <2>2. CASE form.phase = "inPart"
    <3> DEFINE m == Hit - 1
               c == ContentAt(s, n)
    <3>1. m \in Nat /\ m <= form.hi - form.lo /\ form.lo + m = e - 1 /\ data = SubSeq(Buffer, 1, m)
      BY <1>1, <1>2, <1>7
    <3> HIDE DEF m
    <3>2. /\ n \in Nat /\ n > 0 /\ Len(ps) = n
          /\ ps[n].whole => ps[n].content = SubSeq(s, c, form.lo + m)
          /\ \A k \in 1..n : ps[k].name = form.parts[k].name /\ (k # n => ps[k] = form.parts[k])
      <4>1. /\ n \in Nat /\ n > 0 /\ Len(Given(form, SubSeq(Buffer, 1, m)).parts) = n
            /\ Given(form, SubSeq(Buffer, 1, m)).parts[n].whole =>
                 Given(form, SubSeq(Buffer, 1, m)).parts[n].content = SubSeq(s, c, form.lo + m)
            /\ \A k \in 1..n : /\ Given(form, SubSeq(Buffer, 1, m)).parts[k].name = form.parts[k].name
                               /\ k # n => Given(form, SubSeq(Buffer, 1, m)).parts[k] = form.parts[k]
        BY <1>1, <2>2, <3>1, GivenFollows
      <4> QED
        BY <1>1, <3>1, <4>1
    <3>3. PushPart(Between(s, n)).content = SubSeq(s, c, e - 1)
      <4>1. n \in 1..LastLine(s)
        BY <1>3, <1>4, <3>2
      <4> HIDE DEF n, s
      <4> QED
        BY <1>2, <4>1, ChunkIs DEF n, s
    <3>4. \A k \in 1..n : Named(form', k)
      BY <1>1, <1>5, <3>2 DEF Named
    <3>5. ASSUME NEW k \in 1..n PROVE Whole(form', k)
      <4>1. CASE k = n
        BY <1>1, <3>1, <3>2, <3>3, <4>1 DEF Whole
      <4>2. CASE k # n
        <5>1. k < n /\ ps[k] = form.parts[k]
          BY <3>2, <4>2
        <5> QED
          BY <1>1, <1>5, <5>1 DEF Whole
      <4> QED
        BY <4>1, <4>2
    <3> QED
      BY <3>2, <3>4, <3>5
  <2> QED
    BY <1>6, <2>1, <2>2
<1>9. CASE tail.kind = "close"
  <2>1. n = last
    <3>1. TailAt(s, LineStarts(s)[n]).kind = "close"
      BY <1>7, <1>9
    <3>2. n \notin 0..(last - 1)
      BY <1>4, <3>1
    <3> QED
      BY <1>3, <1>4, <3>2
  <2> HIDE DEF s, n, tail, ps
  <2> QED
    BY <1>1, <1>4, <1>5, <1>8, <1>9, <2>1 DEF Follows, ps
<1>10. CASE tail.kind = "part"
  <2>1. n < last
    <3>1. TailAt(s, LineStarts(s)[n]).kind = "part"
      BY <1>7, <1>10
    <3>2. n # last
      BY <1>4, <3>1
    <3> QED
      BY <1>3, <1>4, <3>2
  <2>2. form'.lo + 1 = AfterLine(s, e)
    <3>1. tail.skip \in Nat
      BY <1>1, <1>2, HitIs DEF MpOK
    <3>2. AfterLine(s, e) = hit + 5 + tail.skip
      BY <1>7, Marks DEF AfterLine
    <3> HIDE DEF tail
    <3> QED
      BY <1>1, <1>2, <1>10, <3>1, <3>2
  <2>3. form'.phase = "afterDelimiter" /\ form'.end = form.end
    BY <1>1, <1>10
  <2>4. e = LineStarts(s)[n]
    OBVIOUS
  <2> HIDE DEF s, n, tail, ps, e
  <2> QED
    BY <1>1, <1>3, <1>4, <1>5, <1>8, <2>1, <2>2, <2>3, <2>4 DEF Follows, ps
<1> QED
  BY <1>1, <1>9, <1>10

\* What is handed out is the next piece of the content.
LEMMA FollowsEmit ==
  ASSUME MpOK(form), Follows(form), Taken(form.framed), Emit
  PROVE  Follows(form')
<1> DEFINE m == form.hi - 4 - form.lo
           data == SubSeq(Buffer, 1, m)
           s == form.framed
           n == Len(form.parts)
           ps == Given(form, data).parts
           c == ContentAt(s, n)
<1>1. /\ form'.framed = s /\ form'.from = 0
      /\ form.phase = "inPart" /\ form'.phase = "inPart" /\ Scanning /\ Hit = 0
      /\ form.lo < form.hi - 4 /\ form'.lo = form.hi - 4 /\ form'.end = form.end
      /\ form'.parts = ps
  BY TypedEmit
<1>2. form.lo \in Nat /\ form.hi \in Nat /\ form.from \in Nat /\ (form.from = 0 \/ form.lo + form.from + 4 <= form.hi)
  BY DEF MpOK, MpForm, MpFits
<1>3. m \in Nat /\ m <= form.hi - form.lo /\ form.lo + m = form.hi - 4
  BY <1>1, <1>2
<1> HIDE DEF m
<1>4. /\ n \in Nat /\ n > 0 /\ Len(ps) = n /\ c \in Nat \ {0} /\ c <= form.lo + 1
      /\ ps[n].whole => ps[n].content = SubSeq(s, c, form.lo + m)
      /\ \A k \in 1..n : ps[k].name = form.parts[k].name /\ (k # n => ps[k] = form.parts[k])
  BY <1>1, <1>3, GivenFollows
<1>5. /\ n <= LastLine(s) /\ form.end # "400" /\ (form.end = "ok" => form.phase = "done")
      /\ LineStarts(s)[n] = LineFrom(s, form.lo + form.from + 1)
      /\ \A k \in 1..n : Named(form, k) /\ (k < n => Whole(form, k))
  BY <1>1 DEF Follows
<1> DEFINE to == form.hi - 4 + 1
<1>6. to \in Nat /\ form.lo + form.from + 1 <= to /\ to - 1 = form.hi - 4 /\ form'.lo + form'.from + 1 = to
  BY <1>1, <1>2
<1>7. \A k \in (form.lo + form.from + 1)..(form.hi - 4) : ~TrueAt(s, k)
  BY <1>1, HitIs DEF MpOK
<1>8. \A k \in (form.lo + form.from + 1)..(to - 1) : ~TrueAt(s, k)
  BY <1>6, <1>7
<1> HIDE DEF to
<1>9. LineFrom(s, to) = LineFrom(s, form.lo + form.from + 1)
  BY <1>6, <1>8, SearchMoves
<1> HIDE DEF ps, data
<1>10. \A k \in 1..n : Named(form', k)
  BY <1>1, <1>4, <1>5 DEF Named
<1>11. \A k \in 1..n : k < n => Whole(form', k)
  BY <1>1, <1>4, <1>5 DEF Whole
<1>12. c <= form'.lo + 1 /\ (ps[n].whole => ps[n].content = SubSeq(s, c, form'.lo))
  BY <1>1, <1>2, <1>3, <1>4
<1> HIDE DEF n, s, c
<1> QED
  BY <1>1, <1>4, <1>5, <1>6, <1>9, <1>10, <1>11, <1>12 DEF Follows, c

\* The head that is found is the head of the chunk, and its part is within MAX_PARTS.
LEMMA FollowsHeaders ==
  ASSUME MpOK(form), Follows(form), Taken(form.framed), Headers
  PROVE  Follows(form')
<1> DEFINE s == form.framed
           n == Len(form.parts)
           m == n + 1
           lo == form.lo
           hi == form.hi
           name == NameIn(SubSeq(Buffer, 1, Blank - 1))
           a == AfterLine(s, LineStarts(s)[m - 1])
           e == LineStarts(s)[m]
           r == Split(Between(s, m))
           c == ContentAt(s, m)
           part == Part(name, <<>>)
           ps == Append(form.parts, part)
<1>1. /\ form.phase = "afterDelimiter" /\ form.op = "headers" /\ form'.framed = s
      /\ Blank # 0 /\ Blank \in 1..(hi - lo - 3)
      /\ \/ /\ name # NoName /\ form'.phase = "inPart" /\ form'.lo = lo + Blank + 3
            /\ form'.from = 0 /\ form'.end = form.end /\ form'.parts = ps
         \/ name = NoName \/ n >= MaxParts
  BY TypedHeaders
<1>2. /\ n < LastLine(s) /\ lo + 1 = AfterLine(s, LineStarts(s)[n])
      /\ form.end # "400" /\ form.end # "ok"
      /\ \A k \in 1..n : Named(form, k) /\ Whole(form, k)
  BY <1>1 DEF Follows
<1>3. /\ s \in Seq(MpSymbol) /\ Taken(s) /\ lo \in Nat /\ hi \in 0..Len(s) /\ hi \in Nat /\ lo <= hi /\ n \in Nat
      /\ form.parts \in Seq([name : MpHeaders, content : Seq(MpSymbol), whole : BOOLEAN])
  BY BufferIs DEF MpOK, MpForm
<1>4. LastLine(s) \in Nat /\ LastLine(s) <= MaxParts
  <2> HIDE DEF s
  <2> QED
    BY <1>3, TakenIs DEF Taken, LastLine
<1>5. m \in 1..LastLine(s) /\ m - 1 = n /\ m \in Nat /\ m > 0
  BY <1>2, <1>3, <1>4
<1>6. /\ a \in Nat \ {0} /\ e \in Nat \ {0} /\ a <= e /\ e = LineFrom(s, a)
      /\ r \in 1..(e - a - 3) /\ BlankAt(s, a - 1 + r)
      /\ \A k \in 1..(r - 1) : ~BlankAt(s, a - 1 + k)
      /\ c = a + r + 3
      /\ ChunkName(Between(s, m)) = NameIn(SubSeq(s, a, a + r - 2))
      /\ ChunkName(Between(s, m)) # NoName
  <2> HIDE DEF s, m
  <2> QED
    BY <1>3, <1>5, ChunkIs
<1>7. a = lo + 1
  BY <1>2, <1>5
<1>8. /\ BlankAt(s, lo + Blank) /\ \A k \in 1..(Blank - 1) : ~BlankAt(s, lo + k)
  <2>1. Blank = Split(SubSeq(s, lo + 1, hi))
    BY DEF Blank, Split, Buffer
  <2> HIDE DEF s, lo, hi
  <2> QED
    BY <1>1, <1>3, <2>1, BlankIs
<1>n1. a \in Nat /\ a > 0 /\ e \in Nat /\ r \in Nat /\ r > 0 /\ a + r + 3 <= e /\ c = a + r + 3
  <2> HIDE DEF a, r, e, c
  <2> QED
    BY <1>6
<1>n2. lo \in Nat /\ Blank \in Nat /\ Blank > 0
  <2> HIDE DEF lo, hi
  <2> QED
    BY <1>1, <1>3
<1> HIDE DEF a, r, e
<1>9. Blank = r
  <2>1. Blank \in Nat /\ r \in Nat /\ Blank > 0 /\ r > 0 /\ \A k \in Nat : a - 1 + k = lo + k
    BY <1>n1, <1>n2, <1>7
  <2>2. ~(Blank < r)
    <3>1. Blank < r => Blank \in 1..(r - 1)
      BY <2>1
    <3> QED
      BY <1>6, <1>8, <2>1, <3>1
  <2>3. ~(r < Blank)
    <3>1. r < Blank => r \in 1..(Blank - 1)
      BY <2>1
    <3> QED
      BY <1>6, <1>8, <2>1, <3>1
  <2> QED
    BY <2>1, <2>2, <2>3
<1>10. name = ChunkName(Between(s, m))
  <2>1. Blank - 1 \in Nat /\ Blank - 1 <= form.hi - form.lo
    BY <1>1, <1>3
  <2>2. SubSeq(Buffer, 1, Blank - 1) = SubSeq(s, lo + 1, lo + (Blank - 1))
    BY <2>1, PieceIs
  <2>3. lo + 1 = a /\ lo + (Blank - 1) = a + r - 2
    <3> HIDE DEF lo, c
    <3> QED
      BY <1>n1, <1>n2, <1>7, <1>9
  <2> QED
    BY <1>6, <2>2, <2>3
<1>11. ~(name = NoName \/ n >= MaxParts)
  <2>1. name # NoName
    BY <1>6, <1>10
  <2> HIDE DEF name, n
  <2>2. ~(n >= MaxParts)
    BY <1>2, <1>3, <1>4, MpLimits
  <2> QED
    BY <2>1, <2>2
<1>12. /\ form'.phase = "inPart" /\ form'.lo = lo + Blank + 3
       /\ form'.from = 0 /\ form'.end = form.end /\ form'.parts = ps
  <2> HIDE DEF name, n, ps, lo, hi
  <2> QED
    BY <1>1, <1>11
<1>13. c \in Nat /\ a <= c /\ c <= e /\ form'.lo + form'.from + 1 = c /\ form'.lo = c - 1
  <2>1. form'.lo = lo + Blank + 3 /\ form'.from = 0
    BY <1>12
  <2> HIDE DEF lo, c
  <2> QED
    BY <1>n1, <1>n2, <1>7, <1>9, <2>1
<1>14. LineFrom(s, c) = e
  <2>1. \A k \in a..(e - 1) : ~TrueAt(s, k)
    <3> HIDE DEF s
    <3> QED
      BY <1>3, <1>6, LineIs
  <2>2. \A k \in a..(c - 1) : ~TrueAt(s, k)
    <3> HIDE DEF c, s
    <3> QED
      BY <1>6, <1>13, <2>1
  <2> HIDE DEF c, s
  <2>3. LineFrom(s, a) = LineFrom(s, c)
    BY <1>3, <1>6, <1>13, <2>2, LineMoves
  <2> QED
    BY <1>6, <2>3
<1>15. /\ Len(ps) = m /\ ps[m] = part /\ \A k \in 1..n : ps[k] = form.parts[k]
  <2> HIDE DEF part
  <2> QED
    BY <1>3
<1>16. ps[m].name = ChunkName(Between(s, m)) /\ ps[m].content = <<>>
  BY <1>10, <1>15 DEF Part
<1>17. SubSeq(s, c, form'.lo) = <<>>
  <2> HIDE DEF c, s
  <2> QED
    BY <1>3, <1>13
<1> HIDE DEF ps, part, name
<1>18. \A k \in 1..n : Named(form', k) /\ Whole(form', k)
  BY <1>1, <1>2, <1>12, <1>15 DEF Named, Whole
<1>19. Named(form', m)
  BY <1>1, <1>12, <1>16 DEF Named
<1>20. \A k \in 1..m : Named(form', k) /\ (k < m => Whole(form', k))
  <2> TAKE k \in 1..m
  <2>1. k = m \/ k \in 1..n
    BY <1>3
  <2>2. k < m => k \in 1..n
    BY <1>3
  <2> HIDE DEF m, n
  <2> QED
    BY <1>18, <1>19, <2>1, <2>2
<1>21. m <= LastLine(s) /\ ContentAt(s, m) <= form'.lo + 1
  BY <1>4, <1>5, <1>13
<1>22. form'.parts[m].whole => form'.parts[m].content = SubSeq(s, ContentAt(s, m), form'.lo)
  BY <1>12, <1>16, <1>17
<1>23. LineStarts(s)[m] = LineFrom(s, form'.lo + form'.from + 1)
  BY <1>13, <1>14 DEF e
<1> HIDE DEF m, s, c, n
<1> QED
  BY <1>1, <1>2, <1>5, <1>12, <1>15, <1>20, <1>21, <1>22, <1>23 DEF Follows

\* A head beyond the bound ends the parsing where it is.
LEMMA StepTooLarge ==
  ASSUME MpOK(form), HeadersTooLarge
  PROVE  MpOK(form)' /\ form'.framed = form.framed /\ (Follows(form) => Follows(form'))
<1>1. form' = Fails("413") /\ form.phase = "afterDelimiter" /\ form.from = 0
  BY DEF HeadersTooLarge, MpOK, MpFits
<1>2. /\ MpOK(form)' /\ form'.framed = form.framed /\ form'.phase = "failed"
      /\ form'.parts = form.parts /\ form'.end = "413"
  BY <1>1, TypedFail
<1>3. ASSUME Follows(form) PROVE Follows(form')
  <2>1. Len(form.parts) <= LastLine(form.framed) /\ \A k \in 1..Len(form.parts) : Named(form, k) /\ Whole(form, k)
    BY <1>1, <1>3 DEF Follows
  <2>2. \A k \in 1..Len(form'.parts) : Named(form', k) /\ Whole(form', k)
    BY <1>2, <2>1 DEF Named, Whole
  <2> QED
    BY <1>2, <2>1, <2>2 DEF Follows
<1> QED
  BY <1>2, <1>3

\* Every step of the incremental parser and of the handler keeps the invariant.
LEMMA MpStep ==
  ASSUME MpIInv, [MpNext]_form
  PROVE  MpIInv'
<1>1. MpOK(form) /\ (form.phase # "none" /\ Taken(form.framed) => Follows(form))
  BY DEF MpIInv, MpSound, MpOK
<1>s. SUFFICES MpOK(form)' /\ (form'.phase # "none" /\ Taken(form'.framed) => Follows(form'))
  BY DEF MpIInv, MpSound, MpOK
<1>2. CASE UNCHANGED form
  BY <1>1, <1>2 DEF MpOK
<1>3. CASE \E body \in MpBodies : MpStart(body)
  BY <1>1, <1>3, TypedStart, FollowsStart
<1>4. CASE (\E n \in 1..3 : Fill(n)) \/ Drain
  <2>1. MpOK(form)' /\ Starved /\ form'.framed = form.framed
    BY <1>1, <1>4, TypedFill
  <2>2. form.phase # "none"
    BY <1>1, <2>1 DEF Starved, Scanning, MpOK, MpFits
  <2> QED
    BY <1>1, <1>4, <2>1, <2>2, FollowsFill
<1>5. CASE Truncated
  <2>1. form.from = 0 /\ form.phase # "none" /\ form' = Fails("400")
    BY <1>1, <1>5, TypedTruncated
  <2>2. MpOK(form)' /\ form'.framed = form.framed
    BY <1>1, <2>1, TypedFail
  <2> QED
    BY <1>1, <1>5, <2>1, <2>2, FollowsTruncated
<1>6. CASE FalseMatch
  <2>1. MpOK(form)' /\ form'.framed = form.framed /\ form.phase \in {"preamble", "inPart"}
    BY <1>1, <1>6, TypedFalse
  <2> QED
    BY <1>1, <1>6, <2>1, FollowsFalse
<1>7. CASE DelimiterLine
  <2>1. MpOK(form)' /\ form'.framed = form.framed /\ Scanning
    BY <1>1, <1>7, TypedLine
  <2>2. form.phase # "none"
    BY <1>1, <2>1, ScanIs
  <2> QED
    BY <1>1, <1>7, <2>1, <2>2, FollowsLine
<1>8. CASE Emit
  <2>1. MpOK(form)' /\ form'.framed = form.framed /\ form.phase = "inPart"
    BY <1>1, <1>8, TypedEmit
  <2> QED
    BY <1>1, <1>8, <2>1, FollowsEmit
<1>9. CASE Headers
  <2>1. MpOK(form)' /\ form'.framed = form.framed /\ form.phase = "afterDelimiter"
    BY <1>1, <1>9, TypedHeaders
  <2> QED
    BY <1>1, <1>9, <2>1, FollowsHeaders
<1>10. CASE HeadersTooLarge
  <2>1. form.phase # "none"
    BY <1>1, <1>10 DEF HeadersTooLarge, MpOK, MpFits
  <2> QED
    BY <1>1, <1>10, <2>1, StepTooLarge
<1>11. CASE NextField \/ Chunk
  <2>1. MpOK(form)' /\ form'.framed = form.framed /\ form'.phase = form.phase
    BY <1>1, <1>11, TypedCall
  <2> QED
    BY <1>1, <1>11, <2>1, FollowsCall
<1> QED
  BY <1>2, <1>3, <1>4, <1>5, <1>6, <1>7, <1>8, <1>9, <1>10, <1>11 DEF MpNext

\* Without a body the invariant holds.
LEMMA MpStarts == MpInit => MpIInv
<1> SUFFICES ASSUME MpInit PROVE MpIInv
  OBVIOUS
<1>1. <<>> \in Seq(MpSymbol) /\ <<>> \in Seq([name : MpHeaders, content : Seq(MpSymbol), whole : BOOLEAN])
      /\ Len(<<>>) = 0
  OBVIOUS
<1>2. form \in MpForm
  BY <1>1 DEF MpInit, MpForm
<1>3. MpFits(form) /\ form.phase = "none"
  BY <1>1 DEF MpInit, MpFits
<1> QED
  BY <1>2, <1>3 DEF MpIInv, MpSound

\* The invariant at the end of the body.
LEMMA MpEnds == MpIInv => StreamedAsBuffered
<1> SUFFICES ASSUME MpIInv, form.end # "none", Buffered(form.framed).status = "ok"
             PROVE  \/ form.end = "ok" /\ SameParts(form.parts, Buffered(form.framed).parts)
                    \/ form.end = "413"
  BY DEF StreamedAsBuffered
<1> DEFINE s == form.framed
           n == Len(form.parts)
           last == LastLine(s)
           ps == form.parts
<1>1. form \in MpForm /\ MpFits(form) /\ form.phase # "none" /\ Follows(form)
  BY DEF MpIInv, MpSound, MpFits, Taken
<1>2. form.end = "ok" \/ form.end = "413"
  BY <1>1 DEF MpForm, Follows
<1>3. ASSUME form.end = "ok" PROVE SameParts(ps, Buffered(s).parts)
  <2>1. form.phase = "done" /\ n = last /\ \A k \in 1..n : Named(form, k) /\ Whole(form, k)
    BY <1>1, <1>3 DEF Follows
  <2>2. ps \in Seq([name : MpHeaders, content : Seq(MpSymbol), whole : BOOLEAN]) /\ s \in Seq(MpSymbol)
    BY <1>1 DEF MpForm
  <2>3. n \in Nat /\ DOMAIN ps = 1..n
    BY <2>2
  <2>4. Buffered(s).parts = [k \in 1..last |-> PushPart(Between(s, k))]
    <3>1. Buffered(s).status = "ok"
      OBVIOUS
    <3> HIDE DEF s
    <3> QED
      BY <2>2, <3>1, TakenIs DEF LastLine
  <2> DEFINE bs == Buffered(s).parts
  <2> HIDE DEF bs
  <2>5. bs = [k \in 1..n |-> PushPart(Between(s, k))]
    BY <2>1, <2>4 DEF bs
  <2>6. Len(bs) = n /\ \A k \in 1..n : bs[k] = PushPart(Between(s, k))
    <3> HIDE DEF n, s
    <3> QED
      BY <2>3, <2>5
  <2>7. ASSUME NEW k \in 1..n PROVE ps[k].name = bs[k].name /\ (ps[k].whole => ps[k].content = bs[k].content)
    <3>1. bs[k].name = ChunkName(Between(s, k))
      <4>1. bs[k] = PushPart(Between(s, k))
        BY <2>6
      <4> QED
        BY <4>1 DEF PushPart, Part
    <3> QED
      BY <2>1, <2>6, <3>1 DEF Named, Whole
  <2> HIDE DEF ps, n, s
  <2>8. SameParts(ps, bs)
    BY <2>3, <2>6, <2>7 DEF SameParts, n, ps
  <2> QED
    BY <2>8 DEF bs
<1> QED
  BY <1>2, <1>3

\* For any bodies and limits, wherever the chunks of the body are cut and whatever the
\* handler skips: what multipart.rs parses in a stream it takes apart as its buffered
\* parser does, and refuses only for a head beyond the bound.
THEOREM StreamedIsBuffered == MpSpec => []StreamedAsBuffered
<1>1. MpIInv /\ [MpNext]_form => MpIInv'
  BY MpStep
<1> QED
  BY <1>1, MpStarts, MpEnds, PTL DEF MpSpec

=============================================================================
