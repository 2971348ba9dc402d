------------------------ MODULE StreamParsing_proofs ------------------------
(***************************************************************************)
(* Proofs about StreamParsing, for every chunked body, upload in parts and *)
(* conversation in frames, and for every way TCP cuts them in pieces.      *)
(*                                                                         *)
(* The invariant says, for each parser, where in what the client sends its *)
(* buffer is: the buffer and what has not arrived are together what the    *)
(* parser has kept of the units it has seen (fragments put together, the   *)
(* body reassembled, nothing of the parts before), the rest of the unit it *)
(* is in, and the units behind it; and the handler has got what the units  *)
(* seen so far mean.  A receive event moves bytes from what has not        *)
(* arrived to the buffer; the loop of the parser then takes whole units,   *)
(* and stops only where a unit is not whole yet.                           *)
(***************************************************************************)
EXTENDS StreamParsing, FiniteSetTheorems, SequenceTheorems,
        WellFoundedInduction, TLAPS

-----------------------------------------------------------------------------
(* Induction, and sequences joined *)

\* Induction, about a set: the library's theorems take an operator, which the
\* provers cannot instantiate.
LEMMA Induction ==
  ASSUME NEW S, 0 \in S, \A n \in Nat : n \in S => n + 1 \in S
  PROVE  Nat \subseteq S
  <1> SUFFICES ASSUME NEW n \in Nat, n \notin S PROVE FALSE
    OBVIOUS
  <1> DEFINE R == StrictSubsetOrdering(Nat)
             T == { 0..m : m \in Nat \ S }
  <1>1. IsWellFoundedOn(R, FiniteSubsetsOf(Nat))
    BY FS_StrictSubsetOrderingWellFounded
  <1>2. T \subseteq FiniteSubsetsOf(Nat) /\ T # {}
    <2>1. \A m \in Nat : IsFiniteSet(0..m) /\ 0..m \subseteq Nat
      BY FS_Interval
    <2>2. 0..n \in T
      OBVIOUS
    <2>3. QED
      BY <2>1, <2>2 DEF FiniteSubsetsOf
  <1> HIDE DEF R, T
  <1>3. PICK x \in T : \A y \in T : ~(<< y, x >> \in R)
    BY <1>1, <1>2, WFMin, Zenon
  <1>4. PICK m \in Nat \ S : x = 0..m
    BY <1>3 DEF T
  <1>5. m # 0 /\ m - 1 \in Nat /\ m - 1 \in Nat \ S
    <2>1. m # 0
      BY <1>4
    <2>2. m - 1 \in Nat /\ (m - 1) + 1 = m
      BY <2>1
    <2>3. QED
      BY <2>1, <2>2
  <1>6. 0..(m - 1) \in T
    BY <1>5 DEF T
  <1>7. << 0..(m - 1), x >> \in R
    <2>1. 0..(m - 1) \subseteq Nat /\ 0..m \subseteq Nat
      OBVIOUS
    <2>2. 0..(m - 1) \subseteq 0..m /\ m \in 0..m /\ m \notin 0..(m - 1)
      BY <1>5
    <2>3. QED
      BY <1>4, <2>1, <2>2 DEF R, StrictSubsetOrdering
  <1>8. QED
    BY <1>3, <1>6, <1>7

\* g[i] is the first i sequences of s joined.
Grown(g, s, n) ==
  g = [i \in 1..n |-> IF i = 1 THEN s[i] ELSE g[i - 1] \o s[i]]

\* The function FlattenSeq is made of.
Chain(s, n) == CHOOSE g : Grown(g, s, n)

\* FlattenSeq of a sequence, by the recursive function it is made of.
LEMMA FlattenIs ==
  ASSUME NEW s, Len(s) # 0
  PROVE  FlattenSeq(s) = Chain(s, Len(s))[Len(s)]
  BY Zenon DEF FlattenSeq, Chain, Grown

\* Nothing is made of no sequences.
LEMMA FlattenEmpty ==
  ASSUME NEW s, Len(s) = 0
  PROVE  FlattenSeq(s) = s
  BY Zenon DEF FlattenSeq

\* The recursive function of FlattenSeq exists, for every length.
LEMMA GrownExists ==
  ASSUME NEW s
  PROVE  \A n \in Nat : \E g : Grown(g, s, n)
  <1> DEFINE S == { n \in Nat : \E g : Grown(g, s, n) }
  <1>1. 0 \in S
    <2>1. Grown([i \in 1..0 |-> 0], s, 0)
      BY DEF Grown
    <2>2. QED
      BY <2>1
  <1>2. ASSUME NEW n \in Nat, n \in S PROVE n + 1 \in S
    <2>1. PICK g : Grown(g, s, n)
      BY <1>2
    <2> DEFINE h == [i \in 1..(n + 1) |-> IF i = 1 THEN s[i] ELSE g[i - 1] \o s[i]]
    <2>2. \A i \in 1..n : h[i] = g[i]
      <3>1. TAKE i \in 1..n
      <3>2. i \in 1..(n + 1)
        OBVIOUS
      <3>3. h[i] = IF i = 1 THEN s[i] ELSE g[i - 1] \o s[i]
        BY <3>2, Zenon
      <3>4. g[i] = IF i = 1 THEN s[i] ELSE g[i - 1] \o s[i]
        BY <2>1, <3>1, Zenon DEF Grown
      <3>5. QED
        BY <3>3, <3>4
    <2>3. ASSUME NEW i \in 1..(n + 1), i # 1
          PROVE  h[i - 1] = g[i - 1]
      <3>1. i - 1 \in 1..n
        BY <2>3
      <3>2. QED
        BY <2>2, <3>1
    <2>4. h = [i \in 1..(n + 1) |-> IF i = 1 THEN s[i] ELSE h[i - 1] \o s[i]]
      <3>1. \A i \in 1..(n + 1) : (IF i = 1 THEN s[i] ELSE g[i - 1] \o s[i])
                                 = (IF i = 1 THEN s[i] ELSE h[i - 1] \o s[i])
        BY <2>3, Zenon
      <3>2. QED
        BY <3>1, Zenon
    <2>5. Grown(h, s, n + 1)
      BY <2>4, Zenon DEF Grown
    <2>6. QED
      BY <2>5
  <1>3. Nat \subseteq S
    <2> HIDE DEF S
    <2>1. QED
      BY <1>1, <1>2, Induction
  <1>4. QED
    BY <1>3

\* s and t begin with the same n sequences.
Alike(s, t, n) == \A i \in 1..n : s[i] = t[i]

\* What is joined of the first n sequences does not depend on those after them.
LEMMA GrownUnique ==
  ASSUME NEW s, NEW t, NEW N \in Nat, NEW M \in Nat, NEW f, NEW g,
         Grown(f, s, N), Grown(g, t, M), N <= M, Alike(s, t, N)
  PROVE  Alike(f, g, N)
  <1> DEFINE S == { n \in Nat : n + 1 \in 1..N => f[n + 1] = g[n + 1] }
  <1>1. \A i \in 1..N : f[i] = IF i = 1 THEN s[i] ELSE f[i - 1] \o s[i]
    BY Zenon DEF Grown
  <1>2. \A i \in 1..M : g[i] = IF i = 1 THEN t[i] ELSE g[i - 1] \o t[i]
    BY Zenon DEF Grown
  <1>3. 0 \in S
    <2>1. ASSUME 1 \in 1..N PROVE f[1] = g[1]
      <3>1. 1 \in 1..M
        BY <2>1
      <3>2. f[1] = s[1] /\ g[1] = t[1]
        BY <1>1, <1>2, <2>1, <3>1, Zenon
      <3>3. QED
        BY <2>1, <3>2 DEF Alike
    <2>2. QED
      BY <2>1
  <1>4. ASSUME NEW n \in Nat, n \in S PROVE n + 1 \in S
    <2>1. ASSUME n + 2 \in 1..N PROVE f[n + 2] = g[n + 2]
      <3>1. n + 1 \in 1..N /\ n + 2 \in 1..M /\ n + 2 # 1 /\ (n + 2) - 1 = n + 1
        BY <2>1
      <3>2. f[n + 1] = g[n + 1]
        BY <1>4, <3>1
      <3>3. f[n + 2] = f[n + 1] \o s[n + 2] /\ g[n + 2] = g[n + 1] \o t[n + 2]
        BY <1>1, <1>2, <2>1, <3>1
      <3>4. QED
        BY <2>1, <3>2, <3>3 DEF Alike
    <2>2. (n + 1) + 1 = n + 2
      OBVIOUS
    <2>3. QED
      BY <2>1, <2>2
  <1>5. Nat \subseteq S
    <2> HIDE DEF S
    <2>1. QED
      BY <1>3, <1>4, Induction
  <1>6. SUFFICES ASSUME NEW i \in 1..N PROVE f[i] = g[i]
    BY DEF Alike
  <1>7. i - 1 \in S /\ (i - 1) + 1 = i
    <2>1. i - 1 \in Nat
      OBVIOUS
    <2>2. QED
      BY <1>5, <2>1
  <1>8. QED
    BY <1>6, <1>7

\* One sequence more is joined at the end.
LEMMA FlattenAppend ==
  ASSUME NEW n \in Nat, NEW s, NEW t, Len(s) = n, Len(t) = n + 1,
         Alike(s, t, n), n = 0 => s = << >>,
         NEW V, t[n + 1] \in Seq(V)
  PROVE  FlattenSeq(t) = FlattenSeq(s) \o t[n + 1]
  <1>1. Grown(Chain(s, n), s, n) /\ Grown(Chain(t, n + 1), t, n + 1)
    <2>1. \A u : \A m \in Nat : Grown(Chain(u, m), u, m)
      BY GrownExists, Zenon DEF Chain
    <2>2. n + 1 \in Nat
      OBVIOUS
    <2>3. QED
      BY <2>1, <2>2
  <1>2. Alike(Chain(s, n), Chain(t, n + 1), n)
    <2>1. n + 1 \in Nat /\ n <= n + 1
      OBVIOUS
    <2>2. QED
      BY <1>1, <2>1, GrownUnique
  <1>3. FlattenSeq(t) = Chain(t, n + 1)[n + 1]
    BY FlattenIs
  <1>4. Chain(t, n + 1)[n + 1] =
          IF n + 1 = 1 THEN t[n + 1] ELSE Chain(t, n + 1)[(n + 1) - 1] \o t[n + 1]
    <2>1. n + 1 \in 1..(n + 1)
      OBVIOUS
    <2>2. QED
      BY <1>1, <2>1, Zenon DEF Grown
  <1>5. CASE n = 0
    <2>1. FlattenSeq(s) = << >>
      BY <1>5, FlattenEmpty
    <2>2. FlattenSeq(t) = t[n + 1]
      BY <1>3, <1>4, <1>5
    <2>3. << >> \o t[n + 1] = t[n + 1]
      OBVIOUS
    <2>4. QED
      BY <2>1, <2>2, <2>3
  <1>6. CASE n # 0
    <2>1. FlattenSeq(s) = Chain(s, n)[n]
      BY <1>6, FlattenIs
    <2>2. n \in 1..n /\ (n + 1) - 1 = n /\ n + 1 # 1
      BY <1>6
    <2>3. Chain(t, n + 1)[n + 1] = Chain(t, n + 1)[n] \o t[n + 1]
      BY <1>4, <2>2
    <2>4. QED
      BY <1>2, <1>3, <2>1, <2>2, <2>3 DEF Alike
  <1>7. QED
    BY <1>5, <1>6

\* Concatenation, as the library states it.
LEMMA Concatenated ==
  ASSUME NEW S, NEW s \in Seq(S), NEW t \in Seq(S)
  PROVE  /\ s \o t \in Seq(S) /\ Len(s \o t) = Len(s) + Len(t)
         /\ \A i \in 1..Len(s) + Len(t) :
              (s \o t)[i] = IF i <= Len(s) THEN s[i] ELSE t[i - Len(s)]
  BY ConcatProperties, Zenon

\* s and then t: named, so that the provers take it as it is.
Cat(s, t) == s \o t

\* x has the elements of s and then those of t.
IsCat(x, s, t) ==
  /\ Len(x) = Len(s) + Len(t) /\ Len(s) \in Nat /\ Len(t) \in Nat
  /\ \A i \in 1..Len(s) : x[i] = s[i]
  /\ \A i \in 1..Len(t) : x[Len(s) + i] = t[i]

\* Concatenation, in terms of Cat.
LEMMA CatIs ==
  ASSUME NEW S, NEW s \in Seq(S), NEW t \in Seq(S)
  PROVE  Cat(s, t) \in Seq(S) /\ IsCat(Cat(s, t), s, t)
  <1>1. /\ Cat(s, t) \in Seq(S) /\ Len(Cat(s, t)) = Len(s) + Len(t)
        /\ \A i \in 1..Len(s) + Len(t) :
              Cat(s, t)[i] = IF i <= Len(s) THEN s[i] ELSE t[i - Len(s)]
    BY Concatenated, Zenon DEF Cat
  <1>2. Len(s) \in Nat /\ Len(t) \in Nat
    OBVIOUS
  <1>3. ASSUME NEW i \in 1..Len(s) PROVE Cat(s, t)[i] = s[i]
    <2>1. i \in 1..Len(s) + Len(t) /\ i <= Len(s)
      BY <1>2
    <2>2. QED
      BY <1>1, <2>1
  <1>4. ASSUME NEW i \in 1..Len(t) PROVE Cat(s, t)[Len(s) + i] = t[i]
    <2>1. Len(s) + i \in 1..Len(s) + Len(t) /\ ~(Len(s) + i <= Len(s))
          /\ (Len(s) + i) - Len(s) = i
      BY <1>2
    <2>2. QED
      BY <1>1, <2>1
  <1>5. QED
    BY <1>1, <1>2, <1>3, <1>4 DEF IsCat

\* Concatenation is associative.
LEMMA CatAssoc ==
  ASSUME NEW S, NEW s \in Seq(S), NEW t \in Seq(S), NEW u \in Seq(S)
  PROVE  Cat(Cat(s, t), u) = Cat(s, Cat(t, u))
  BY ConcatAssociative DEF Cat

\* The empty sequence adds nothing.
LEMMA CatEmpty ==
  ASSUME NEW S, NEW s \in Seq(S)
  PROVE  /\ Cat(s, << >>) = s /\ Cat(<< >>, s) = s /\ << >> \in Seq(S)
         /\ Len(s) = 0 <=> s = << >>
  BY DEF Cat

\* Two sequences are equal, up to where the shorter ends.
LEMMA CatSplit ==
  ASSUME NEW S, NEW a \in Seq(S), NEW b \in Seq(S), NEW c \in Seq(S), NEW d \in Seq(S),
         Cat(a, b) = Cat(c, d)
  PROVE  /\ \A i \in 1..Len(a) : i <= Len(c) => a[i] = c[i]
         /\ Len(c) <= Len(a) => \E r \in Seq(S) : a = Cat(c, r) /\ d = Cat(r, b)
  <1> DEFINE x == Cat(a, b)
             m == Len(a)
             n == Len(b)
             k == Len(c)
             l == Len(d)
  <1>1. /\ x \in Seq(S) /\ Len(x) = m + n /\ m \in Nat /\ n \in Nat
        /\ \A i \in 1..m : x[i] = a[i]
        /\ \A i \in 1..n : x[m + i] = b[i]
    <2>1. x \in Seq(S) /\ IsCat(x, a, b)
      BY CatIs
    <2> HIDE DEF x
    <2>2. QED
      BY <2>1 DEF IsCat
  <1>2. /\ Len(x) = k + l /\ k \in Nat /\ l \in Nat
        /\ \A i \in 1..k : x[i] = c[i]
        /\ \A i \in 1..l : x[k + i] = d[i]
    <2>1. x = Cat(c, d)
      OBVIOUS
    <2>2. IsCat(x, c, d)
      BY <2>1, CatIs
    <2> HIDE DEF x
    <2>3. QED
      BY <2>2 DEF IsCat
  <1> HIDE DEF x, m, n, k, l
  <1>3. ASSUME NEW i \in 1..m, i <= k PROVE a[i] = c[i]
    <2>1. i \in 1..k
      BY <1>2, <1>3
    <2>2. QED
      BY <1>1, <1>2, <2>1
  <1>4. ASSUME k <= m PROVE \E r \in Seq(S) : a = Cat(c, r) /\ d = Cat(r, b)
    <2> DEFINE j == m - k
    <2>1. j \in Nat /\ j <= l /\ j + n = l /\ k + j = m
      BY <1>1, <1>2, <1>4
    <2> HIDE DEF j
    <2> DEFINE r == [i \in 1..j |-> a[k + i]]
    <2>2. \A i \in 1..j : a[k + i] \in S
      <3>1. \A i \in 1..j : k + i \in 1..m
        BY <1>1, <1>2, <2>1
      <3>2. QED
        BY <3>1 DEF m
    <2>3. r \in Seq(S) /\ Len(r) = j /\ \A i \in 1..j : r[i] = a[k + i]
      <3>1. j \in Nat
        BY <2>1
      <3>2. r \in Seq(S)
        BY <2>2, <3>1
      <3>3. QED
        BY <3>1, <3>2
    <2> HIDE DEF r
    <2>4. a = Cat(c, r)
      <3> DEFINE y == Cat(c, r)
      <3>1. /\ y \in Seq(S) /\ Len(y) = k + j
            /\ \A i \in 1..k : y[i] = c[i]
            /\ \A i \in 1..j : y[k + i] = r[i]
        <4>1. y \in Seq(S) /\ IsCat(y, c, r)
          BY <2>3, CatIs
        <4> HIDE DEF y
        <4>2. QED
          BY <2>3, <4>1 DEF IsCat, k
      <3> HIDE DEF y
      <3>2. k + j = m
        BY <2>1
      <3>3. ASSUME NEW i \in 1..m PROVE a[i] = y[i]
        <4>1. CASE i \in 1..k
          BY <1>3, <3>1, <4>1, <1>2
        <4>2. CASE ~(i \in 1..k)
          <5>1. i - k \in 1..j /\ k + (i - k) = i
            BY <1>1, <1>2, <2>1, <4>2
          <5>2. y[k + (i - k)] = r[i - k] /\ r[i - k] = a[k + (i - k)]
            BY <2>3, <3>1, <5>1
          <5>3. QED
            BY <5>1, <5>2
        <4>3. QED
          BY <4>1, <4>2
      <3>4. QED
        BY <3>1, <3>2, <3>3, SeqEqual DEF m, y
    <2>5. d = Cat(r, b)
      <3> DEFINE y == Cat(r, b)
      <3>1. /\ y \in Seq(S) /\ Len(y) = j + n
            /\ \A i \in 1..j : y[i] = r[i]
            /\ \A i \in 1..n : y[j + i] = b[i]
        <4>1. y \in Seq(S) /\ IsCat(y, r, b)
          BY <2>3, CatIs
        <4> HIDE DEF y
        <4>2. QED
          BY <2>3, <4>1 DEF IsCat, n
      <3> HIDE DEF y
      <3>2. j + n = l
        BY <1>1, <1>2, <2>1
      <3>3. ASSUME NEW i \in 1..l PROVE d[i] = y[i]
        <4>1. CASE i \in 1..j
          <5>1. k + i \in 1..m
            BY <1>1, <1>2, <2>1, <4>1
          <5>2. d[i] = x[k + i] /\ x[k + i] = a[k + i]
            BY <1>1, <1>2, <5>1
          <5>3. QED
            BY <2>3, <3>1, <4>1, <5>2
        <4>2. CASE ~(i \in 1..j)
          <5>1. /\ i - j \in 1..n /\ j + (i - j) = i
                /\ m + (i - j) = k + i
            <6>1. /\ j \in Nat /\ n \in Nat /\ k \in Nat /\ l \in Nat
                  /\ j + n = l /\ k + j = m
              BY <1>1, <1>2, <2>1
            <6>2. QED
              BY <4>2, <6>1
          <5>2. y[j + (i - j)] = b[i - j]
            BY <3>1, <5>1
          <5>3. x[m + (i - j)] = b[i - j]
            BY <1>1, <5>1
          <5>4. d[i] = x[k + i]
            BY <1>2
          <5>5. QED
            BY <5>1, <5>2, <5>3, <5>4
        <4>3. QED
          BY <4>1, <4>2
      <3>4. QED
        BY <3>1, <3>2, <3>3, SeqEqual DEF l, y
    <2>6. QED
      BY <2>3, <2>4, <2>5
  <1>5. QED
    BY <1>3, <1>4 DEF m, k

\* a and b are together what c and d are: where a and c are not at their end
\* they agree, and when c is not the longer one, d holds what a has beyond it.
Splits(S, a, b, c, d) ==
  /\ \A i \in 1..Len(a) : i <= Len(c) => a[i] = c[i]
  /\ Len(c) <= Len(a) => \E r \in Seq(S) : a = Cat(c, r) /\ d = Cat(r, b)

\* CatSplit, as the predicate.
LEMMA CatSplits ==
  ASSUME NEW S, NEW a \in Seq(S), NEW b \in Seq(S), NEW c \in Seq(S), NEW d \in Seq(S),
         Cat(a, b) = Cat(c, d)
  PROVE  Splits(S, a, b, c, d)
  <1>1. /\ \A i \in 1..Len(a) : i <= Len(c) => a[i] = c[i]
        /\ Len(c) <= Len(a) => \E r \in Seq(S) : a = Cat(c, r) /\ d = Cat(r, b)
    BY CatSplit
  <1>2. QED
    BY <1>1 DEF Splits

\* What follows a in both is the same.
LEMMA CatCancel ==
  ASSUME NEW S, NEW a \in Seq(S), NEW b \in Seq(S), NEW c \in Seq(S), Cat(a, b) = Cat(a, c)
  PROVE  b = c
  <1>1. Len(a) <= Len(a) /\ Len(a) \in Nat
    OBVIOUS
  <1>2. PICK r \in Seq(S) : a = Cat(a, r) /\ c = Cat(r, b)
    BY <1>1, CatSplit
  <1>3. Len(r) = 0
    <2>1. Len(Cat(a, r)) = Len(a) + Len(r) /\ Len(r) \in Nat
      BY <1>2, CatIs DEF IsCat
    <2>2. QED
      BY <1>1, <1>2, <2>1
  <1>4. r = << >>
    BY <1>3, CatEmpty
  <1>5. QED
    BY <1>2, <1>4, CatEmpty

\* The first i sequences of p, joined.
Joined(p, i) == FlattenSeq([k \in 1..i |-> p[k]])

\* Of no sequences, nothing is joined.
LEMMA JoinedNone ==
  ASSUME NEW p
  PROVE  Joined(p, 0) = << >>
  <1> DEFINE s == [k \in 1..0 |-> p[k]]
  <1>1. s = << >>
    OBVIOUS
  <1> HIDE DEF s
  <1>2. Len(s) = 0
    BY <1>1
  <1>3. QED
    BY <1>1, <1>2, FlattenEmpty DEF Joined, s

\* One sequence more is joined at the end.
LEMMA JoinedNext ==
  ASSUME NEW V, NEW p, NEW n \in Nat, p[n + 1] \in Seq(V)
  PROVE  Joined(p, n + 1) = Cat(Joined(p, n), p[n + 1])
  <1> DEFINE s == [k \in 1..n |-> p[k]]
             t == [k \in 1..(n + 1) |-> p[k]]
  <1>1. Len(s) = n /\ Len(t) = n + 1 /\ (n = 0 => s = << >>)
    OBVIOUS
  <1>2. t[n + 1] = p[n + 1]
    OBVIOUS
  <1>3. Alike(s, t, n)
    BY DEF Alike
  <1>4. FlattenSeq(s) = Joined(p, n) /\ FlattenSeq(t) = Joined(p, n + 1)
    BY DEF Joined
  <1> HIDE DEF s, t
  <1>5. t[n + 1] \in Seq(V)
    BY <1>2
  <1>6. FlattenSeq(t) = FlattenSeq(s) \o t[n + 1]
    BY <1>1, <1>3, <1>5, FlattenAppend
  <1>7. QED
    BY <1>2, <1>4, <1>6, Zenon DEF Cat

\* All of them joined is FlattenSeq.
LEMMA JoinedAll ==
  ASSUME NEW V, NEW p \in Seq(V)
  PROVE  Joined(p, Len(p)) = FlattenSeq(p)
  <1>1. [k \in 1..Len(p) |-> p[k]] = p
    OBVIOUS
  <1>2. QED
    BY <1>1 DEF Joined

\* p is a sequence of n sequences.
Pieces(V, p, n) == n \in Nat /\ \A i \in 1..n : p[i] \in Seq(V)

\* What is joined is a sequence of the same elements.
LEMMA JoinedSeq ==
  ASSUME NEW V, NEW p, NEW n, Pieces(V, p, n)
  PROVE  \A i \in 0..n : Joined(p, i) \in Seq(V)
  <1> DEFINE T == { i \in Nat : i \in 0..n => Joined(p, i) \in Seq(V) }
  <1>1. 0 \in T
    <2>1. << >> \in Seq(V) /\ Joined(p, 0) = << >>
      BY JoinedNone
    <2>2. QED
      BY <2>1
  <1>2. ASSUME NEW i \in Nat, i \in T PROVE i + 1 \in T
    <2>1. ASSUME i + 1 \in 0..n PROVE Joined(p, i + 1) \in Seq(V)
      <3>1. i \in 0..n /\ p[i + 1] \in Seq(V)
        BY <2>1 DEF Pieces
      <3>2. Joined(p, i) \in Seq(V)
        BY <1>2, <3>1
      <3>3. Joined(p, i + 1) = Cat(Joined(p, i), p[i + 1])
        BY <3>1, JoinedNext
      <3>4. QED
        BY <3>1, <3>2, <3>3, CatIs
    <2>2. QED
      BY <2>1
  <1>3. Nat \subseteq T
    <2> HIDE DEF T
    <2>1. QED
      BY <1>1, <1>2, Induction
  <1>4. QED
    BY <1>3

\* r is what follows the first i of n sequences, joined.
Remains(V, p, n, i, r) ==
  r \in Seq(V) /\ Joined(p, n) = Cat(Joined(p, i), r)

\* Something follows the first i of them, for every i.
LEMMA RemainsExists ==
  ASSUME NEW V, NEW p, NEW n, Pieces(V, p, n), NEW i \in 0..n
  PROVE  \E r : Remains(V, p, n, i, r)
  <1> DEFINE T == { k \in Nat : k \in i..n => \E r : Remains(V, p, k, i, r) }
  <1>0. n \in Nat /\ i \in Nat
    BY DEF Pieces
  <1>1. \A k \in 0..i - 1 : k \in T
    BY <1>0
  <1>2. i \in T
    <2>1. Joined(p, i) \in Seq(V)
      BY JoinedSeq
    <2>2. Remains(V, p, i, i, << >>)
      BY <2>1, CatEmpty DEF Remains
    <2>3. QED
      BY <1>0, <2>2
  <1>3. ASSUME NEW k \in Nat, k \in T PROVE k + 1 \in T
    <2>1. CASE k + 1 <= i
      BY <1>0, <1>1, <1>2, <2>1
    <2>2. CASE ~(k + 1 <= i)
      <3>1. ASSUME k + 1 \in i..n PROVE \E r : Remains(V, p, k + 1, i, r)
        <4>1. k \in i..n /\ k \in 0..n /\ p[k + 1] \in Seq(V)
          BY <1>0, <2>2, <3>1 DEF Pieces
        <4>2. PICK r : Remains(V, p, k, i, r)
          BY <1>3, <4>1
        <4>3. /\ Joined(p, i) \in Seq(V) /\ r \in Seq(V)
              /\ Joined(p, k) = Cat(Joined(p, i), r)
          BY <4>2, JoinedSeq DEF Remains
        <4>4. Joined(p, k + 1) = Cat(Joined(p, k), p[k + 1])
          BY <4>1, JoinedNext
        <4>5. Joined(p, k + 1) = Cat(Joined(p, i), Cat(r, p[k + 1]))
          BY <4>1, <4>3, <4>4, CatAssoc
        <4>6. Cat(r, p[k + 1]) \in Seq(V)
          BY <4>1, <4>3, CatIs
        <4>7. Remains(V, p, k + 1, i, Cat(r, p[k + 1]))
          BY <4>5, <4>6 DEF Remains
        <4>8. QED
          BY <4>7
      <3>2. QED
        BY <3>1
    <2>3. QED
      BY <2>1, <2>2
  <1>4. Nat \subseteq T
    <2>1. 0 \in T
      BY <1>0, <1>1, <1>2
    <2> HIDE DEF T
    <2>2. QED
      BY <1>3, <2>1, Induction
  <1>5. n \in T /\ n \in i..n
    BY <1>0, <1>4
  <1>6. QED
    BY <1>5

\* The next of them begins what follows.
LEMMA RemainsNext ==
  ASSUME NEW V, NEW p, NEW n, Pieces(V, p, n), NEW i \in Nat, i < n,
         NEW r, Remains(V, p, n, i, r)
  PROVE  /\ \E t : Remains(V, p, n, i + 1, t) /\ r = Cat(p[i + 1], t)
         /\ Joined(p, i + 1) = Cat(Joined(p, i), p[i + 1])
  <1>1. i \in 0..n /\ i + 1 \in 0..n /\ p[i + 1] \in Seq(V)
    BY DEF Pieces
  <1>2. PICK t : Remains(V, p, n, i + 1, t)
    BY <1>1, RemainsExists
  <1>3. t \in Seq(V) /\ r \in Seq(V) /\ Joined(p, i) \in Seq(V)
    BY <1>1, <1>2, JoinedSeq DEF Remains
  <1>4. Joined(p, i + 1) = Cat(Joined(p, i), p[i + 1])
    BY <1>1, JoinedNext
  <1>5. Cat(Joined(p, i), r) = Cat(Cat(Joined(p, i), p[i + 1]), t)
    BY <1>2, <1>4 DEF Remains
  <1>6. Cat(Joined(p, i), r) = Cat(Joined(p, i), Cat(p[i + 1], t))
        /\ Cat(p[i + 1], t) \in Seq(V)
    <2>1. Cat(p[i + 1], t) \in Seq(V)
      BY <1>1, <1>3, CatIs
    <2>2. Cat(Cat(Joined(p, i), p[i + 1]), t) = Cat(Joined(p, i), Cat(p[i + 1], t))
      BY <1>1, <1>3, CatAssoc
    <2>3. QED
      BY <1>5, <2>1, <2>2
  <1>7. r = Cat(p[i + 1], t)
    BY <1>3, <1>6, CatCancel
  <1>8. QED
    BY <1>2, <1>4, <1>7

\* Nothing follows the last, and all follows none.
LEMMA RemainsLast ==
  ASSUME NEW V, NEW p, NEW n, Pieces(V, p, n)
  PROVE  /\ \A r : Remains(V, p, n, n, r) => r = << >>
         /\ \A r : Remains(V, p, n, 0, r) <=> r = Joined(p, n)
  <1>1. Joined(p, n) \in Seq(V)
    <2>1. n \in 0..n
      BY DEF Pieces
    <2>2. QED
      BY <2>1, JoinedSeq
  <1>2. ASSUME NEW r, Remains(V, p, n, n, r) PROVE r = << >>
    <2>1. r \in Seq(V) /\ Cat(Joined(p, n), r) = Cat(Joined(p, n), << >>)
          /\ << >> \in Seq(V)
      BY <1>1, <1>2, CatEmpty DEF Remains
    <2>2. QED
      BY <1>1, <2>1, CatCancel
  <1>3. ASSUME NEW r PROVE Remains(V, p, n, 0, r) <=> r = Joined(p, n)
    BY <1>1, JoinedNone, CatEmpty DEF Remains
  <1>4. QED
    BY <1>2, <1>3

\* b is what x has after the first m elements, up to the n-th, and then c.
Middle(x, m, n, b, c) ==
  /\ SubSeq(x, m + 1, n) = b
  /\ Len(x) = n + Len(c) /\ n \in Nat /\ m \in Nat /\ n - m = Len(b)

\* What is cut out of a sequence made of three.
LEMMA CutMiddle ==
  ASSUME NEW S, NEW a \in Seq(S), NEW b \in Seq(S), NEW c \in Seq(S),
         NEW x, x = Cat(Cat(a, b), c), NEW m, m = Len(a), NEW n, n = Len(a) + Len(b)
  PROVE  x \in Seq(S) /\ Middle(x, m, n, b, c)
  <1> DEFINE y == SubSeq(x, m + 1, n)
             ab == Cat(a, b)
             k == Len(b)
             l == Len(c)
  <1>1. ab \in Seq(S) /\ IsCat(ab, a, b)
    BY CatIs
  <1>2. x \in Seq(S) /\ IsCat(x, ab, c)
    <2> HIDE DEF ab
    <2>1. x = Cat(ab, c)
      BY DEF ab
    <2>2. QED
      BY <1>1, <2>1, CatIs
  <1>3. k \in Nat /\ l \in Nat /\ m \in Nat /\ n = m + k
    OBVIOUS
  <1>4. Len(ab) = n /\ \A i \in 1..k : ab[m + i] = b[i]
    BY <1>1 DEF IsCat
  <1>5. Len(x) = n + l /\ \A i \in 1..n : x[i] = ab[i]
    <2> HIDE DEF ab
    <2>1. QED
      BY <1>2, <1>4 DEF IsCat
  <1> HIDE DEF ab, k, l
  <1>6. \A i \in m + 1..n : x[i] \in S
    <2>1. \A i \in m + 1..n : i \in 1..Len(x)
      BY <1>3, <1>5
    <2>2. QED
      BY <1>2, <2>1
  <1>7. \A i \in 1..n - (m + 1) + 1 : (m + 1) + i - 1 = m + i /\ i \in 1..k /\ m + i \in 1..n
    BY <1>3
  <1>8. /\ SubSeq(x, m + 1, n) \in Seq(S)
        /\ Len(SubSeq(x, m + 1, n)) = IF m + 1 <= n THEN n - (m + 1) + 1 ELSE 0
        /\ \A i \in 1..n - (m + 1) + 1 : SubSeq(x, m + 1, n)[i] = x[(m + 1) + i - 1]
    <2>1. m + 1 \in Int /\ n \in Int
      BY <1>3
    <2>2. QED
      BY <1>6, <2>1, SubSeqProperties
  <1>9. Len(y) = k /\ n - (m + 1) + 1 = k
    BY <1>3, <1>8
  <1>10. y \in Seq(S)
    BY <1>8
  <1> HIDE DEF y
  <1>11. \A i \in 1..k : y[i] = b[i]
    BY <1>4, <1>5, <1>7, <1>8, <1>9 DEF y
  <1>12. y = b
    BY <1>9, <1>10, <1>11, SeqEqual DEF k
  <1>13. QED
    BY <1>2, <1>3, <1>5, <1>12 DEF y, k, l, Middle

\* a is cut off the front of x, and b is what is left.
Cuts(x, a, b) ==
  /\ SubSeq(x, 1, Len(a)) = a /\ SubSeq(x, Len(a) + 1, Len(x)) = b
  /\ Len(x) = Len(a) + Len(b) /\ Len(a) \in Nat /\ Len(b) \in Nat

\* Cat(a, b) is cut into a and b.
LEMMA CatCuts ==
  ASSUME NEW S, NEW a \in Seq(S), NEW b \in Seq(S)
  PROVE  Cuts(Cat(a, b), a, b)
  <1> DEFINE x == Cat(a, b)
             m == Len(a)
             n == Len(a) + Len(b)
  <1>1. x = Cat(Cat(<< >>, a), b) /\ x = Cat(Cat(a, b), << >>)
    <2>1. Cat(<< >>, a) = a
      BY CatEmpty
    <2>2. Cat(a, b) \in Seq(S)
      BY CatIs
    <2>3. Cat(Cat(a, b), << >>) = Cat(a, b)
      BY <2>2, CatEmpty
    <2>4. QED
      BY <2>1, <2>3
  <1> DEFINE e == << >>
             z == 0
  <1>2. /\ e \in Seq(S) /\ z = Len(e) /\ m = Len(e) + Len(a) /\ n = Len(a) + Len(b)
        /\ n \in Nat
        /\ z + 1 = 1 /\ Len(e) = 0 /\ m = Len(a) /\ m \in Nat /\ Len(b) \in Nat
    OBVIOUS
  <1> HIDE DEF e, z, n, x, m
  <1>3. x \in Seq(S) /\ Middle(x, z, m, a, b)
    BY <1>1, <1>2, CutMiddle DEF e
  <1>4. Middle(x, m, n, b, e)
    BY <1>1, <1>2, CutMiddle DEF e
  <1>5. SubSeq(x, 1, m) = a /\ SubSeq(x, m + 1, Len(x)) = b /\ Len(x) = m + Len(b)
    BY <1>2, <1>3, <1>4 DEF Middle
  <1>6. QED
    BY <1>2, <1>5 DEF Cuts, x, m

\* A sequence is what TCP has delivered of it and what it has not.
LEMMA SplitAt ==
  ASSUME NEW S, NEW x \in Seq(S), NEW k \in 1..Len(x)
  PROVE  /\ SubSeq(x, 1, k) \in Seq(S) /\ SubSeq(x, k + 1, Len(x)) \in Seq(S)
         /\ x = Cat(SubSeq(x, 1, k), SubSeq(x, k + 1, Len(x)))
         /\ Len(SubSeq(x, 1, k)) = k
  <1> DEFINE n == Len(x)
             a == SubSeq(x, 1, k)
             b == SubSeq(x, k + 1, n)
  <1>1. n \in Nat /\ k \in Nat /\ k \in Int /\ n \in Int /\ 1 \in Int /\ k + 1 \in Int
        /\ 1 <= k /\ k <= n
    OBVIOUS
  <1>2. \A i \in 1..n : x[i] \in S
    OBVIOUS
  <1> HIDE DEF n
  <1>3. /\ a \in Seq(S) /\ Len(a) = IF 1 <= k THEN k - 1 + 1 ELSE 0
        /\ \A i \in 1..k - 1 + 1 : a[i] = x[1 + i - 1]
    <2>1. \A i \in 1..k : x[i] \in S
      BY <1>1, <1>2
    <2>2. QED
      BY <1>1, <2>1, SubSeqProperties
  <1>4. /\ b \in Seq(S) /\ Len(b) = IF k + 1 <= n THEN n - (k + 1) + 1 ELSE 0
        /\ \A i \in 1..n - (k + 1) + 1 : b[i] = x[(k + 1) + i - 1]
    <2>1. \A i \in k + 1..n : x[i] \in S
      BY <1>1, <1>2
    <2>2. QED
      BY <1>1, <2>1, SubSeqProperties
  <1> HIDE DEF a, b
  <1>5. Len(a) = k /\ Len(b) = n - k /\ Len(b) \in Nat
    BY <1>1, <1>3, <1>4
  <1>6. Cat(a, b) \in Seq(S) /\ Len(Cat(a, b)) = n
        /\ (\A i \in 1..k : Cat(a, b)[i] = a[i])
        /\ (\A i \in 1..n - k : Cat(a, b)[k + i] = b[i])
    <2>1. Cat(a, b) \in Seq(S) /\ IsCat(Cat(a, b), a, b)
      BY <1>3, <1>4, CatIs
    <2>2. Len(Cat(a, b)) = k + (n - k)
      BY <1>5, <2>1 DEF IsCat
    <2>3. QED
      BY <1>1, <1>5, <2>1, <2>2 DEF IsCat
  <1>7. ASSUME NEW i \in 1..n PROVE Cat(a, b)[i] = x[i]
    <2>1. CASE i <= k
      <3>1. i \in 1..k /\ i \in 1..k - 1 + 1 /\ 1 + i - 1 = i
        BY <1>1, <2>1
      <3>2. a[i] = x[1 + i - 1]
        BY <1>3, <3>1
      <3>3. QED
        BY <1>6, <3>1, <3>2
    <2>2. CASE ~(i <= k)
      <3> DEFINE j == i - k
      <3>1. j \in 1..n - k /\ k + j = i /\ (k + 1) + j - 1 = i /\ j \in 1..n - (k + 1) + 1
        BY <1>1, <2>2
      <3> HIDE DEF j
      <3>2. Cat(a, b)[k + j] = b[j] /\ b[j] = x[(k + 1) + j - 1]
        BY <1>4, <1>6, <3>1
      <3>3. QED
        BY <3>1, <3>2
    <2>3. QED
      BY <2>1, <2>2
  <1>8. Cat(a, b) = x
    <2> DEFINE y == Cat(a, b)
    <2>1. y \in Seq(S) /\ Len(y) = Len(x) /\ \A i \in 1..Len(y) : y[i] = x[i]
      BY <1>6, <1>7 DEF n
    <2> HIDE DEF y
    <2>2. y = x
      BY <2>1, SeqEqual
    <2>3. QED
      BY <2>2 DEF y
  <1>9. QED
    BY <1>3, <1>4, <1>5, <1>8 DEF a, b, n

-----------------------------------------------------------------------------
(* Web socket frames *)

\* What is on the wire of a body or a conversation: parts of a frame header, the
\* head of a request, the size of a chunk, line ends, and data.
Tokens ==
  ({"h"} \X BOOLEAN \X Nat) \cup ({"n", "size", "d"} \X Nat)
  \cup {<< "m" >>, << "head" >>, << "nl" >>}

\* The messages gathered of the first i frames: Gathered(fs)[i].
Gather(fs, i, g) ==
  IF fs[i].fin
  THEN [open |-> << >>,
        out |-> Append(g.out, [control |-> fs[i].op >= 8, data |-> g.open \o fs[i].data])]
  ELSE [g EXCEPT !.open = g.open \o fs[i].data]

\* f[i] is what the first i frames gather, whole messages and the open one.
Gathers(f, fs, n) ==
  f = [i \in 0..n |-> IF i = 0 THEN [open |-> << >>, out |-> << >>]
                      ELSE Gather(fs, i, f[i - 1])]

\* That function, for all frames.
Gathered(fs) == CHOOSE f : Gathers(f, fs, Len(fs))

\* Messages, by what the frames gather.
LEMMA MessagesAre ==
  ASSUME NEW fs
  PROVE  Messages(fs) = Gathered(fs)[Len(fs)].out
  BY Zenon DEF Messages, Gathered, Gathers, Gather

\* The recursive function of Messages exists, for every number of frames.
LEMMA GathersExists ==
  ASSUME NEW fs
  PROVE  \A n \in Nat : \E f : Gathers(f, fs, n)
  <1> DEFINE T == { n \in Nat : \E f : Gathers(f, fs, n) }
             base == [open |-> << >>, out |-> << >>]
  <1>1. 0 \in T
    <2>1. Gathers([i \in 0..0 |-> base], fs, 0)
      <3>1. \A i \in 0..0 : i = 0
        OBVIOUS
      <3>2. QED
        BY <3>1, Zenon DEF Gathers
    <2>2. QED
      BY <2>1
  <1>2. ASSUME NEW n \in Nat, n \in T PROVE n + 1 \in T
    <2>1. PICK g : Gathers(g, fs, n)
      BY <1>2
    <2> DEFINE e(f, i) == IF i = 0 THEN base ELSE Gather(fs, i, f[i - 1])
               h == [i \in 0..(n + 1) |-> IF i = n + 1 THEN e(g, i) ELSE g[i]]
    <2>2. \A i \in 0..(n + 1) : i # 0 => h[i - 1] = g[i - 1]
      <3>1. \A i \in 0..(n + 1) : i # 0 => i - 1 \in 0..(n + 1) /\ i - 1 # n + 1
        OBVIOUS
      <3>2. QED
        BY <3>1, Zenon
    <2>3. \A i \in 0..n : g[i] = e(g, i)
      BY <2>1, Zenon DEF Gathers
    <2>4. \A i \in 0..(n + 1) : i = n + 1 \/ i \in 0..n
      OBVIOUS
    <2>5. \A i \in 0..(n + 1) : h[i] = e(g, i)
      BY <2>3, <2>4, Zenon
    <2>6. \A i \in 0..(n + 1) : h[i] = e(h, i)
      BY <2>2, <2>5, Zenon
    <2>7. h = [i \in 0..(n + 1) |-> e(h, i)]
      <3>1. h = [i \in 0..(n + 1) |-> h[i]]
        BY Zenon
      <3> HIDE DEF h
      <3>2. QED
        BY <2>6, <3>1, Zenon
    <2>8. Gathers(h, fs, n + 1)
      BY <2>7, Zenon DEF Gathers
    <2>9. QED
      BY <2>8
  <1>3. Nat \subseteq T
    <2> HIDE DEF T
    <2>1. QED
      BY <1>1, <1>2, Induction
  <1>4. QED
    BY <1>3

\* What no frame gathers, and what the next one does.
LEMMA GatheredIs ==
  ASSUME NEW fs, Len(fs) \in Nat
  PROVE  /\ Gathered(fs)[0] = [open |-> << >>, out |-> << >>]
         /\ \A i \in 1..Len(fs) : Gathered(fs)[i] = Gather(fs, i, Gathered(fs)[i - 1])
  <1>1. Gathers(Gathered(fs), fs, Len(fs))
    BY GathersExists, Zenon DEF Gathered
  <1>2. 0 \in 0..Len(fs) /\ \A i \in 1..Len(fs) : i \in 0..Len(fs) /\ i # 0
    OBVIOUS
  <1>3. QED
    BY <1>1, <1>2, Zenon DEF Gathers

\* What the handler is told of a message.
MessageSet == [control : BOOLEAN, data : Seq(Data)]

\* After i frames a message is open.
Pending(fs, i) == i > 0 /\ ~fs[i].fin

\* What the first i frames gather: whole messages, and the fragments after them.
LEMMA GatheredType ==
  ASSUME NEW fs, fs \in Seq(FrameSet)
  PROVE  \A i \in 0..Len(fs) :
           /\ Gathered(fs)[i] \in [open : Seq(Data), out : Seq(MessageSet)]
           /\ ~Pending(fs, i) => Gathered(fs)[i].open = << >>
  <1> DEFINE n == Len(fs)
             G == Gathered(fs)
             Typed(i) == /\ G[i] \in [open : Seq(Data), out : Seq(MessageSet)]
                         /\ ~Pending(fs, i) => G[i].open = << >>
             T == { i \in Nat : i \in 0..n => Typed(i) }
  <1>0. n \in Nat /\ \A i \in 1..n : fs[i] \in FrameSet
    OBVIOUS
  <1>1. G[0] = [open |-> << >>, out |-> << >>] /\ \A i \in 1..n : G[i] = Gather(fs, i, G[i - 1])
    BY <1>0, GatheredIs
  <1> HIDE DEF n, G
  <1>2. 0 \in T
    <2> DEFINE e == << >>
    <2>1. e \in Seq(Data) /\ e \in Seq(MessageSet)
      OBVIOUS
    <2>2. G[0] = [open |-> e, out |-> e]
      BY <1>1
    <2> HIDE DEF e
    <2>3. G[0] \in [open : Seq(Data), out : Seq(MessageSet)] /\ G[0].open = e
      BY <2>1, <2>2
    <2>4. Typed(0)
      BY <2>3 DEF e
    <2> HIDE DEF Typed
    <2>5. QED
      BY <2>4
  <1>3. ASSUME NEW i \in Nat, i \in T PROVE i + 1 \in T
    <2>1. ASSUME i + 1 \in 0..n PROVE Typed(i + 1)
      <3> DEFINE j == i + 1
                 g == G[i]
                 f == fs[j]
                 w == g.open \o f.data
                 m == [control |-> f.op >= 8, data |-> w]
      <3>1. j \in 1..n /\ j - 1 = i /\ i \in 0..n /\ j > 0
        BY <1>0, <2>1
      <3>2. f \in FrameSet
        BY <1>0, <3>1
      <3>3. g \in [open : Seq(Data), out : Seq(MessageSet)]
        BY <1>3, <3>1
      <3>4. G[j] = Gather(fs, j, g)
        BY <1>1, <3>1
      <3> HIDE DEF j, g, f
      <3>5. w \in Seq(Data)
        <4>1. g.open \in Seq(Data) /\ f.data \in Seq(Data)
          BY <3>2, <3>3 DEF FrameSet
        <4>2. Cat(g.open, f.data) \in Seq(Data)
          BY <4>1, CatIs
        <4>3. QED
          BY <4>2 DEF Cat
      <3> HIDE DEF w
      <3>6. m \in MessageSet
        BY <3>2, <3>5 DEF FrameSet, MessageSet
      <3> HIDE DEF m
      <3>7. g.out \in Seq(MessageSet) /\ Append(g.out, m) \in Seq(MessageSet)
        BY <3>3, <3>6
      <3>8. Gather(fs, j, g) = IF f.fin THEN [open |-> << >>, out |-> Append(g.out, m)]
                               ELSE [g EXCEPT !.open = w]
        BY DEF Gather, f, m, w
      <3>9. Pending(fs, j) <=> ~f.fin
        BY <3>1 DEF Pending, f
      <3>10. CASE f.fin
        <4>1. << >> \in Seq(Data)
          OBVIOUS
        <4>2. G[j] = [open |-> << >>, out |-> Append(g.out, m)]
          BY <3>4, <3>8, <3>10
        <4>3. QED
          BY <3>7, <4>1, <4>2 DEF j
      <3>11. CASE ~f.fin
        <4>1. G[j] = [g EXCEPT !.open = w]
          BY <3>4, <3>8, <3>11
        <4>2. QED
          BY <3>3, <3>5, <3>9, <3>11, <4>1 DEF j
      <3>12. QED
        BY <3>10, <3>11
    <2> HIDE DEF Typed
    <2>2. QED
      BY <2>1
  <1>4. Nat \subseteq T
    <2> HIDE DEF T
    <2>1. QED
      BY <1>2, <1>3, Induction
  <1>5. \A i \in 0..n : Typed(i)
    <2> HIDE DEF Typed
    <2>1. QED
      BY <1>0, <1>4
  <1>6. QED
    BY <1>5 DEF n, G

\* The messages of the first i frames begin those of all.
LEMMA GatheredFirst ==
  ASSUME NEW fs \in Seq(FrameSet), NEW i \in 0..Len(fs)
  PROVE  \E r \in Seq(MessageSet) :
           Messages(fs) = Cat(Gathered(fs)[i].out, r)
  <1> DEFINE n == Len(fs)
             G == Gathered(fs)
             T == { k \in Nat : k \in i..n =>
                      \E r \in Seq(MessageSet) : G[k].out = Cat(G[i].out, r) }
  <1>0. n \in Nat /\ i \in Nat /\ \A k \in 0..n : G[k].out \in Seq(MessageSet)
    <2>1. \A k \in 0..Len(fs) : Gathered(fs)[k] \in [open : Seq(Data), out : Seq(MessageSet)]
      BY GatheredType
    <2>2. QED
      BY <2>1
  <1>1. /\ \A k \in 1..n : G[k] = Gather(fs, k, G[k - 1])
        /\ Messages(fs) = G[n].out
    <2>1. Len(fs) \in Nat
      OBVIOUS
    <2>2. QED
      BY <2>1, GatheredIs, MessagesAre
  <1>2. ASSUME NEW k \in 1..n
        PROVE  \E r \in Seq(MessageSet) : G[k].out = Cat(G[k - 1].out, r)
    <2>1. k - 1 \in 0..n /\ k \in 0..n
      BY <1>0
    <2> DEFINE m == [control |-> fs[k].op >= 8, data |-> G[k - 1].open \o fs[k].data]
               o == G[k - 1].out
    <2>2. G[k] = Gather(fs, k, G[k - 1])
      BY <1>1
    <2>3. CASE fs[k].fin
      <3>1. G[k].out = Append(o, m)
        BY <2>2, <2>3 DEF Gather
      <3>2. o \in Seq(MessageSet) /\ G[k].out \in Seq(MessageSet)
        BY <1>0, <2>1
      <3> HIDE DEF m, o, G
      <3>3. Len(o) \in Nat /\ Append(o, m)[Len(o) + 1] = m /\ Len(Append(o, m)) = Len(o) + 1
        BY <3>2
      <3>4. m \in MessageSet
        <4>1. Len(o) + 1 \in 1..Len(G[k].out)
          BY <3>1, <3>3
        <4>2. G[k].out[Len(o) + 1] \in MessageSet
          BY <3>2, <4>1
        <4>3. QED
          BY <3>1, <3>3, <4>2
      <3>5. << m >> \in Seq(MessageSet) /\ Append(o, m) = o \o << m >>
        BY <3>2, <3>4, AppendIsConcat
      <3>6. G[k].out = Cat(o, << m >>)
        BY <3>1, <3>5, Zenon DEF Cat
      <3>7. QED
        BY <3>5, <3>6 DEF o
    <2>4. CASE ~fs[k].fin
      <3>1. Gathered(fs)[k - 1] \in [open : Seq(Data), out : Seq(MessageSet)]
        BY <2>1, GatheredType
      <3>2. G[k].out = o
        BY <2>2, <2>4, <3>1 DEF Gather
      <3>3. o \in Seq(MessageSet)
        BY <1>0, <2>1
      <3>4. Cat(o, << >>) = o /\ << >> \in Seq(MessageSet)
        BY <3>3, CatEmpty
      <3>5. QED
        BY <3>2, <3>4
    <2>5. QED
      BY <2>3, <2>4
  <1> HIDE DEF G, n
  <1>3. \A k \in 0..i : k \in T
    <2>1. Cat(G[i].out, << >>) = G[i].out /\ << >> \in Seq(MessageSet)
      <3>1. G[i].out \in Seq(MessageSet)
        BY <1>0 DEF n
      <3>2. QED
        BY <3>1, CatEmpty
    <2>2. \A k \in 0..i : k \in Nat /\ (k \in i..n => k = i)
      BY <1>0
    <2>3. QED
      BY <2>1, <2>2
  <1>4. ASSUME NEW k \in Nat, k \in T PROVE k + 1 \in T
    <2>1. ASSUME k + 1 \in i..n, ~(k + 1 <= i)
          PROVE  \E r \in Seq(MessageSet) : G[k + 1].out = Cat(G[i].out, r)
      <3>1. k \in i..n /\ k + 1 \in 1..n /\ (k + 1) - 1 = k /\ k \in 0..n /\ i \in 0..n
        BY <1>0, <2>1
      <3>2. PICK r \in Seq(MessageSet) : G[k].out = Cat(G[i].out, r)
        BY <1>4, <3>1
      <3>3. PICK t \in Seq(MessageSet) : G[k + 1].out = Cat(G[k].out, t)
        BY <1>2, <3>1
      <3>4. G[i].out \in Seq(MessageSet)
        BY <1>0, <3>1
      <3>5. Cat(Cat(G[i].out, r), t) = Cat(G[i].out, Cat(r, t))
        BY <3>4, CatAssoc
      <3>6. Cat(r, t) \in Seq(MessageSet)
        BY CatIs
      <3>7. QED
        BY <3>2, <3>3, <3>5, <3>6
    <2>2. k + 1 <= i => k + 1 \in 0..i
      BY <1>0
    <2>3. QED
      BY <1>3, <2>1, <2>2
  <1>5. Nat \subseteq T
    <2>1. 0 \in T
      BY <1>0, <1>3
    <2> HIDE DEF T
    <2>2. QED
      BY <1>4, <2>1, Induction
  <1>6. n \in T /\ n \in i..n
    BY <1>0, <1>5 DEF n
  <1>7. QED
    BY <1>1, <1>6 DEF G

\* A frame on the wire, and all of them.
HeadOf(f) == << << "h", f.fin, f.op >>, << "n", Len(f.data) >>, << "m" >> >>
\* A frame: its head, and its data.
FrameOf(f) == Cat(HeadOf(f), f.data)
\* The frames of a conversation on the wire.
Sent(fs) == [i \in DOMAIN fs |-> FrameOf(fs[i])]

\* A frame on the wire: its first byte, its length, the mask and the data.
LEMMA FrameIs ==
  ASSUME NEW f \in FrameSet
  PROVE  /\ HeadOf(f) \in Seq(Tokens) /\ Len(HeadOf(f)) = 3
         /\ f.data \in Seq(Tokens) /\ Len(f.data) \in Nat
         /\ FrameOf(f) \in Seq(Tokens) /\ Len(FrameOf(f)) = 3 + Len(f.data)
         /\ FrameOf(f)[1] = << "h", f.fin, f.op >>
         /\ FrameOf(f)[2] = << "n", Len(f.data) >>
  <1>1. f.fin \in BOOLEAN /\ f.op \in Nat /\ f.data \in Seq(Data)
    BY DEF FrameSet
  <1>2. Len(f.data) \in Nat /\ f.data \in Seq(Tokens)
    <2>1. Data \subseteq Tokens
      BY DEF Data, Tokens
    <2>2. QED
      BY <1>1, <2>1
  <1> DEFINE a == << "h", f.fin, f.op >>
             b == << "n", Len(f.data) >>
             c == << "m" >>
             h == << a, b, c >>
             d == f.data
  <1>3. a \in Tokens /\ b \in Tokens /\ c \in Tokens
    BY <1>1, <1>2 DEF Tokens
  <1>4. HeadOf(f) = h /\ FrameOf(f) = Cat(h, d)
    BY DEF HeadOf, FrameOf
  <1> HIDE DEF a, b, c, d
  <1>5. h \in Seq(Tokens) /\ Len(h) = 3 /\ h[1] = a /\ h[2] = b
    BY <1>3
  <1> HIDE DEF h
  <1>6. d \in Seq(Tokens)
    BY <1>2 DEF d
  <1>7. Cat(h, d) \in Seq(Tokens) /\ IsCat(Cat(h, d), h, d)
    BY <1>5, <1>6, CatIs
  <1>8. Len(Cat(h, d)) = 3 + Len(d) /\ Cat(h, d)[1] = a /\ Cat(h, d)[2] = b
    BY <1>5, <1>7 DEF IsCat
  <1>9. QED
    BY <1>2, <1>4, <1>5, <1>7, <1>8 DEF a, b, d

\* Frames, by the frames joined.
LEMMA SentIs ==
  ASSUME NEW fs \in Seq(FrameSet)
  PROVE  /\ Pieces(Tokens, Sent(fs), Len(fs)) /\ Len(fs) \in Nat
         /\ \A i \in 1..Len(fs) : Sent(fs)[i] = FrameOf(fs[i]) /\ fs[i] \in FrameSet
         /\ Frames(fs) = Joined(Sent(fs), Len(fs))
  <1>1. Len(fs) \in Nat /\ \A i \in 1..Len(fs) : fs[i] \in FrameSet
    OBVIOUS
  <1>2. DOMAIN fs = 1..Len(fs)
    OBVIOUS
  <1>3. \A i \in 1..Len(fs) : Sent(fs)[i] = FrameOf(fs[i])
    BY <1>2 DEF Sent
  <1>4. \A i \in 1..Len(fs) : Sent(fs)[i] \in Seq(Tokens)
    BY <1>1, <1>3, FrameIs
  <1>5. Frames(fs) = FlattenSeq(Sent(fs))
    BY Zenon DEF Frames, Sent, FrameOf, HeadOf, Cat
  <1>6. Sent(fs) = [k \in 1..Len(fs) |-> Sent(fs)[k]]
    BY <1>2, Zenon DEF Sent
  <1>7. QED
    BY <1>1, <1>3, <1>4, <1>5, <1>6, Zenon DEF Pieces, Joined

\* What the window begins with is the next frame.
LEMMA NextFrame ==
  ASSUME NEW fs \in Seq(FrameSet), NEW i \in 0..Len(fs),
         NEW win \in Seq(Tokens), NEW inp \in Seq(Tokens),
         Remains(Tokens, Sent(fs), Len(fs), i, Cat(win, inp))
  PROVE  /\ win # << >> => i < Len(fs) /\ win[1] = << "h", fs[i + 1].fin, fs[i + 1].op >>
         /\ Len(win) >= 2 => win[2] = << "n", Len(fs[i + 1].data) >>
         /\ i < Len(fs) /\ Len(win) >= 3 + Len(fs[i + 1].data) =>
              \E r \in Seq(Tokens) :
                 /\ win = Cat(FrameOf(fs[i + 1]), r)
                 /\ Remains(Tokens, Sent(fs), Len(fs), i + 1, Cat(r, inp))
         /\ i < Len(fs) /\ inp = << >> => Len(win) >= 3 + Len(fs[i + 1].data)
  <1> DEFINE n == Len(fs)
             p == Sent(fs)
             w == Cat(win, inp)
             f == fs[i + 1]
             z == FrameOf(f)
  <1>1. /\ Pieces(Tokens, p, n) /\ n \in Nat
        /\ \A k \in 1..n : p[k] = FrameOf(fs[k]) /\ fs[k] \in FrameSet
    BY SentIs
  <1>2. w \in Seq(Tokens) /\ Len(w) = Len(win) + Len(inp) /\ Len(win) \in Nat
        /\ Len(inp) \in Nat
    BY CatIs DEF IsCat
  <1>2a. /\ (Len(win) = 0 <=> win = << >>) /\ (Len(inp) = 0 <=> inp = << >>)
         /\ (Len(w) = 0 <=> w = << >>)
    <2> HIDE DEF w
    <2>1. QED
      BY <1>2, CatEmpty
  <1>2b. Remains(Tokens, p, n, i, w)
    OBVIOUS
  <1> HIDE DEF n, p, w
  <1>3. i \in 0..n /\ i \in Nat
    BY DEF n
  <1>4. win # << >> => i < n
    <2>1. SUFFICES ASSUME i = n, win # << >> PROVE FALSE
      BY <1>1, <1>3
    <2>2. w = << >>
      BY <1>1, <1>2b, <2>1, RemainsLast
    <2>3. QED
      BY <1>2, <1>2a, <2>1, <2>2
  <1>5. ASSUME i < n
        PROVE  /\ Len(f.data) \in Nat
               /\ Len(win) >= 1 => win[1] = << "h", f.fin, f.op >>
               /\ Len(win) >= 2 => win[2] = << "n", Len(f.data) >>
               /\ Len(win) >= 3 + Len(f.data) =>
                    \E r \in Seq(Tokens) :
                      win = Cat(z, r) /\ Remains(Tokens, p, n, i + 1, Cat(r, inp))
               /\ inp = << >> => Len(win) >= 3 + Len(f.data)
    <2>1. i + 1 \in 1..n
      BY <1>1, <1>3, <1>5
    <2>2. p[i + 1] = z /\ f \in FrameSet
      BY <1>1, <2>1
    <2>3. PICK t : Remains(Tokens, p, n, i + 1, t) /\ w = Cat(p[i + 1], t)
      BY <1>1, <1>2b, <1>3, <1>5, RemainsNext
    <2>4. t \in Seq(Tokens)
      BY <2>3 DEF Remains
    <2> HIDE DEF f
    <2>5. /\ z \in Seq(Tokens) /\ Len(z) = 3 + Len(f.data) /\ Len(f.data) \in Nat
          /\ z[1] = << "h", f.fin, f.op >> /\ z[2] = << "n", Len(f.data) >>
      BY <2>2, FrameIs
    <2> HIDE DEF z
    <2>6. Cat(win, inp) = Cat(z, t)
      BY <2>2, <2>3 DEF w
    <2>7. /\ \A j \in 1..Len(win) : j <= Len(z) => win[j] = z[j]
          /\ Len(z) <= Len(win) => \E r \in Seq(Tokens) : win = Cat(z, r) /\ t = Cat(r, inp)
      BY <2>4, <2>5, <2>6, CatSplit
    <2>8. Len(win) >= 3 + Len(f.data) =>
                    \E r \in Seq(Tokens) :
                      win = Cat(z, r) /\ Remains(Tokens, p, n, i + 1, Cat(r, inp))
      <3>1. SUFFICES ASSUME Len(win) >= 3 + Len(f.data)
            PROVE  \E r \in Seq(Tokens) :
                     win = Cat(z, r) /\ Remains(Tokens, p, n, i + 1, Cat(r, inp))
        OBVIOUS
      <3>2. PICK r \in Seq(Tokens) : win = Cat(z, r) /\ t = Cat(r, inp)
        BY <1>2, <2>5, <2>7, <3>1
      <3>3. Remains(Tokens, p, n, i + 1, Cat(r, inp))
        BY <2>3, <3>2
      <3>4. QED
        BY <3>2, <3>3
    <2>9. inp = << >> => Len(win) >= 3 + Len(f.data)
      <3>1. Len(w) = Len(z) + Len(t) /\ Len(t) \in Nat
        <4>1. w = Cat(z, t)
          BY <2>6 DEF w
        <4>2. IsCat(w, z, t)
          BY <2>4, <2>5, <4>1, CatIs
        <4>3. QED
          BY <4>2 DEF IsCat
      <3>2. QED
        BY <1>2, <1>2a, <2>5, <3>1
    <2>10. Len(win) >= 1 => win[1] = << "h", f.fin, f.op >>
      <3>1. ASSUME Len(win) >= 1 PROVE win[1] = z[1]
        <4>1. 1 \in 1..Len(win) /\ 1 <= Len(z)
          BY <1>2, <2>5, <3>1
        <4>2. QED
          BY <2>7, <4>1
      <3>2. QED
        BY <2>5, <3>1
    <2>11. Len(win) >= 2 => win[2] = << "n", Len(f.data) >>
      <3>1. ASSUME Len(win) >= 2 PROVE win[2] = z[2]
        <4>1. 2 \in 1..Len(win) /\ 2 <= Len(z)
          BY <1>2, <2>5, <3>1
        <4>2. QED
          BY <2>7, <4>1
      <3>2. QED
        BY <2>5, <3>1
    <2>12. QED
      BY <2>5, <2>8, <2>9, <2>10, <2>11
  <1>6. Len(win) >= 2 => win # << >>
    BY <1>2a
  <1>7. win # << >> => Len(win) >= 1
    BY <1>2, <1>2a
  <1> HIDE DEF z, f
  <1>8. QED
    BY <1>4, <1>5, <1>6, <1>7 DEF n, p, z, f

\* What the buffer keeps of a message whose last fragment is not there yet.
Open(fs, i) == Gathered(fs)[i].open
\* The head of the fragments put together at the start of the buffer.
KeptHead(fs, i) == << << "h", FALSE, WEBSOCKET_OP_CONTINUE >>, << "n", Len(Open(fs, i)) >> >>
\* What of the buffer is not yet behind the message delivered last.
Kept(fs, i) == IF Pending(fs, i) THEN Cat(KeptHead(fs, i), Open(fs, i)) ELSE << >>

\* A connection whose buffer realloc never moves.
WsConnection ==
  [buf : Seq(Tokens), closing : BOOLEAN, events : Seq(MessageSet),
   moves : {{}}, stray : {FALSE}]
USE DEF WsConnection

\* The frames before the i-th are delivered; win is in the buffer behind them.
WsAt(c, fs, i, win, inp) ==
  /\ i \in 0..Len(fs) /\ win \in Seq(Tokens) /\ inp \in Seq(Tokens)
  /\ Remains(Tokens, Sent(fs), Len(fs), i, Cat(win, inp))
  /\ c \in WsConnection
  /\ c.buf = Cat(Kept(fs, i), win)
  /\ c.events = Gathered(fs)[i].out
  /\ i > 0 /\ i = Len(fs) /\ fs[i].op = WEBSOCKET_OP_CLOSE => c.closing

\* What is kept of the fragments in the buffer, as Deliver writes it.
LEMMA KeptIs ==
  ASSUME NEW fs \in Seq(FrameSet), NEW i \in 0..Len(fs)
  PROVE  /\ Open(fs, i) \in Seq(Tokens) /\ Open(fs, i) \in Seq(Data) /\ Len(Open(fs, i)) \in Nat
         /\ KeptHead(fs, i) \in Seq(Tokens) /\ Len(KeptHead(fs, i)) = 2
         /\ Kept(fs, i) \in Seq(Tokens)
         /\ Pending(fs, i) => /\ Kept(fs, i) = Cat(KeptHead(fs, i), Open(fs, i))
                              /\ Len(Kept(fs, i)) = 2 + Len(Open(fs, i))
                              /\ Kept(fs, i)[1] = << "h", FALSE, WEBSOCKET_OP_CONTINUE >>
                              /\ Kept(fs, i)[2] = << "n", Len(Open(fs, i)) >>
         /\ ~Pending(fs, i) => Kept(fs, i) = << >> /\ Open(fs, i) = << >>
  <1> DEFINE o == Open(fs, i)
             a == << "h", FALSE, WEBSOCKET_OP_CONTINUE >>
             b == << "n", Len(o) >>
             h == << a, b >>
             e == << >>
  <1>1. o \in Seq(Data) /\ (~Pending(fs, i) => o = << >>)
    BY GatheredType DEF Open
  <1>2. Len(o) \in Nat /\ o \in Seq(Tokens)
    <2>1. Data \subseteq Tokens
      BY DEF Data, Tokens
    <2> HIDE DEF o
    <2>2. QED
      BY <1>1, <2>1
  <1>3. KeptHead(fs, i) = h
    BY DEF KeptHead
  <1> HIDE DEF o
  <1>4. a \in Tokens /\ b \in Tokens
    BY <1>2 DEF Tokens, WEBSOCKET_OP_CONTINUE
  <1> HIDE DEF a, b
  <1>5. h \in Seq(Tokens) /\ Len(h) = 2 /\ h[1] = a /\ h[2] = b /\ e \in Seq(Tokens)
    BY <1>4
  <1> HIDE DEF h
  <1>6. Cat(h, o) \in Seq(Tokens) /\ IsCat(Cat(h, o), h, o)
    BY <1>2, <1>5, CatIs
  <1>7. Len(Cat(h, o)) = 2 + Len(o) /\ Cat(h, o)[1] = a /\ Cat(h, o)[2] = b
    BY <1>5, <1>6 DEF IsCat
  <1>8. Kept(fs, i) = IF Pending(fs, i) THEN Cat(h, o) ELSE e
    BY <1>3 DEF Kept, o
  <1>9. QED
    BY <1>1, <1>2, <1>3, <1>5, <1>6, <1>7, <1>8 DEF o, a, b

\* The frame to deliver starts behind what is kept.
LEMMA FrameAtKept ==
  ASSUME NEW fs, Legal(fs), NEW i, NEW win, NEW inp, NEW c, WsAt(c, fs, i, win, inp)
  PROVE  /\ FrameAt(c.buf) = Len(Kept(fs, i))
         /\ Past(c.buf, FrameAt(c.buf)) = win
         /\ FrameAt(c.buf) \in Nat /\ Len(c.buf) = FrameAt(c.buf) + Len(win)
         /\ c.buf # << >> => IsFragment(c.buf[1]) <=> Pending(fs, i) \/ (i < Len(fs) /\ ~fs[i + 1].fin)
         /\ Pending(fs, i) => c.buf # << >> /\ c.buf[2][2] = Len(Open(fs, i))
                               /\ FrameAt(c.buf) = 2 + c.buf[2][2]
         /\ ~Pending(fs, i) => FrameAt(c.buf) = 0 /\ c.buf = win
  <1> DEFINE b == c.buf
             k == Kept(fs, i)
  <1>0. fs \in Seq(FrameSet) /\ i \in 0..Len(fs) /\ i \in Nat /\ Len(fs) \in Nat
    BY DEF Legal, WsAt
  <1>1. /\ b = Cat(k, win) /\ win \in Seq(Tokens) /\ inp \in Seq(Tokens)
        /\ Remains(Tokens, Sent(fs), Len(fs), i, Cat(win, inp))
    BY DEF WsAt
  <1>2. k \in Seq(Tokens) /\ Len(Open(fs, i)) \in Nat
    BY <1>0, KeptIs
  <1> HIDE DEF b, k
  <1>3. /\ b \in Seq(Tokens) /\ SubSeq(b, Len(k) + 1, Len(b)) = win
        /\ Len(b) = Len(k) + Len(win) /\ IsCat(b, k, win)
    <2>1. Cuts(b, k, win) /\ IsCat(b, k, win) /\ b \in Seq(Tokens)
      <3>1. Cuts(Cat(k, win), k, win) /\ IsCat(Cat(k, win), k, win)
            /\ Cat(k, win) \in Seq(Tokens)
        BY <1>1, <1>2, CatCuts, CatIs
      <3>2. QED
        BY <1>1, <3>1
    <2>2. QED
      BY <2>1 DEF Cuts
  <1>3a. /\ Len(win) \in Nat /\ Len(k) \in Nat /\ Len(b) \in Nat
         /\ (Len(b) = 0 <=> b = << >>) /\ (Len(win) = 0 <=> win = << >>)
    BY <1>1, <1>2, <1>3, CatEmpty DEF IsCat
  <1>4. CASE Pending(fs, i)
    <2>1. /\ Len(k) = 2 + Len(Open(fs, i)) /\ k[1] = << "h", FALSE, WEBSOCKET_OP_CONTINUE >>
          /\ k[2] = << "n", Len(Open(fs, i)) >>
      BY <1>0, <1>4, KeptIs DEF k
    <2>2. b[1] = k[1] /\ b[2] = k[2]
      <3>1. 1 \in 1..Len(k) /\ 2 \in 1..Len(k)
        BY <1>2, <1>3a, <2>1
      <3>2. \A j \in 1..Len(k) : b[j] = k[j]
        BY <1>3 DEF IsCat
      <3>3. QED
        BY <3>1, <3>2
    <2>3. IsFragment(b[1]) /\ ~IsFirstFragment(b[1]) /\ b[2][2] = Len(Open(fs, i))
      BY <2>1, <2>2 DEF IsFragment, IsFirstFragment, WEBSOCKET_OP_CONTINUE
    <2>4. b # << >> /\ Len(b) >= 2 /\ Len(b) >= 2 + b[2][2]
      BY <1>2, <1>3, <1>3a, <2>1, <2>3
    <2>5. FrameAt(b) = 2 + b[2][2]
      BY <2>3, <2>4 DEF FrameAt
    <2>6. QED
      BY <1>2, <1>3, <1>3a, <1>4, <2>1, <2>3, <2>4, <2>5 DEF Past, b, k
  <1>5. CASE ~Pending(fs, i)
    <2>1. k = << >>
      BY <1>0, <1>5, KeptIs DEF k
    <2>2. b = win /\ Len(k) = 0
      BY <1>1, <2>1, CatEmpty
    <2>3. ASSUME b # << >>
          PROVE  /\ IsFragment(b[1]) <=> ~fs[i + 1].fin
                 /\ i < Len(fs) /\ ~(IsFragment(b[1]) /\ ~IsFirstFragment(b[1]))
      <3>1. i < Len(fs) /\ b[1] = << "h", fs[i + 1].fin, fs[i + 1].op >>
        BY <1>0, <1>1, <2>2, <2>3, NextFrame
      <3>2. fs[i + 1].op # WEBSOCKET_OP_CONTINUE
        <4>1. i + 1 \in DOMAIN fs /\ (i + 1) - 1 = i
          BY <1>0, <3>1
        <4>2. QED
          BY <1>0, <1>5, <4>1 DEF Legal, Pending
      <3>3. fs[i + 1].fin \in BOOLEAN
        <4>1. i + 1 \in DOMAIN fs
          BY <1>0, <3>1
        <4>2. fs[i + 1] \in FrameSet
          BY <1>0, <4>1
        <4>3. QED
          BY <4>2 DEF FrameSet
      <3>4. QED
        BY <3>1, <3>2, <3>3 DEF IsFragment, IsFirstFragment
    <2>4. FrameAt(b) = 0
      BY <2>3 DEF FrameAt
    <2>5. QED
      BY <1>3, <1>3a, <1>5, <2>2, <2>3, <2>4 DEF Past, b, k
  <1>6. QED
    BY <1>4, <1>5

\* There is a frame to deliver when the window holds the whole next frame.
LEMMA FrameThereIs ==
  ASSUME NEW fs, Legal(fs), NEW i, NEW win, NEW inp, NEW c, WsAt(c, fs, i, win, inp)
  PROVE  /\ FrameThere(c.buf) =>
              /\ i < Len(fs) /\ win[1] = << "h", fs[i + 1].fin, fs[i + 1].op >>
              /\ win[2] = << "n", Len(fs[i + 1].data) >>
              /\ \E r \in Seq(Tokens) :
                    /\ win = Cat(FrameOf(fs[i + 1]), r)
                    /\ Remains(Tokens, Sent(fs), Len(fs), i + 1, Cat(r, inp))
         /\ FrameThere(c.buf) => Len(c.buf) > 0
         /\ inp = << >> /\ i < Len(fs) => FrameThere(c.buf)
  <1>0. /\ fs \in Seq(FrameSet) /\ i \in 0..Len(fs) /\ win \in Seq(Tokens)
        /\ inp \in Seq(Tokens)
        /\ Remains(Tokens, Sent(fs), Len(fs), i, Cat(win, inp))
    BY DEF Legal, WsAt
  <1>1. Past(c.buf, FrameAt(c.buf)) = win /\ FrameAt(c.buf) \in Nat
        /\ Len(c.buf) = FrameAt(c.buf) + Len(win)
    BY FrameAtKept
  <1>2. FrameThere(c.buf) <=> Len(win) >= 3 /\ Len(win) >= 3 + win[2][2]
    BY <1>1 DEF FrameThere
  <1>3. Len(win) \in Nat /\ (Len(win) > 0 => win # << >>)
    BY <1>0
  <1>4. ASSUME FrameThere(c.buf)
        PROVE  /\ i < Len(fs) /\ win[1] = << "h", fs[i + 1].fin, fs[i + 1].op >>
               /\ win[2] = << "n", Len(fs[i + 1].data) >>
               /\ \E r \in Seq(Tokens) :
                     /\ win = Cat(FrameOf(fs[i + 1]), r)
                     /\ Remains(Tokens, Sent(fs), Len(fs), i + 1, Cat(r, inp))
    <2>1. win # << >> /\ Len(win) >= 2
      BY <1>2, <1>3, <1>4
    <2>2. /\ i < Len(fs) /\ win[1] = << "h", fs[i + 1].fin, fs[i + 1].op >>
          /\ win[2] = << "n", Len(fs[i + 1].data) >>
      BY <1>0, <2>1, NextFrame
    <2>3. Len(win) >= 3 + Len(fs[i + 1].data)
      BY <1>2, <1>4, <2>2
    <2>4. QED
      BY <1>0, <2>2, <2>3, NextFrame
  <1>5. ASSUME inp = << >>, i < Len(fs) PROVE FrameThere(c.buf)
    <2>1. Len(win) >= 3 + Len(fs[i + 1].data)
      BY <1>0, <1>5, NextFrame
    <2>2. Len(fs[i + 1].data) \in Nat
      <3>1. i + 1 \in 1..Len(fs)
        BY <1>0, <1>5
      <3>2. fs[i + 1] \in FrameSet
        BY <1>0, <3>1
      <3>3. QED
        BY <3>2, FrameIs
    <2>3. Len(win) >= 3 /\ Len(win) >= 2
      BY <1>3, <2>1, <2>2
    <2>4. win[2] = << "n", Len(fs[i + 1].data) >>
      BY <1>0, <2>3, NextFrame
    <2>5. QED
      BY <1>2, <2>1, <2>3, <2>4
  <1>6. FrameThere(c.buf) => Len(c.buf) > 0
    BY <1>1, <1>2, <1>3
  <1>7. QED
    BY <1>4, <1>5, <1>6

\* What Deliver takes out of the buffer and puts into it.
LEMMA DeliverIs ==
  ASSUME NEW fs, Legal(fs), NEW i, NEW win, NEW inp, NEW c, WsAt(c, fs, i, win, inp),
         i < Len(fs), NEW r \in Seq(Tokens), win = Cat(FrameOf(fs[i + 1]), r)
  PROVE  /\ SubSeq(win, 4, 3 + Len(fs[i + 1].data)) = fs[i + 1].data
         /\ Past(win, 3 + Len(fs[i + 1].data)) = r
         /\ Len(win) = 3 + Len(fs[i + 1].data) + Len(r)
         /\ SubSeq(c.buf, 3, FrameAt(c.buf)) = Open(fs, i)
  <1> DEFINE f == fs[i + 1]
             h == HeadOf(f)
             d == f.data
             k == Len(d)
  <1>1. fs \in Seq(FrameSet) /\ i \in 0..Len(fs) /\ f \in FrameSet
    <2>1. fs \in Seq(FrameSet) /\ i \in 0..Len(fs)
      BY DEF Legal, WsAt
    <2>2. i + 1 \in 1..Len(fs)
      BY <2>1
    <2>3. QED
      BY <2>1, <2>2
  <1>2. h \in Seq(Tokens) /\ Len(h) = 3 /\ d \in Seq(Tokens) /\ k \in Nat
    BY <1>1, FrameIs
  <1>3. win = Cat(Cat(h, d), r)
    BY DEF FrameOf
  <1>4. /\ SubSeq(win, 4, 3 + k) = d /\ Past(win, 3 + k) = r
        /\ Len(win) = 3 + k + Len(r)
    <2> DEFINE hd == Cat(h, d)
    <2>1. hd \in Seq(Tokens) /\ IsCat(hd, h, d)
      <3> HIDE DEF h, d
      <3>1. QED
        BY <1>2, CatIs
    <2>2. Len(hd) = 3 + k
      BY <1>2, <2>1 DEF IsCat
    <2> HIDE DEF h, d, f
    <2>3. Cuts(win, hd, r)
      <3> HIDE DEF hd
      <3>1. win = Cat(hd, r)
        BY <1>3 DEF hd
      <3>2. Cuts(Cat(hd, r), hd, r)
        BY <2>1, CatCuts
      <3>3. QED
        BY <3>1, <3>2
    <2> DEFINE m == 3
               n == 3 + k
    <2>4. m = Len(h) /\ n = Len(h) + Len(d)
      BY <1>2
    <2> HIDE DEF m, n
    <2>5. Middle(win, m, n, d, r)
      BY <1>2, <1>3, <2>4, CutMiddle
    <2> HIDE DEF hd, k
    <2>6. QED
      BY <1>2, <2>2, <2>3, <2>5 DEF Cuts, Middle, Past, m, n
  <1>5. SubSeq(c.buf, 3, FrameAt(c.buf)) = Open(fs, i)
    <2>1. CASE Pending(fs, i)
      <3> DEFINE fr == KeptHead(fs, i)
                 o == Open(fs, i)
                 b == c.buf
                 m == 2
                 n == 2 + Len(Open(fs, i))
      <3>1. /\ fr \in Seq(Tokens) /\ o \in Seq(Tokens) /\ m = Len(fr)
            /\ n = Len(fr) + Len(o)
            /\ Kept(fs, i) = Cat(fr, o) /\ win \in Seq(Tokens) /\ Len(Kept(fs, i)) = n
        BY <1>1, <2>1, KeptIs DEF WsAt
      <3>2. b = Cat(Kept(fs, i), win)
        BY DEF WsAt
      <3>3. b = Cat(Cat(fr, o), win)
        BY <3>1, <3>2
      <3>4. FrameAt(b) = n
        BY <3>1, FrameAtKept
      <3>5. m + 1 = 3
        OBVIOUS
      <3> HIDE DEF fr, o, b, m, n
      <3>6. Middle(b, m, n, o, win)
        BY <3>1, <3>3, CutMiddle
      <3>7. QED
        BY <3>4, <3>5, <3>6 DEF Middle, b, o
    <2>2. CASE ~Pending(fs, i)
      <3>1. FrameAt(c.buf) = 0 /\ Open(fs, i) = << >>
        <4>1. FrameAt(c.buf) = 0
          BY <2>2, FrameAtKept
        <4>2. Open(fs, i) = << >>
          BY <1>1, <2>2, KeptIs
        <4>3. QED
          BY <4>1, <4>2
      <3>2. c.buf \in Seq(Tokens)
        BY DEF WsAt
      <3>3. SubSeq(c.buf, 3, 0) = << >>
        BY <3>2
      <3>4. QED
        BY <3>1, <3>3
    <2>3. QED
      BY <2>1, <2>2
  <1>6. QED
    BY <1>4, <1>5

\* A frame delivered: the next one is to come, and the buffer is shorter.
LEMMA DeliverKeeps ==
  ASSUME NEW fs, Legal(fs), NEW i, NEW win, NEW inp, NEW c, WsAt(c, fs, i, win, inp),
         FrameThere(c.buf)
  PROVE  /\ \E r : WsAt(Deliver(c), fs, i + 1, r, inp)
         /\ Len(Deliver(c).buf) < Len(c.buf)
  <1> DEFINE j == i + 1
             f == fs[j]
             d == f.data
             n == Len(fs)
             o == Open(fs, i)
             at == FrameAt(c.buf)
             k == Len(d)
  <1>0. fs \in Seq(FrameSet) /\ i \in 0..n /\ i \in Nat /\ n \in Nat /\ i < n
    <2>1. fs \in Seq(FrameSet) /\ i \in 0..n
      BY DEF Legal, WsAt
    <2>2. i < n
      BY FrameThereIs
    <2>3. QED
      BY <2>1, <2>2
  <1>1. /\ win[1] = << "h", f.fin, f.op >> /\ win[2] = << "n", k >>
        /\ \E r \in Seq(Tokens) :
              /\ win = Cat(FrameOf(f), r)
              /\ Remains(Tokens, Sent(fs), n, j, Cat(r, inp))
    BY FrameThereIs
  <1>2. PICK r \in Seq(Tokens) : win = Cat(FrameOf(f), r)
        /\ Remains(Tokens, Sent(fs), n, j, Cat(r, inp))
    BY <1>1
  <1>3. f \in FrameSet /\ f.fin \in BOOLEAN /\ f.op \in Nat /\ d \in Seq(Data)
        /\ d \in Seq(Tokens) /\ k \in Nat
    <2>1. j \in 1..n
      BY <1>0
    <2>2. f \in FrameSet
      BY <1>0, <2>1
    <2>3. QED
      BY <2>2, FrameIs DEF FrameSet
  <1>4. /\ c \in WsConnection
        /\ win \in Seq(Tokens) /\ inp \in Seq(Tokens) /\ c.events = Gathered(fs)[i].out
    BY DEF WsAt
  <1>5. /\ SubSeq(win, 4, 3 + k) = d /\ Past(win, 3 + k) = r
        /\ Len(win) = 3 + k + Len(r) /\ SubSeq(c.buf, 3, at) = o
    <2>1. win = Cat(FrameOf(fs[i + 1]), r) /\ i < Len(fs)
      BY <1>0, <1>2
    <2>2. QED
      BY <2>1, DeliverIs
  <1>6. Past(c.buf, at) = win /\ at \in Nat /\ Len(c.buf) = at + Len(win)
    BY FrameAtKept
  <1>7. c.buf # << >> => (IsFragment(c.buf[1]) <=> Pending(fs, i) \/ ~f.fin)
    BY <1>0, FrameAtKept
  <1>8. /\ Pending(fs, i) => at = 2 + c.buf[2][2] /\ c.buf[2][2] = Len(o)
        /\ ~Pending(fs, i) => at = 0
    BY FrameAtKept
  <1>9. o \in Seq(Data) /\ o \in Seq(Tokens) /\ Len(o) \in Nat /\ (~Pending(fs, i) => o = << >>)
    BY <1>0, KeptIs
  <1> DEFINE whole == o \o d
             reass == IsFragment(c.buf[1])
             size == IF at = 0 THEN k ELSE Grow(c.buf[2][2], k)
             kept == << << "h", FALSE, WEBSOCKET_OP_CONTINUE >>, << "n", size >> >>
             done == ~reass \/ win[1][2]
             look == IF ~reass THEN (r \o << win[1] >>)[1]
                     ELSE IF done /\ Len(r) > at THEN r[at + 1] ELSE d[1]
             e == Deliver(c)
  <1>10. e = DeliverInPlace(c)
    <2>1. c.moves = {}
      BY <1>4
    <2>2. ~Moved(c)
      BY <2>1 DEF Moved
    <2>3. QED
      BY <2>2 DEF Deliver
  <1>10a. e = [c EXCEPT
         !.buf = IF done THEN r ELSE kept \o whole \o r,
         !.events = IF ~done THEN @
                    ELSE Append(@, [control |-> win[1][3] >= 8,
                                    data |-> IF reass THEN SubSeq(whole, 1, size) ELSE d]),
         !.closing = @ \/ LowerHalf(look) = WEBSOCKET_OP_CLOSE]
    <2>1. win[2][2] = k
      BY <1>1
    <2> HIDE DEF f, d, n, k, o, j, at
    <2>2. QED
      BY <1>5, <1>6, <1>10, <2>1, Zenon DEF DeliverInPlace, at
  <1>11. c.buf # << >> /\ win # << >> /\ Len(win) >= 3 /\ Len(r) \in Nat /\ Len(c.buf) >= 3
    <2>1. Len(win) >= 3 /\ Len(r) \in Nat
      BY <1>3, <1>5
    <2>2. QED
      BY <1>4, <1>6, <2>1
  <1>12. done <=> f.fin
    BY <1>1, <1>3, <1>7, <1>11
  <1>13. size = Len(o) + k /\ size = Len(whole) /\ whole \in Seq(Data)
         /\ whole \in Seq(Tokens)
         /\ whole = Cat(o, d)
    <2>1. whole = Cat(o, d)
      BY Zenon DEF Cat
    <2>2. Cat(o, d) \in Seq(Data) /\ Cat(o, d) \in Seq(Tokens) /\ IsCat(Cat(o, d), o, d)
      <3> HIDE DEF o, d
      <3>1. QED
        BY <1>3, <1>9, CatIs
    <2>3. Len(Cat(o, d)) = Len(o) + k
      BY <2>2 DEF IsCat
    <2>4. Pending(fs, i) => size = Len(o) + k
      <3>1. ASSUME Pending(fs, i) PROVE size = Len(o) + k
        <4>1. c.buf[2][2] = Len(o) /\ at = 2 + Len(o)
          BY <1>8, <3>1
        <4>2. at # 0
          <5> HIDE DEF at, o
          <5>1. QED
            BY <1>9, <4>1
        <4>3. size = c.buf[2][2] + k
          BY <4>2 DEF Grow
        <4>4. QED
          BY <4>1, <4>3
      <3>2. QED
        BY <3>1
    <2>5. ~Pending(fs, i) => size = Len(o) + k
      BY <1>3, <1>8, <1>9 DEF Grow
    <2> HIDE DEF size, whole
    <2>6. QED
      BY <2>1, <2>2, <2>3, <2>4, <2>5
  <1>14. reass => SubSeq(whole, 1, size) = whole
    <2> HIDE DEF whole, size
    <2>1. QED
      BY <1>13, SubSeqFull
  <1>15. ~reass => whole = d
    <2>1. ASSUME ~reass PROVE o = << >>
      BY <1>7, <1>9, <1>11, <2>1
    <2>2. ASSUME o = << >> PROVE whole = d
      <3>1. whole = Cat(<< >>, d)
        BY <2>2, Zenon DEF Cat
      <3> HIDE DEF whole, d
      <3>2. QED
        BY <1>3, <3>1, CatEmpty
    <2>3. QED
      BY <2>1, <2>2
  <1>16. (IF reass THEN SubSeq(whole, 1, size) ELSE d) = whole
    BY <1>14, <1>15
  <1> DEFINE m == [control |-> f.op >= 8, data |-> whole]
             g == Gathered(fs)[i]
  <1>17. Gathered(fs)[j] = IF f.fin THEN [open |-> << >>, out |-> Append(g.out, m)]
                           ELSE [g EXCEPT !.open = whole]
    <2>1. j \in 1..n /\ j - 1 = i /\ Len(fs) \in Nat
      BY <1>0
    <2>2. Gathered(fs)[j] = Gather(fs, j, g)
      BY <2>1, GatheredIs
    <2> HIDE DEF j
    <2>3. QED
      BY <2>2 DEF Gather, Open
  <1>18. Pending(fs, j) <=> ~f.fin
    BY <1>0 DEF Pending
  <1>19. g \in [open : Seq(Data), out : Seq(MessageSet)]
    BY <1>0, GatheredType
  <1>20. win[1][2] = f.fin /\ win[1][3] = f.op
    BY <1>1
  <1>21. e.events = Gathered(fs)[j].out /\ e.events \in Seq(MessageSet)
    <2>1. m \in MessageSet
      BY <1>3, <1>13 DEF MessageSet
    <2>2. e.events = IF ~done THEN c.events
                     ELSE Append(c.events, [control |-> win[1][3] >= 8,
                                    data |-> IF reass THEN SubSeq(whole, 1, size) ELSE d])
      <3> HIDE DEF done, reass, whole, size, d, look, kept, e
      <3>1. QED
        BY <1>4, <1>10a
    <2>3. e.events = IF ~f.fin THEN g.out ELSE Append(g.out, m)
      <3> HIDE DEF done, reass, whole, size, d, look, kept, e, f
      <3>1. QED
        BY <1>4, <1>12, <1>16, <1>20, <2>2
    <2>4. Gathered(fs)[j].out = IF ~f.fin THEN g.out ELSE Append(g.out, m)
      <3> HIDE DEF m, whole, f, g
      <3>1. QED
        BY <1>17, <1>19
    <2>5. (IF ~f.fin THEN g.out ELSE Append(g.out, m)) \in Seq(MessageSet)
      <3> HIDE DEF m, f, g
      <3>1. QED
        BY <1>19, <2>1
    <2> HIDE DEF e, g, m, f, j
    <2>6. QED
      BY <2>3, <2>4, <2>5
  <1>22. e.buf = Cat(Kept(fs, j), r) /\ e.buf \in Seq(Tokens) /\ Len(e.buf) < Len(c.buf)
    <2>1. e.buf = IF f.fin THEN r ELSE kept \o whole \o r
      <3> HIDE DEF done, reass, whole, size, d, look, kept, e, f
      <3>1. QED
        BY <1>4, <1>10a, <1>12
    <2>2. CASE f.fin
      <3>1. Kept(fs, j) = << >>
        BY <1>18, <2>2 DEF Kept
      <3>2. e.buf = r
        BY <2>1, <2>2
      <3>3. Cat(<< >>, r) = r
        BY CatEmpty
      <3>4. Len(r) < Len(c.buf)
        BY <1>3, <1>5, <1>6, <1>11
      <3> HIDE DEF e, j
      <3>5. QED
        BY <3>1, <3>2, <3>3, <3>4
    <2>3. CASE ~f.fin
      <3>1. Open(fs, j) = whole
        <4> HIDE DEF whole, f, g, j, m
        <4>1. QED
          BY <1>17, <1>19, <2>3 DEF Open
      <3>2. Kept(fs, j) = Cat(KeptHead(fs, j), Open(fs, j))
        BY <1>18, <2>3 DEF Kept
      <3>3. KeptHead(fs, j) = kept
        <4>1. KeptHead(fs, j) = << << "h", FALSE, WEBSOCKET_OP_CONTINUE >>, << "n", Len(whole) >> >>
          <5> HIDE DEF whole, j
          <5>1. QED
            BY <3>1, Zenon DEF KeptHead
        <4> HIDE DEF whole, size, j
        <4>2. QED
          BY <1>13, <4>1
      <3>4. Kept(fs, j) = Cat(kept, whole)
        <4> HIDE DEF whole, kept, j
        <4>1. QED
          BY <3>1, <3>2, <3>3
      <3>5. e.buf = Cat(Kept(fs, j), r)
        <4>1. Kept(fs, j) = kept \o whole
          <5> HIDE DEF whole, kept, j
          <5>1. QED
            BY <3>4, Zenon DEF Cat
        <4>2. e.buf = kept \o whole \o r
          BY <2>1, <2>3
        <4> HIDE DEF e, kept, whole, j
        <4>3. QED
          BY <4>1, <4>2, Zenon DEF Cat
      <3>6. Kept(fs, j) \in Seq(Tokens) /\ Len(Kept(fs, j)) = 2 + Len(whole)
        <4>1. j \in 0..Len(fs) /\ Pending(fs, j)
          BY <1>0, <1>18, <2>3
        <4> HIDE DEF j, whole
        <4>2. QED
          BY <1>0, <3>1, <4>1, KeptIs
      <3>7. e.buf \in Seq(Tokens) /\ Len(e.buf) = 2 + Len(whole) + Len(r)
        <4> DEFINE q == Kept(fs, j)
        <4>1. q \in Seq(Tokens) /\ Len(q) = 2 + Len(whole)
          BY <3>6
        <4> HIDE DEF q, e, whole
        <4>2. Cat(q, r) \in Seq(Tokens) /\ IsCat(Cat(q, r), q, r)
          BY <4>1, CatIs
        <4>3. QED
          BY <3>5, <4>1, <4>2 DEF IsCat, q
      <3>8. Len(e.buf) < Len(c.buf)
        <4>1. Len(e.buf) = 2 + (Len(o) + k) + Len(r)
          <5> HIDE DEF e, whole, o, k, size
          <5>1. QED
            BY <1>13, <3>7
        <4>2. Len(c.buf) = at + (3 + k + Len(r))
          BY <1>5, <1>6
        <4>3. Pending(fs, i) => at = 2 + Len(o)
          BY <1>8
        <4>4. ~Pending(fs, i) => at = 0 /\ Len(o) = 0
          BY <1>8, <1>9
        <4> DEFINE lo == Len(o)
                   lr == Len(r)
                   le == Len(e.buf)
                   lc == Len(c.buf)
        <4>5. lo \in Nat /\ k \in Nat /\ lr \in Nat
          BY <1>3, <1>9, <1>11
        <4> HIDE DEF lo, lr, le, lc, k, at
        <4>6. le = 2 + (lo + k) + lr /\ lc = at + (3 + k + lr)
          BY <4>1, <4>2 DEF lo, lr, le, lc
        <4>7. at = 2 + lo \/ (at = 0 /\ lo = 0)
          BY <4>3, <4>4 DEF lo
        <4>8. le < lc
          BY <4>5, <4>6, <4>7
        <4>9. QED
          BY <4>8 DEF le, lc
      <3>9. QED
        BY <3>5, <3>7, <3>8
    <2>4. QED
      BY <2>2, <2>3, <1>3
  <1>23. e.closing = (c.closing \/ LowerHalf(look) = WEBSOCKET_OP_CLOSE) /\ e.closing \in BOOLEAN
    <2> HIDE DEF done, reass, whole, size, d, look, kept, e
    <2>1. e.closing = (c.closing \/ LowerHalf(look) = WEBSOCKET_OP_CLOSE)
      BY <1>4, <1>10a
    <2>2. QED
      BY <2>1
  <1>24. j = n /\ f.op = WEBSOCKET_OP_CLOSE => e.closing
    <2>1. SUFFICES ASSUME j = n, f.op = WEBSOCKET_OP_CLOSE PROVE LowerHalf(look) = WEBSOCKET_OP_CLOSE
      BY <1>23
    <2>2. f.fin /\ ~Pending(fs, i)
      <3>1. j \in DOMAIN fs
        BY <1>0
      <3>2. f.fin
        BY <2>1, <3>1 DEF Legal
      <3>3. f.op # WEBSOCKET_OP_CONTINUE
        BY <2>1 DEF WEBSOCKET_OP_CLOSE, WEBSOCKET_OP_CONTINUE
      <3>4. j > 1 <=> i > 0
        BY <1>0
      <3>5. j - 1 = i
        BY <1>0
      <3>6. ~Pending(fs, i)
        BY <3>1, <3>3, <3>4, <3>5 DEF Legal, Pending
      <3>7. QED
        BY <3>2, <3>6
    <2>3. ~reass
      BY <1>7, <1>11, <2>2
    <2>4. r = << >>
      <3>1. Pieces(Tokens, Sent(fs), n)
        BY <1>0, SentIs
      <3>2. Cat(r, inp) = << >>
        BY <1>2, <2>1, <3>1, RemainsLast
      <3>3. IsCat(Cat(r, inp), r, inp)
        BY <1>4, CatIs
      <3>4. Len(Cat(r, inp)) = Len(r) + Len(inp) /\ Len(r) \in Nat /\ Len(inp) \in Nat
        BY <3>3 DEF IsCat
      <3>5. Len(r) = 0
        BY <3>2, <3>4
      <3>6. QED
        BY <3>5, CatEmpty
    <2>5. look = win[1]
      BY <2>3, <2>4
    <2>6. look = << "h", f.fin, f.op >>
      BY <1>1, <2>5
    <2> HIDE DEF look
    <2>7. QED
      BY <2>1, <2>6 DEF LowerHalf
  <1>25. e \in WsConnection
    <2> HIDE DEF done, reass, whole, size, d, look, kept, e
    <2>1. DOMAIN e = DOMAIN c
      BY <1>10a
    <2>2. QED
      BY <1>4, <1>10a, <1>21, <1>22, <1>23
  <1>26. j \in 0..n
    BY <1>0
  <1>27. WsAt(e, fs, j, r, inp)
    <2> HIDE DEF e, f
    <2>1. j > 0 /\ j = n /\ fs[j].op = WEBSOCKET_OP_CLOSE => e.closing
      BY <1>24 DEF f
    <2> HIDE DEF j
    <2>2. QED
      BY <1>2, <1>4, <1>21, <1>22, <1>25, <1>26, <2>1 DEF WsAt
  <1>28. QED
    BY <1>22, <1>27

\* f[i] is c after i turns of the loop of mg_ws_handler.
WsTurn(d) == IF ~d.stray /\ FrameThere(d.buf) THEN Deliver(d) ELSE d
\* f[i] is c after i turns of the loop of mg_ws_handler.
WsTurns(f, c, n) == f = [i \in 0..n |-> IF i = 0 THEN c ELSE WsTurn(f[i - 1])]
\* The function WebsocketRecv defines by recursion.
WsLoop(c) == CHOOSE f : WsTurns(f, c, Len(c.buf))

\* The recursive function of WebsocketRecv exists, for every number of turns.
LEMMA WsTurnsExist ==
  ASSUME NEW c
  PROVE  \A n \in Nat : \E f : WsTurns(f, c, n)
  <1> DEFINE T == { n \in Nat : \E f : WsTurns(f, c, n) }
  <1>1. 0 \in T
    <2>1. WsTurns([i \in 0..0 |-> c], c, 0)
      <3>1. \A i \in 0..0 : i = 0
        OBVIOUS
      <3>2. QED
        BY <3>1, Zenon DEF WsTurns
    <2>2. QED
      BY <2>1
  <1>2. ASSUME NEW n \in Nat, n \in T PROVE n + 1 \in T
    <2>1. PICK g : WsTurns(g, c, n)
      BY <1>2
    <2> DEFINE e(f, i) == IF i = 0 THEN c ELSE WsTurn(f[i - 1])
               h == [i \in 0..(n + 1) |-> IF i = n + 1 THEN e(g, i) ELSE g[i]]
    <2>2. \A i \in 0..(n + 1) : i # 0 => h[i - 1] = g[i - 1]
      <3>1. \A i \in 0..(n + 1) : i # 0 => i - 1 \in 0..(n + 1) /\ i - 1 # n + 1
        OBVIOUS
      <3>2. QED
        BY <3>1, Zenon
    <2>3. \A i \in 0..n : g[i] = e(g, i)
      BY <2>1, Zenon DEF WsTurns
    <2>4. \A i \in 0..(n + 1) : i = n + 1 \/ i \in 0..n
      OBVIOUS
    <2>5. \A i \in 0..(n + 1) : h[i] = e(g, i)
      BY <2>3, <2>4, Zenon
    <2>6. \A i \in 0..(n + 1) : h[i] = e(h, i)
      BY <2>2, <2>5, Zenon
    <2>7. h = [i \in 0..(n + 1) |-> e(h, i)]
      <3>1. h = [i \in 0..(n + 1) |-> h[i]]
        BY Zenon
      <3> HIDE DEF h
      <3>2. QED
        BY <2>6, <3>1, Zenon
    <2>8. WsTurns(h, c, n + 1)
      BY <2>7, Zenon DEF WsTurns
    <2>9. QED
      BY <2>8
  <1>3. Nat \subseteq T
    <2> HIDE DEF T
    <2>1. QED
      BY <1>1, <1>2, Induction
  <1>4. QED
    BY <1>3

\* WebsocketRecv, by the turns of its loop.
LEMMA WsLoopIs ==
  ASSUME NEW c, Len(c.buf) \in Nat
  PROVE  /\ WsLoop(c)[0] = c
         /\ \A i \in 1..Len(c.buf) : WsLoop(c)[i] = WsTurn(WsLoop(c)[i - 1])
         /\ WebsocketRecv(c) = WsLoop(c)[Len(c.buf)]
  <1>1. WsTurns(WsLoop(c), c, Len(c.buf))
    BY WsTurnsExist, Zenon DEF WsLoop
  <1>2. 0 \in 0..Len(c.buf) /\ \A i \in 1..Len(c.buf) : i \in 0..Len(c.buf) /\ i # 0
    OBVIOUS
  <1>3. WebsocketRecv(c) = WsLoop(c)[Len(c.buf)]
    BY Zenon DEF WebsocketRecv, WsLoop, WsTurns, WsTurn
  <1>4. QED
    BY <1>1, <1>2, <1>3, Zenon DEF WsTurns

\* mg_ws_handler delivers every frame that is there.
LEMMA WebsocketRecvKeeps ==
  ASSUME NEW fs, Legal(fs), NEW i, NEW win, NEW inp, NEW c, WsAt(c, fs, i, win, inp)
  PROVE  \E j, r : /\ WsAt(WebsocketRecv(c), fs, j, r, inp)
                   /\ ~FrameThere(WebsocketRecv(c).buf)
  <1> DEFINE n == Len(c.buf)
             f == WsLoop(c)
             Good(k) == /\ \E j, r : WsAt(f[k], fs, j, r, inp)
                        /\ FrameThere(f[k].buf) => Len(f[k].buf) <= n - k
             T == { k \in Nat : k \in 0..n => Good(k) }
  <1>1. n \in Nat
    <2>1. c.buf \in Seq(Tokens)
      BY DEF WsAt
    <2>2. QED
      BY <2>1
  <1>2. /\ f[0] = c /\ \A k \in 1..n : f[k] = WsTurn(f[k - 1])
        /\ WebsocketRecv(c) = f[n]
    BY <1>1, WsLoopIs
  <1>3. ASSUME NEW k \in Nat, NEW j, NEW r, WsAt(f[k], fs, j, r, inp)
        PROVE  Len(f[k].buf) \in Nat /\ (FrameThere(f[k].buf) => Len(f[k].buf) > 0)
    <2>1. f[k].buf \in Seq(Tokens)
      BY <1>3 DEF WsAt
    <2> HIDE DEF f
    <2>2. FrameThere(f[k].buf) => Len(f[k].buf) > 0
      BY <1>3, FrameThereIs
    <2>3. QED
      BY <2>1, <2>2
  <1> HIDE DEF f
  <1>4. 0 \in T
    <2>1. WsAt(f[0], fs, i, win, inp)
      BY <1>2
    <2>2. Len(f[0].buf) <= n - 0
      BY <1>1, <1>2
    <2>3. QED
      BY <2>1, <2>2
  <1>5. ASSUME NEW k \in Nat, k \in T PROVE k + 1 \in T
    <2>1. ASSUME k + 1 \in 0..n PROVE Good(k + 1)
      <3>1. k \in 0..n /\ k + 1 \in 1..n /\ (k + 1) - 1 = k
        BY <1>1, <2>1
      <3>2. Good(k)
        BY <1>5, <3>1
      <3>3. f[k + 1] = WsTurn(f[k])
        BY <1>2, <3>1
      <3>4. PICK j, r : WsAt(f[k], fs, j, r, inp)
        BY <3>2
      <3>5. CASE FrameThere(f[k].buf)
        <4>1. f[k + 1] = Deliver(f[k])
          <5>1. ~f[k].stray
            BY <3>4 DEF WsAt
          <5>2. QED
            BY <3>3, <3>5, <5>1 DEF WsTurn
        <4>2. /\ \E q : WsAt(Deliver(f[k]), fs, j + 1, q, inp)
              /\ Len(Deliver(f[k]).buf) < Len(f[k].buf)
          BY <3>4, <3>5, DeliverKeeps
        <4>3. PICK q : WsAt(f[k + 1], fs, j + 1, q, inp)
          BY <4>1, <4>2
        <4>4. Len(f[k].buf) <= n - k
          BY <3>2, <3>5
        <4>5. Len(f[k + 1].buf) \in Nat /\ Len(f[k].buf) \in Nat
          BY <1>3, <3>4, <4>3
        <4>6. Len(f[k + 1].buf) <= n - (k + 1)
          BY <1>1, <4>1, <4>2, <4>4, <4>5
        <4>7. QED
          BY <4>3, <4>6
      <3>6. CASE ~FrameThere(f[k].buf)
        <4>1. f[k + 1] = f[k]
          BY <3>3, <3>6 DEF WsTurn
        <4>2. QED
          BY <3>4, <3>6, <4>1
      <3>7. QED
        BY <3>5, <3>6
    <2> HIDE DEF Good
    <2>2. QED
      BY <2>1
  <1>6. Nat \subseteq T
    <2> HIDE DEF T
    <2>1. QED
      BY <1>4, <1>5, Induction
  <1>7. Good(n)
    <2>1. n \in T /\ n \in 0..n
      BY <1>1, <1>6
    <2> HIDE DEF Good
    <2>2. QED
      BY <2>1
  <1>8. PICK j, r : WsAt(f[n], fs, j, r, inp)
    BY <1>7
  <1>9. Len(f[n].buf) \in Nat /\ (FrameThere(f[n].buf) => Len(f[n].buf) > 0)
    BY <1>1, <1>3, <1>8
  <1>10. ~FrameThere(f[n].buf)
    BY <1>1, <1>7, <1>9
  <1>11. QED
    BY <1>2, <1>8, <1>10

\* What the invariants of a connection say, and what a receive event does.
WsInv(c, fs, inp) == \E i, win : WsAt(c, fs, i, win, inp) /\ ~FrameThere(c.buf)

\* What a receive event does to a conversation.
LEMMA WsArrives ==
  ASSUME NEW fs, Legal(fs), NEW inp, NEW c, WsInv(c, fs, inp),
         NEW k \in 1..Len(inp)
  PROVE  WsInv(WebsocketRecv([c EXCEPT !.buf = @ \o SubSeq(inp, 1, k)]), fs,
               SubSeq(inp, k + 1, Len(inp)))
  <1> DEFINE a == SubSeq(inp, 1, k)
             b == SubSeq(inp, k + 1, Len(inp))
             d == [c EXCEPT !.buf = @ \o a]
  <1>1. PICK i, win : WsAt(c, fs, i, win, inp)
    BY DEF WsInv
  <1>2. /\ i \in 0..Len(fs) /\ win \in Seq(Tokens) /\ inp \in Seq(Tokens)
        /\ Remains(Tokens, Sent(fs), Len(fs), i, Cat(win, inp))
        /\ c \in WsConnection
        /\ c.buf = Cat(Kept(fs, i), win)
    BY <1>1 DEF WsAt
  <1>3. fs \in Seq(FrameSet)
    BY DEF Legal
  <1>4. a \in Seq(Tokens) /\ b \in Seq(Tokens) /\ inp = Cat(a, b)
    BY <1>2, SplitAt, Zenon
  <1> HIDE DEF a, b
  <1>5. d.buf = Cat(c.buf, a)
    <2>1. d.buf = c.buf \o a
      BY <1>2
    <2> HIDE DEF d
    <2>2. QED
      BY <2>1, Zenon DEF Cat
  <1>6. Kept(fs, i) \in Seq(Tokens)
    BY <1>2, <1>3, KeptIs
  <1>7. d.buf = Cat(Kept(fs, i), Cat(win, a)) /\ Cat(win, a) \in Seq(Tokens)
    <2> HIDE DEF d
    <2>1. Cat(Cat(Kept(fs, i), win), a) = Cat(Kept(fs, i), Cat(win, a))
      BY <1>2, <1>4, <1>6, CatAssoc
    <2>2. Cat(win, a) \in Seq(Tokens)
      BY <1>2, <1>4, CatIs
    <2>3. QED
      BY <1>2, <1>5, <2>1, <2>2
  <1>8. Cat(Cat(win, a), b) = Cat(win, inp)
    <2>1. Cat(Cat(win, a), b) = Cat(win, Cat(a, b))
      BY <1>2, <1>4, CatAssoc
    <2>2. QED
      BY <1>4, <2>1
  <1>9. d.buf \in Seq(Tokens)
    <2>1. Cat(Kept(fs, i), Cat(win, a)) \in Seq(Tokens)
      BY <1>6, <1>7, CatIs
    <2> HIDE DEF d
    <2>2. QED
      BY <1>7, <2>1
  <1>10. WsAt(d, fs, i, Cat(win, a), b)
    <2>1. d.events = c.events /\ d.closing = c.closing
      BY <1>2
    <2>2. d \in WsConnection
      <3>1. c.buf \o a \in Seq(Tokens)
        BY <1>2, <1>4
      <3> HIDE DEF a
      <3>2. QED
        BY <1>2, <3>1
    <2>3. Remains(Tokens, Sent(fs), Len(fs), i, Cat(Cat(win, a), b))
      BY <1>2, <1>8
    <2>4. /\ c.events = Gathered(fs)[i].out
          /\ i > 0 /\ i = Len(fs) /\ fs[i].op = WEBSOCKET_OP_CLOSE => c.closing
      BY <1>1 DEF WsAt
    <2> HIDE DEF d
    <2>5. QED
      BY <1>2, <1>4, <1>7, <2>1, <2>2, <2>3, <2>4, Zenon DEF WsAt
  <1>11. PICK j, r : WsAt(WebsocketRecv(d), fs, j, r, b)
         /\ ~FrameThere(WebsocketRecv(d).buf)
    <2> HIDE DEF d
    <2>1. QED
      BY <1>10, WebsocketRecvKeeps
  <1>12. WsInv(WebsocketRecv(d), fs, b)
    BY <1>11, Zenon DEF WsInv
  <1>13. QED
    BY <1>12, Zenon DEF a, b, d

\* Before anything has arrived.
LEMMA WsStarts ==
  ASSUME NEW fs, Legal(fs)
  PROVE  WsInv([Websocket0 EXCEPT !.moves = {}], fs, Frames(fs))
  <1> DEFINE p == Sent(fs)
             n == Len(fs)
             e == << >>
             F == Frames(fs)
             c == [Websocket0 EXCEPT !.moves = {}]
  <1>1. fs \in Seq(FrameSet)
    BY DEF Legal
  <1>2. Pieces(Tokens, p, n) /\ n \in Nat /\ F = Joined(p, n)
    BY <1>1, SentIs
  <1>3. F \in Seq(Tokens)
    <2>1. n \in 0..n
      BY <1>2
    <2> HIDE DEF p, n, F
    <2>2. QED
      BY <1>2, <2>1, JoinedSeq
  <1>4. Remains(Tokens, p, n, 0, F)
    <2> HIDE DEF p, n, F
    <2>1. QED
      BY <1>2, RemainsLast
  <1>5. e \in Seq(Tokens) /\ Cat(e, F) = F /\ Cat(e, e) = e /\ e \in Seq(MessageSet)
    <2>1. e \in Seq(Tokens) /\ e \in Seq(MessageSet)
      OBVIOUS
    <2> HIDE DEF F
    <2>2. Cat(<< >>, F) = F
      BY <1>3, CatEmpty
    <2>3. Cat(<< >>, << >>) = << >>
      BY <2>1, CatEmpty
    <2>4. QED
      BY <2>1, <2>2, <2>3
  <1>6. Kept(fs, 0) = e
    BY DEF Kept, Pending
  <1>7. Gathered(fs)[0].out = e
    <2>1. Len(fs) \in Nat
      BY <1>2
    <2>2. Gathered(fs)[0] = [open |-> << >>, out |-> << >>]
      BY <2>1, GatheredIs
    <2>3. QED
      BY <2>2
  <1>8. /\ c.buf = e /\ c.events = e
        /\ c \in WsConnection
    BY <1>5 DEF Websocket0
  <1>9. 0 \in 0..Len(fs) /\ ~(0 > 0)
    BY <1>2
  <1>10. ~FrameThere(c.buf)
    <2>1. FrameAt(<< >>) = 0
      BY DEF FrameAt
    <2>2. Past(<< >>, 0) = << >>
      BY DEF Past
    <2>3. ~FrameThere(<< >>)
      BY <2>1, <2>2 DEF FrameThere
    <2>4. QED
      BY <1>8, <2>3
  <1>11. WsAt(c, fs, 0, e, F)
    <2> HIDE DEF c, e, F, p
    <2>1. QED
      BY <1>3, <1>4, <1>5, <1>6, <1>7, <1>8, <1>9, Zenon DEF WsAt, p
  <1>12. QED
    BY <1>10, <1>11, Zenon DEF WsInv

\* What the handler has got begins all the messages.
LEMMA WsTold ==
  ASSUME NEW fs, Legal(fs), NEW inp, NEW c, WsInv(c, fs, inp)
  PROVE  /\ Len(c.events) <= Len(Messages(fs))
         /\ c.events = SubSeq(Messages(fs), 1, Len(c.events))
         /\ inp = << >> =>
              /\ c.events = Messages(fs)
              /\ (\E i \in DOMAIN fs : fs[i].op = WEBSOCKET_OP_CLOSE) => c.closing
  <1>1. PICK i, win : WsAt(c, fs, i, win, inp) /\ ~FrameThere(c.buf)
    BY DEF WsInv
  <1>2. i \in 0..Len(fs) /\ fs \in Seq(FrameSet) /\ c.events \in Seq(MessageSet)
        /\ c.events = Gathered(fs)[i].out
    BY <1>1 DEF WsAt, Legal
  <1>3. PICK r \in Seq(MessageSet) : Messages(fs) = Cat(c.events, r)
    BY <1>2, GatheredFirst
  <1>4. Cuts(Messages(fs), c.events, r)
    BY <1>2, <1>3, CatCuts
  <1>5. Len(c.events) <= Len(Messages(fs))
        /\ c.events = SubSeq(Messages(fs), 1, Len(c.events))
    BY <1>4 DEF Cuts
  <1>6. ASSUME inp = << >>
        PROVE  /\ c.events = Messages(fs)
               /\ (\E k \in DOMAIN fs : fs[k].op = WEBSOCKET_OP_CLOSE) => c.closing
    <2>1. i = Len(fs)
      <3>1. ~(i < Len(fs))
        BY <1>1, <1>6, FrameThereIs
      <3>2. QED
        BY <1>2, <3>1
    <2>2. c.events = Messages(fs)
      BY <1>2, <2>1, MessagesAre
    <2>3. ASSUME NEW k \in DOMAIN fs, fs[k].op = WEBSOCKET_OP_CLOSE PROVE c.closing
      <3>1. k = Len(fs) /\ k > 0
        BY <1>2, <2>3 DEF Legal
      <3>2. QED
        BY <1>1, <2>1, <2>3, <3>1 DEF WsAt
    <2>4. QED
      BY <2>2, <2>3
  <1>7. QED
    BY <1>5, <1>6

-----------------------------------------------------------------------------
(* Chunked bodies *)

\* The chunks on the wire: those of ds, and the empty one.
Chunks(ds) == [i \in 1..Len(ds) + 1 |-> IF i <= Len(ds) THEN Chunk(ds[i]) ELSE Chunk(<< >>)]

\* A chunk on the wire: its size, the end of the line, the data, the end of the line.
LEMMA ChunkIs ==
  ASSUME NEW d \in Seq(Data)
  PROVE  /\ Len(d) \in Nat /\ d \in Seq(Tokens)
         /\ << << "size", Len(d) >>, << "nl" >> >> \in Seq(Tokens)
         /\ Len(<< << "size", Len(d) >>, << "nl" >> >>) = 2
         /\ << << "nl" >> >> \in Seq(Tokens) /\ Len(<< << "nl" >> >>) = 1
         /\ Chunk(d) = Cat(Cat(<< << "size", Len(d) >>, << "nl" >> >>, d), << << "nl" >> >>)
         /\ Chunk(d) \in Seq(Tokens) /\ Len(Chunk(d)) = Len(d) + 3
         /\ Chunk(d)[1] = << "size", Len(d) >>
  <1> DEFINE a == << "size", Len(d) >>
             b == << "nl" >>
             h == << a, b >>
             t == << b >>
             x == Cat(h, d)
             y == Cat(x, t)
  <1>1. Len(d) \in Nat /\ d \in Seq(Tokens)
    <2>1. Data \subseteq Tokens
      BY DEF Data, Tokens
    <2>2. QED
      BY <2>1
  <1>2. a \in Tokens /\ b \in Tokens
    BY <1>1 DEF Tokens
  <1>3. Chunk(d) = y
    BY Zenon DEF Chunk, Cat
  <1> HIDE DEF a, b
  <1>4. h \in Seq(Tokens) /\ Len(h) = 2 /\ h[1] = a /\ t \in Seq(Tokens) /\ Len(t) = 1
    BY <1>2
  <1> HIDE DEF h, t
  <1>5. x \in Seq(Tokens) /\ IsCat(x, h, d)
    BY <1>1, <1>4, CatIs
  <1>6. Len(x) = 2 + Len(d) /\ x[1] = a
    BY <1>4, <1>5 DEF IsCat
  <1> HIDE DEF x
  <1>7. y \in Seq(Tokens) /\ IsCat(y, x, t)
    BY <1>4, <1>5, CatIs
  <1>8. Len(y) = Len(d) + 3 /\ y[1] = a
    <2>1. 1 \in 1..Len(x)
      BY <1>1, <1>6
    <2> HIDE DEF y
    <2>2. QED
      BY <1>1, <1>4, <1>6, <1>7, <2>1 DEF IsCat
  <1>9. QED
    BY <1>1, <1>3, <1>4, <1>7, <1>8 DEF a, b, h, t, x

\* A chunked body, by its head and its chunks joined.
LEMMA ChunksAre ==
  ASSUME NEW ds, Filled(ds)
  PROVE  /\ Len(ds) \in Nat /\ Pieces(Tokens, Chunks(ds), Len(ds) + 1)
         /\ Pieces(Tokens, ds, Len(ds))
         /\ \A i \in 1..Len(ds) : ds[i] \in Seq(Data) /\ Chunks(ds)[i] = Chunk(ds[i])
                                  /\ ds[i] \in Seq(Tokens) /\ Len(ds[i]) \in Nat \ {0}
         /\ Chunks(ds)[Len(ds) + 1] = Chunk(<< >>)
         /\ Joined(ds, Len(ds)) = FlattenSeq(ds)
         /\ Chunked(ds) = Cat(<< << "head" >> >>, Joined(Chunks(ds), Len(ds) + 1))
         /\ << << "head" >> >> \in Seq(Tokens) /\ Len(<< << "head" >> >>) = 1
         /\ Joined(Chunks(ds), Len(ds) + 1) \in Seq(Tokens)
  <1> DEFINE n == Len(ds)
             P == Chunks(ds)
             e == << >>
             h == << << "head" >> >>
  <1>1. n \in Nat /\ \A i \in 1..n : ds[i] \in Seq(Data) /\ ds[i] # << >>
    BY DEF Filled
  <1>2. \A i \in 1..n : Len(ds[i]) \in Nat \ {0} /\ ds[i] \in Seq(Tokens)
    <2>1. ASSUME NEW d \in Seq(Data), d # << >> PROVE Len(d) \in Nat \ {0} /\ d \in Seq(Tokens)
      <3>1. d \in Seq(Tokens) /\ Len(d) \in Nat
        BY ChunkIs
      <3>2. Len(d) # 0
        BY <2>1
      <3>3. QED
        BY <3>1, <3>2
    <2>2. QED
      BY <1>1, <2>1
  <1>3. \A i \in 1..n : P[i] = Chunk(ds[i])
    BY <1>1 DEF Chunks
  <1>4. P[n + 1] = Chunk(e)
    BY <1>1 DEF Chunks
  <1>5. e \in Seq(Data)
    OBVIOUS
  <1>6. \A i \in 1..n + 1 : P[i] \in Seq(Tokens)
    <2>1. \A i \in 1..n + 1 : i \in 1..n \/ i = n + 1
      BY <1>1
    <2> HIDE DEF e, P, n
    <2>2. QED
      BY <1>1, <1>3, <1>4, <1>5, <2>1, ChunkIs
  <1>7. Joined(ds, n) = FlattenSeq(ds)
    BY JoinedAll DEF Filled
  <1>8. Joined(P, n) = FlattenSeq([i \in DOMAIN ds |-> Chunk(ds[i])])
    <2>1. DOMAIN ds = 1..n
      BY DEF Filled
    <2>2. [k \in 1..n |-> P[k]] = [i \in 1..n |-> Chunk(ds[i])]
      BY <1>3
    <2>3. QED
      BY <2>1, <2>2, Zenon DEF Joined
  <1>9. Joined(P, n + 1) = Cat(Joined(P, n), Chunk(e))
    <2>1. P[n + 1] \in Seq(Tokens)
      BY <1>1, <1>6
    <2> HIDE DEF P, e, n
    <2>2. QED
      BY <1>1, <1>4, <2>1, JoinedNext
  <1>10. Pieces(Tokens, P, n + 1) /\ Pieces(Tokens, ds, n)
    BY <1>1, <1>2, <1>6 DEF Pieces
  <1>11. h \in Seq(Tokens) /\ Len(h) = 1
    <2>1. << "head" >> \in Tokens
      BY DEF Tokens
    <2>2. QED
      BY <2>1
  <1>12. Joined(P, n) \in Seq(Tokens) /\ Joined(P, n + 1) \in Seq(Tokens)
         /\ Chunk(e) \in Seq(Tokens)
    <2>1. n \in 0..n + 1 /\ n + 1 \in 0..n + 1
      BY <1>1
    <2> HIDE DEF P, n, e
    <2>2. QED
      BY <1>5, <1>10, <2>1, JoinedSeq, ChunkIs
  <1>13. Chunked(ds) = Cat(Cat(h, Joined(P, n)), Chunk(e))
    BY <1>8, Zenon DEF Chunked, Cat
  <1>14. Cat(Cat(h, Joined(P, n)), Chunk(e)) = Cat(h, Cat(Joined(P, n), Chunk(e)))
    <2> HIDE DEF P, n, e, h
    <2>1. QED
      BY <1>11, <1>12, CatAssoc
  <1>15. QED
    BY <1>1, <1>2, <1>3, <1>4, <1>7, <1>9, <1>10, <1>11, <1>12, <1>13, <1>14

\* The window begins with d as a chunk: all of it once it is long enough.
ChunkNext(ds, i, win, inp, d) ==
  /\ mg_http_parse_chunk(win) # 0 =>
       /\ mg_http_parse_chunk(win) = Len(d) + 3
       /\ \E r \in Seq(Tokens) :
            /\ win = Cat(Chunk(d), r)
            /\ Remains(Tokens, Chunks(ds), Len(ds) + 1, i + 1, Cat(r, inp))
  /\ inp = << >> => mg_http_parse_chunk(win) # 0

\* What the window begins with is the next chunk.
LEMMA NextChunk ==
  ASSUME NEW ds, Filled(ds), NEW i \in 0..Len(ds),
         NEW win \in Seq(Tokens), NEW inp \in Seq(Tokens),
         Remains(Tokens, Chunks(ds), Len(ds) + 1, i, Cat(win, inp)),
         NEW d \in Seq(Data), Chunks(ds)[i + 1] = Chunk(d)
  PROVE  ChunkNext(ds, i, win, inp, d)
  <1> DEFINE n == Len(ds) + 1
             p == Chunks(ds)
             w == Cat(win, inp)
             z == Chunk(d)
  <1>1. Pieces(Tokens, p, n) /\ n \in Nat /\ i \in Nat /\ i < n
    BY ChunksAre
  <1>2. w \in Seq(Tokens) /\ Len(w) = Len(win) + Len(inp) /\ Len(win) \in Nat
        /\ Len(inp) \in Nat
    BY CatIs DEF IsCat
  <1>3. Remains(Tokens, p, n, i, w)
    OBVIOUS
  <1> HIDE DEF n, p, w
  <1>4. PICK t : Remains(Tokens, p, n, i + 1, t) /\ w = Cat(p[i + 1], t)
    BY <1>1, <1>3, RemainsNext
  <1>5. t \in Seq(Tokens)
    BY <1>4 DEF Remains
  <1>6. /\ z \in Seq(Tokens) /\ Len(z) = Len(d) + 3 /\ Len(d) \in Nat
        /\ z[1] = << "size", Len(d) >> /\ p[i + 1] = z
    BY ChunkIs DEF p
  <1> HIDE DEF z
  <1>7. Cat(win, inp) = Cat(z, t)
    BY <1>4, <1>6 DEF w
  <1>8. /\ \A j \in 1..Len(win) : j <= Len(z) => win[j] = z[j]
        /\ Len(z) <= Len(win) => \E r \in Seq(Tokens) : win = Cat(z, r) /\ t = Cat(r, inp)
    <2>1. Splits(Tokens, win, inp, z, t)
      BY <1>5, <1>6, <1>7, CatSplits
    <2>2. QED
      BY <2>1 DEF Splits
  <1>9. Len(win) >= 2 => win[1] = << "size", Len(d) >>
    <2>1. Len(win) >= 2 => 1 \in 1..Len(win) /\ 1 <= Len(z)
      BY <1>2, <1>6
    <2>2. QED
      BY <1>6, <1>8, <2>1
  <1>10. mg_http_parse_chunk(win) = IF Len(win) >= Len(d) + 3 THEN Len(d) + 3 ELSE 0
    <2>1. CASE Len(win) >= 2
      BY <1>9, <2>1 DEF mg_http_parse_chunk
    <2>2. CASE ~(Len(win) >= 2)
      BY <1>2, <1>6, <2>2 DEF mg_http_parse_chunk
    <2>3. QED
      BY <2>1, <2>2
  <1>11. ASSUME mg_http_parse_chunk(win) # 0
         PROVE  /\ mg_http_parse_chunk(win) = Len(d) + 3
                /\ \E r \in Seq(Tokens) :
                      win = Cat(z, r) /\ Remains(Tokens, p, n, i + 1, Cat(r, inp))
    <2>1. mg_http_parse_chunk(win) = Len(d) + 3 /\ Len(z) <= Len(win)
      BY <1>2, <1>6, <1>10, <1>11
    <2>2. PICK r \in Seq(Tokens) : win = Cat(z, r) /\ t = Cat(r, inp)
      BY <1>8, <2>1
    <2>3. Remains(Tokens, p, n, i + 1, Cat(r, inp))
      BY <1>4, <2>2
    <2>4. QED
      BY <2>1, <2>2, <2>3
  <1>12. ASSUME inp = << >> PROVE mg_http_parse_chunk(win) # 0
    <2>1. Len(w) = Len(z) + Len(t) /\ Len(t) \in Nat
      <3>1. w = Cat(z, t)
        BY <1>7 DEF w
      <3>2. IsCat(w, z, t)
        BY <1>5, <1>6, <3>1, CatIs
      <3>3. QED
        BY <3>2 DEF IsCat
    <2>2. Len(inp) = 0
      BY <1>12
    <2>3. Len(win) >= Len(d) + 3
      BY <1>2, <1>6, <2>1, <2>2
    <2>4. QED
      BY <1>6, <1>10, <2>3
  <1>13. QED
    BY <1>11, <1>12 DEF n, p, z, ChunkNext

\* What the chunks of s from j on hold, by what they hold after the first.
Held(s, f, j) ==
  LET n == mg_http_parse_chunk(From(s, j)) IN
  IF n = 0 THEN [data |-> << >>, end |-> j, zero |-> FALSE]
  ELSE IF n = 3 THEN [data |-> << >>, end |-> j + 3, zero |-> TRUE]
  ELSE [f[j + n] EXCEPT !.data = SubSeq(s, j + 3, j + n - 1) \o @]

\* f[j] is what the chunks of s from j on hold.
Holds(f, s) == f = [j \in 0..Len(s) |-> Held(s, f, j)]
\* The function Collapse defines by recursion.
Holding(s) == CHOOSE f : Holds(f, s)

\* A chunk is as long as its size says, and is there.
LEMMA ParseIs ==
  ASSUME NEW s \in Seq(Tokens), NEW j \in 0..Len(s)
  PROVE  LET n == mg_http_parse_chunk(From(s, j))
         IN  n = 0 \/ (n \in Nat /\ n > 0 /\ j + n <= Len(s))
  <1> DEFINE t == From(s, j)
             n == mg_http_parse_chunk(t)
  <1>1. t \in Seq(Tokens) /\ Len(t) = Len(s) - j /\ Len(s) \in Nat /\ j \in Nat
    <2>1. \A i \in j + 1..Len(s) : s[i] \in Tokens
      OBVIOUS
    <2>2. j + 1 \in Int /\ Len(s) \in Int /\ j \in Nat /\ Len(s) \in Nat /\ j <= Len(s)
      OBVIOUS
    <2>3. /\ SubSeq(s, j + 1, Len(s)) \in Seq(Tokens)
          /\ Len(SubSeq(s, j + 1, Len(s))) = IF j + 1 <= Len(s) THEN Len(s) - (j + 1) + 1 ELSE 0
      BY <2>1, <2>2, SubSeqProperties
    <2> DEFINE l == Len(s)
    <2> HIDE DEF l
    <2>4. (IF j + 1 <= l THEN l - (j + 1) + 1 ELSE 0) = l - j
      BY <2>2 DEF l
    <2>5. QED
      BY <2>2, <2>3, <2>4 DEF From, l
  <1> HIDE DEF t
  <1>2. CASE Len(t) >= 2 /\ t[1][1] = "size" /\ Len(t) >= t[1][2] + 3
    <2>1. t[1] \in Tokens
      BY <1>1, <1>2
    <2>2. t[1][2] \in Nat
      BY <1>2, <2>1 DEF Tokens
    <2>3. n = t[1][2] + 3
      BY <1>2 DEF mg_http_parse_chunk
    <2>4. QED
      BY <1>1, <1>2, <2>2, <2>3 DEF t
  <1>3. CASE ~(Len(t) >= 2 /\ t[1][1] = "size" /\ Len(t) >= t[1][2] + 3)
    <2>1. n = 0
      BY <1>3 DEF mg_http_parse_chunk
    <2>2. QED
      BY <2>1 DEF t
  <1>4. QED
    BY <1>2, <1>3

\* The recursive function of Collapse exists, whatever is in the buffer.
LEMMA HoldsExist ==
  ASSUME NEW s \in Seq(Tokens)
  PROVE  \E f : Holds(f, s)
  <1> DEFINE l == Len(s)
             n(j) == mg_http_parse_chunk(From(s, j))
             T == { k \in Nat : k <= l =>
                      \E f : /\ f = [j \in 0..l |-> f[j]]
                             /\ \A j \in 0..l : j >= l - k => f[j] = Held(s, f, j) }
  <1>0. l \in Nat
    OBVIOUS
  <1>1. \A j \in 0..l : n(j) = 0 \/ (n(j) \in Nat /\ n(j) > 0 /\ j + n(j) <= l)
    BY ParseIs
  <1>2. ASSUME NEW f, NEW g, NEW j \in 0..l, \A i \in 0..l : i > j => f[i] = g[i]
        PROVE  Held(s, f, j) = Held(s, g, j)
    <2>1. n(j) # 0 => j + n(j) \in 0..l /\ j + n(j) > j
      BY <1>0, <1>1
    <2>2. n(j) # 0 => f[j + n(j)] = g[j + n(j)]
      BY <1>2, <2>1
    <2>3. CASE n(j) = 0
      BY <2>3, Zenon DEF Held
    <2>4. CASE n(j) # 0
      <3>1. f[j + n(j)] = g[j + n(j)]
        BY <2>2, <2>4
      <3>2. QED
        BY <3>1, Zenon DEF Held
    <2>5. QED
      BY <2>3, <2>4
  <1> HIDE DEF l, n
  <1>3. 0 \in T
    <2> DEFINE b == [j \in 0..l |-> << >>]
               f == [j \in 0..l |-> Held(s, b, j)]
    <2>1. \A j \in 0..l : f[j] = Held(s, b, j)
      BY Zenon
    <2>2. f = [j \in 0..l |-> f[j]]
      BY Zenon
    <2> HIDE DEF f, b
    <2>3. ASSUME NEW j \in 0..l, j >= l - 0 PROVE f[j] = Held(s, f, j)
      <3>1. \A i \in 0..l : i > j => f[i] = b[i]
        BY <1>0, <2>3
      <3>2. Held(s, f, j) = Held(s, b, j)
        BY <1>2, <3>1
      <3>3. QED
        BY <2>1, <3>2
    <2>4. QED
      BY <2>2, <2>3
  <1>4. ASSUME NEW k \in Nat, k \in T PROVE k + 1 \in T
    <2>1. ASSUME k + 1 <= l
          PROVE  \E f : /\ f = [j \in 0..l |-> f[j]]
                        /\ \A j \in 0..l : j >= l - (k + 1) => f[j] = Held(s, f, j)
      <3>1. PICK g : \A j \in 0..l : j >= l - k => g[j] = Held(s, g, j)
        BY <1>0, <1>4, <2>1
      <3> DEFINE m == l - (k + 1)
                 f == [j \in 0..l |-> IF j = m THEN Held(s, g, j) ELSE g[j]]
      <3>2. f = [j \in 0..l |-> f[j]]
        BY Zenon
      <3>3. m \in 0..l
        BY <1>0, <2>1
      <3>4. f[m] = Held(s, g, m) /\ \A j \in 0..l : j # m => f[j] = g[j]
        <4> HIDE DEF m
        <4>1. QED
          BY <3>3, Zenon
      <3> HIDE DEF f
      <3>5. ASSUME NEW j \in 0..l, j >= m PROVE f[j] = Held(s, f, j)
        <4>1. \A i \in 0..l : i > j => f[i] = g[i]
          BY <1>0, <3>4, <3>5
        <4>2. Held(s, f, j) = Held(s, g, j)
          BY <1>2, <4>1
        <4>3. CASE j = m
          BY <3>4, <4>2, <4>3
        <4>4. CASE j # m
          <5>1. j >= l - k
            BY <1>0, <3>5, <4>4
          <5>2. QED
            BY <3>1, <3>4, <4>2, <4>4, <5>1
        <4>5. QED
          BY <4>3, <4>4
      <3>6. QED
        BY <3>2, <3>5
    <2>2. QED
      BY <2>1
  <1>5. Nat \subseteq T
    <2> HIDE DEF T
    <2>1. QED
      BY <1>3, <1>4, Induction
  <1>6. PICK f : /\ f = [j \in 0..l |-> f[j]]
                 /\ \A j \in 0..l : j >= l - l => f[j] = Held(s, f, j)
    <2>1. l \in T
      <3> HIDE DEF T
      <3>1. QED
        BY <1>0, <1>5
    <2>2. l <= l
      BY <1>0
    <2>3. QED
      BY <2>1, <2>2
  <1>7. \A j \in 0..l : f[j] = Held(s, f, j)
    <2>1. \A j \in 0..l : j >= l - l
      BY <1>0
    <2>2. QED
      BY <1>6, <2>1
  <1>8. f = [j \in 0..l |-> Held(s, f, j)]
    BY <1>6, <1>7, Zenon
  <1>9. QED
    BY <1>8, Zenon DEF Holds, l

\* Collapse, by that function.
LEMMA CollapseIs ==
  ASSUME NEW s \in Seq(Tokens)
  PROVE  /\ \A j \in 0..Len(s) : Holding(s)[j] = Held(s, Holding(s), j)
         /\ \A j : Collapse(s, j) = Holding(s)[j]
  <1>1. Holds(Holding(s), s)
    BY HoldsExist, Zenon DEF Holding
  <1>2. \A j : Collapse(s, j) = Holding(s)[j]
    BY Zenon DEF Collapse, Holding, Holds, Held
  <1>3. \A j \in 0..Len(s) : Holding(s)[j] = Held(s, Holding(s), j)
    BY <1>1, Zenon DEF Holds
  <1>4. QED
    BY <1>2, <1>3

\* w is in the buffer where the i-th chunk has been taken, inp is to come.
ChunksLeft(ds, i, w, inp) ==
  /\ w \in Seq(Tokens) /\ inp \in Seq(Tokens)
  /\ Remains(Tokens, Chunks(ds), Len(ds) + 1, i, Cat(w, inp))

\* What is held of chunks: their data, where they end, and if the last is there.
HeldSet == [data : Seq(Tokens), end : Nat, zero : BOOLEAN]

\* g is what is held of s, in which the chunks from the i-th on follow.
BodyHeld(ds, i, inp, s, g) ==
  /\ g \in HeldSet
  /\ g.zero => inp = << >> /\ Joined(ds, Len(ds)) = Cat(Joined(ds, i), g.data)
  /\ ~g.zero => \E k \in i..Len(ds) : \E v :
                  /\ ChunksLeft(ds, k, v, inp) /\ From(s, g.end) = v
                  /\ Joined(ds, k) = Cat(Joined(ds, i), g.data)
                  /\ mg_http_parse_chunk(v) = 0

\* Collapse takes the data of the chunks from the i-th on, as far as they are whole.
LEMMA CollapseBody ==
  ASSUME NEW ds, Filled(ds), NEW inp, NEW s \in Seq(Tokens)
  PROVE  \A i \in 0..Len(ds) : \A a, w :
           a \in Seq(Tokens) /\ s = Cat(a, w) /\ ChunksLeft(ds, i, w, inp)
             => BodyHeld(ds, i, inp, s, Collapse(s, Len(a)))
  <1> DEFINE m == Len(ds)
             P == Chunks(ds)
             H(j) == Holding(s)[j]
             Claim(i) == \A a, w :
               a \in Seq(Tokens) /\ s = Cat(a, w) /\ ChunksLeft(ds, i, w, inp)
                 => BodyHeld(ds, i, inp, s, H(Len(a)))
             T == { k \in Nat : k <= m => Claim(m - k) }
  <1>1. /\ m \in Nat /\ Pieces(Tokens, P, m + 1) /\ Pieces(Tokens, ds, m)
        /\ \A i \in 1..m : ds[i] \in Seq(Data) /\ P[i] = Chunk(ds[i])
                           /\ ds[i] \in Seq(Tokens) /\ Len(ds[i]) \in Nat \ {0}
        /\ P[m + 1] = Chunk(<< >>)
    BY ChunksAre
  <1>2. \A i \in 0..m : Joined(ds, i) \in Seq(Tokens)
    <2> HIDE DEF m
    <2>1. QED
      BY <1>1, JoinedSeq
  <1>3. ASSUME NEW a \in Seq(Tokens), NEW w \in Seq(Tokens), s = Cat(a, w)
        PROVE  /\ Len(a) \in 0..Len(s) /\ From(s, Len(a)) = w /\ Len(s) = Len(a) + Len(w)
               /\ Len(a) \in Nat
               /\ H(Len(a)) = Held(s, Holding(s), Len(a))
    <2>1. Cuts(s, a, w)
      <3>1. Cuts(Cat(a, w), a, w)
        BY CatCuts
      <3>2. QED
        BY <1>3, <3>1
    <2>2. Len(a) \in 0..Len(s) /\ From(s, Len(a)) = w /\ Len(s) = Len(a) + Len(w)
          /\ Len(a) \in Nat
      BY <2>1 DEF Cuts, From
    <2>3. QED
      BY <2>2, CollapseIs
  <1>4. ASSUME NEW i \in 0..m, NEW a \in Seq(Tokens), NEW w \in Seq(Tokens), s = Cat(a, w),
               ChunksLeft(ds, i, w, inp), mg_http_parse_chunk(w) = 0
        PROVE  BodyHeld(ds, i, inp, s, H(Len(a)))
    <2> DEFINE g == H(Len(a))
               e == << >>
    <2>1. g = [data |-> e, end |-> Len(a), zero |-> FALSE]
      BY <1>3, <1>4 DEF Held
    <2>2. e \in Seq(Tokens) /\ Len(a) \in Nat
      OBVIOUS
    <2>3. Joined(ds, i) = Cat(Joined(ds, i), e)
      BY <1>2, CatEmpty
    <2>4. From(s, Len(a)) = w
      BY <1>3, <1>4
    <2> HIDE DEF g, e
    <2>5. g \in HeldSet /\ ~g.zero /\ g.end = Len(a) /\ g.data = e
      BY <2>1, <2>2 DEF HeldSet
    <2>6. i \in i..Len(ds)
      BY <1>1
    <2>7. /\ ChunksLeft(ds, i, w, inp) /\ From(s, g.end) = w
          /\ Joined(ds, i) = Cat(Joined(ds, i), g.data)
          /\ mg_http_parse_chunk(w) = 0
      BY <1>4, <2>3, <2>4, <2>5
    <2>8. \E k \in i..Len(ds) : \E v :
                  /\ ChunksLeft(ds, k, v, inp) /\ From(s, g.end) = v
                  /\ Joined(ds, k) = Cat(Joined(ds, i), g.data)
                  /\ mg_http_parse_chunk(v) = 0
      BY <2>6, <2>7, Zenon
    <2>9. BodyHeld(ds, i, inp, s, g)
      BY <2>5, <2>8, Zenon DEF BodyHeld
    <2>10. QED
      BY <2>9 DEF g
  <1>5. ASSUME NEW i \in 0..m, NEW a \in Seq(Tokens), NEW w \in Seq(Tokens), s = Cat(a, w),
               ChunksLeft(ds, i, w, inp), mg_http_parse_chunk(w) # 0,
               NEW d \in Seq(Data), P[i + 1] = Chunk(d)
        PROVE  /\ mg_http_parse_chunk(From(s, Len(a))) = Len(d) + 3
               /\ \E r : /\ r \in Seq(Tokens) /\ w = Cat(Chunk(d), r)
                         /\ ChunksLeft(ds, i + 1, r, inp)
    <2>1. /\ mg_http_parse_chunk(w) = Len(d) + 3
          /\ \E r \in Seq(Tokens) :
                   /\ w = Cat(Chunk(d), r)
                   /\ Remains(Tokens, Chunks(ds), Len(ds) + 1, i + 1, Cat(r, inp))
      <3>1. ChunkNext(ds, i, w, inp, d)
        BY <1>5, NextChunk DEF ChunksLeft
      <3>2. QED
        BY <1>5, <3>1 DEF ChunkNext
    <2>2. From(s, Len(a)) = w
      BY <1>3, <1>5
    <2>3. inp \in Seq(Tokens)
      BY <1>5 DEF ChunksLeft
    <2>4. QED
      BY <2>1, <2>2, <2>3 DEF ChunksLeft
  <1>6. Claim(m)
    <2>1. ASSUME NEW a, NEW w, a \in Seq(Tokens), s = Cat(a, w), ChunksLeft(ds, m, w, inp)
          PROVE  BodyHeld(ds, m, inp, s, H(Len(a)))
      <3>1. CASE mg_http_parse_chunk(w) = 0
        <4>1. w \in Seq(Tokens) /\ m \in 0..m
          BY <1>1, <2>1 DEF ChunksLeft
        <4> HIDE DEF H, m
        <4>2. QED
          BY <1>4, <2>1, <3>1, <4>1
      <3>2. CASE mg_http_parse_chunk(w) # 0
        <4> DEFINE d == << >>
                   g == H(Len(a))
        <4>1. w \in Seq(Tokens) /\ inp \in Seq(Tokens) /\ m \in 0..m /\ d \in Seq(Data)
          BY <1>1, <2>1 DEF ChunksLeft
        <4>1a. Len(d) = 0
          OBVIOUS
        <4>2. /\ mg_http_parse_chunk(From(s, Len(a))) = Len(d) + 3
              /\ \E r : /\ r \in Seq(Tokens) /\ w = Cat(Chunk(d), r)
                        /\ ChunksLeft(ds, m + 1, r, inp)
          <5> HIDE DEF m, P
          <5>1. P[m + 1] = Chunk(d)
            BY <1>1
          <5> HIDE DEF d
          <5>2. QED
            BY <1>5, <2>1, <3>2, <4>1, <5>1
        <4>3. PICK r : r \in Seq(Tokens) /\ ChunksLeft(ds, m + 1, r, inp)
          BY <4>2
        <4>4. inp = << >>
          <5>1. Cat(r, inp) = << >>
            <6>1. Remains(Tokens, P, m + 1, m + 1, Cat(r, inp))
              BY <4>3 DEF ChunksLeft
            <6> HIDE DEF P, m
            <6>2. QED
              BY <1>1, <6>1, RemainsLast
          <5>2. IsCat(Cat(r, inp), r, inp)
            BY <4>1, <4>3, CatIs
          <5>3. Len(Cat(r, inp)) = Len(r) + Len(inp) /\ Len(r) \in Nat /\ Len(inp) \in Nat
            BY <5>2 DEF IsCat
          <5>4. Len(inp) = 0
            BY <5>1, <5>3
          <5>5. QED
            BY <4>1, <5>4, CatEmpty
        <4>5. g = [data |-> d, end |-> Len(a) + 3, zero |-> TRUE]
          <5>1. mg_http_parse_chunk(From(s, Len(a))) = 3
            BY <4>1a, <4>2
          <5>2. g = Held(s, Holding(s), Len(a))
            BY <1>3, <2>1, <4>1
          <5> HIDE DEF g
          <5>3. QED
            BY <5>1, <5>2 DEF Held
        <4>6. d \in Seq(Tokens) /\ Len(a) + 3 \in Nat
          BY <2>1
        <4>7. Joined(ds, m) = Cat(Joined(ds, m), d)
          BY <1>2, <4>1, CatEmpty
        <4> HIDE DEF g, d
        <4>8. g \in HeldSet /\ g.zero /\ g.data = d
          BY <4>5, <4>6 DEF HeldSet
        <4>9. BodyHeld(ds, m, inp, s, g)
          BY <4>4, <4>7, <4>8, Zenon DEF BodyHeld
        <4>10. QED
          BY <4>9 DEF g
      <3>3. QED
        BY <3>1, <3>2
    <2> HIDE DEF H, m
    <2>2. QED
      BY <2>1, Zenon
  <1>7. ASSUME NEW i \in 0..m - 1, Claim(i + 1) PROVE Claim(i)
    <2>1. ASSUME NEW a, NEW w, a \in Seq(Tokens), s = Cat(a, w), ChunksLeft(ds, i, w, inp)
          PROVE  BodyHeld(ds, i, inp, s, H(Len(a)))
      <3>0. w \in Seq(Tokens) /\ inp \in Seq(Tokens) /\ i \in 0..m /\ i + 1 \in 1..m
            /\ i + 1 \in 0..m
        BY <1>1, <2>1 DEF ChunksLeft
      <3>1. CASE mg_http_parse_chunk(w) = 0
        <4> HIDE DEF H, m
        <4>1. QED
          BY <1>4, <2>1, <3>0, <3>1
      <3>2. CASE mg_http_parse_chunk(w) # 0
        <4> DEFINE d == ds[i + 1]
                   n == Len(d) + 3
                   g == H(Len(a))
                   c == Cat(a, Chunk(d))
                   h == H(Len(c))
        <4>1. d \in Seq(Data) /\ P[i + 1] = Chunk(d) /\ d \in Seq(Tokens)
              /\ Len(d) \in Nat \ {0}
          BY <1>1, <3>0
        <4>2. /\ mg_http_parse_chunk(From(s, Len(a))) = n
              /\ \E r : /\ r \in Seq(Tokens) /\ w = Cat(Chunk(d), r)
                        /\ ChunksLeft(ds, i + 1, r, inp)
          <5> HIDE DEF m, P, d
          <5>1. QED
            BY <1>5, <2>1, <3>0, <3>2, <4>1
        <4>3. PICK r : r \in Seq(Tokens) /\ w = Cat(Chunk(d), r)
              /\ ChunksLeft(ds, i + 1, r, inp)
          BY <4>2
        <4>4. Chunk(d) \in Seq(Tokens) /\ Len(Chunk(d)) = n
          BY <4>1, ChunkIs
        <4>5. c \in Seq(Tokens) /\ Len(c) = Len(a) + n /\ Len(a) \in Nat
          <5> HIDE DEF d
          <5>1. c \in Seq(Tokens) /\ IsCat(c, a, Chunk(d))
            BY <2>1, <4>4, CatIs
          <5> HIDE DEF c
          <5>2. QED
            BY <4>4, <5>1 DEF IsCat
        <4>6. s = Cat(c, r)
          <5> HIDE DEF d
          <5>1. Cat(Cat(a, Chunk(d)), r) = Cat(a, Cat(Chunk(d), r))
            BY <2>1, <4>3, <4>4, CatAssoc
          <5>2. QED
            BY <2>1, <4>3, <5>1
        <4>7. BodyHeld(ds, i + 1, inp, s, h)
          <5> HIDE DEF c, H
          <5>1. QED
            BY <1>7, <4>3, <4>5, <4>6
        <4>8. SubSeq(s, Len(a) + 3, Len(a) + n - 1) = d
          <5> DEFINE x == << << "size", Len(d) >>, << "nl" >> >>
                     t == << << "nl" >> >>
                     ax == Cat(a, x)
                     u == Cat(t, r)
                     p == Len(a) + 2
                     q == Len(a) + 2 + Len(d)
          <5>1. /\ x \in Seq(Tokens) /\ Len(x) = 2 /\ t \in Seq(Tokens)
                /\ Chunk(d) = Cat(Cat(x, d), t)
            <6> HIDE DEF d
            <6>1. QED
              BY <4>1, ChunkIs
          <5> HIDE DEF x, t
          <5> DEFINE xd == Cat(x, d)
          <5>2. ax \in Seq(Tokens) /\ Len(ax) = p
            <6>1. ax \in Seq(Tokens) /\ IsCat(ax, a, x)
              BY <2>1, <5>1, CatIs
            <6> HIDE DEF ax
            <6>2. QED
              BY <5>1, <6>1 DEF IsCat
          <5>3. u \in Seq(Tokens)
            BY <4>3, <5>1, CatIs
          <5>4. s = Cat(Cat(ax, d), u)
            <6> HIDE DEF d
            <6>1. xd \in Seq(Tokens)
              BY <4>1, <5>1, CatIs
            <6>2. Cat(a, xd) = Cat(ax, d)
              BY <2>1, <4>1, <5>1, CatAssoc
            <6>3. Cat(a, xd) \in Seq(Tokens)
              <7> HIDE DEF xd
              <7>1. QED
                BY <2>1, <6>1, CatIs
            <6>4. c = Cat(Cat(a, xd), t)
              <7> HIDE DEF xd
              <7>1. c = Cat(a, Cat(xd, t))
                BY <5>1 DEF xd
              <7>2. QED
                BY <2>1, <5>1, <6>1, <7>1, CatAssoc
            <6> HIDE DEF c, xd
            <6>5. s = Cat(Cat(Cat(a, xd), t), r)
              BY <4>6, <6>4
            <6>6. Cat(Cat(Cat(a, xd), t), r) = Cat(Cat(a, xd), Cat(t, r))
              <7> DEFINE y == Cat(a, xd)
              <7>1. y \in Seq(Tokens)
                BY <6>3
              <7> HIDE DEF y
              <7>2. Cat(Cat(y, t), r) = Cat(y, Cat(t, r))
                BY <4>3, <5>1, <7>1, CatAssoc
              <7>3. QED
                BY <7>2 DEF y
            <6>7. QED
              BY <6>2, <6>5, <6>6
          <5>5. p = Len(ax) /\ q = Len(ax) + Len(d) /\ p + 1 = Len(a) + 3
                /\ q = Len(a) + n - 1
            <6> DEFINE la == Len(a)
                       ld == Len(d)
                       lx == Len(ax)
            <6>1. la \in Nat /\ ld \in Nat /\ lx = la + 2
              BY <4>1, <4>5, <5>2
            <6>2. p = la + 2 /\ q = la + 2 + ld /\ n = ld + 3
              OBVIOUS
            <6> HIDE DEF la, ld, lx, p, q, n
            <6>3. p = lx /\ q = lx + ld /\ p + 1 = la + 3 /\ q = la + n - 1
              BY <6>1, <6>2
            <6>4. QED
              BY <6>3 DEF la, ld, lx
          <5> HIDE DEF ax, u, p, q, d, n
          <5>6. Middle(s, p, q, d, u)
            BY <4>1, <5>2, <5>3, <5>4, <5>5, CutMiddle
          <5>7. QED
            BY <5>5, <5>6 DEF Middle
        <4>9. g = [h EXCEPT !.data = d \o @]
          <5>1. g = Held(s, Holding(s), Len(a))
            BY <1>3, <2>1, <3>0
          <5>2. n # 0 /\ n # 3
            BY <4>1
          <5>3. h = Holding(s)[Len(a) + n]
            BY <4>5
          <5> HIDE DEF g, h, d, n
          <5>4. QED
            BY <4>2, <4>8, <5>1, <5>2, <5>3, Zenon DEF Held
        <4>10. h \in HeldSet
          BY <4>7 DEF BodyHeld
        <4> HIDE DEF g, h
        <4>11. /\ g.data = Cat(d, h.data) /\ g.end = h.end /\ g.zero = h.zero
               /\ g \in HeldSet /\ h.data \in Seq(Tokens)
          <5>1. h.data \in Seq(Tokens)
            BY <4>10 DEF HeldSet
          <5>2. g.data = d \o h.data /\ g.end = h.end /\ g.zero = h.zero
            BY <4>9, <4>10 DEF HeldSet
          <5> DEFINE y == Cat(d, h.data)
          <5>3. g.data = y
            BY <5>2, Zenon DEF Cat
          <5>4. y \in Seq(Tokens)
            <6> DEFINE z == h.data
            <6>1. z \in Seq(Tokens)
              BY <5>1
            <6> HIDE DEF z, d
            <6>2. Cat(d, z) \in Seq(Tokens)
              BY <4>1, <6>1, CatIs
            <6>3. QED
              BY <6>2 DEF z
          <5> HIDE DEF y
          <5>5. g = [h EXCEPT !.data = y]
            <6>1. g = [h EXCEPT !.data = d \o h.data]
              BY <4>9
            <6>2. y = d \o h.data
              BY Zenon DEF y, Cat
            <6>3. QED
              BY <6>1, <6>2
          <5>6. g \in HeldSet
            BY <4>10, <5>4, <5>5 DEF HeldSet
          <5>7. QED
            BY <5>1, <5>2, <5>3, <5>6 DEF y
        <4>12. ASSUME NEW k, Joined(ds, k) = Cat(Joined(ds, i + 1), h.data)
               PROVE  Joined(ds, k) = Cat(Joined(ds, i), g.data)
          <5>1. Joined(ds, i + 1) = Cat(Joined(ds, i), d)
            <6> HIDE DEF m
            <6>1. i \in Nat /\ ds[i + 1] \in Seq(Tokens)
              BY <3>0, <4>1 DEF m
            <6>2. QED
              BY <6>1, JoinedNext
          <5> DEFINE x == Joined(ds, i)
                     y == h.data
          <5>2. x \in Seq(Tokens) /\ y \in Seq(Tokens)
            BY <1>2, <3>0, <4>11
          <5>3. Joined(ds, k) = Cat(Cat(x, d), y)
            BY <4>12, <5>1
          <5> HIDE DEF x, y, d
          <5>4. Cat(Cat(x, d), y) = Cat(x, Cat(d, y))
            BY <4>1, <5>2, CatAssoc
          <5>5. QED
            BY <4>11, <5>3, <5>4 DEF x, y
        <4>13. g.zero => inp = << >> /\ Joined(ds, m) = Cat(Joined(ds, i), g.data)
          <5>1. ASSUME g.zero PROVE inp = << >> /\ Joined(ds, m) = Cat(Joined(ds, i + 1), h.data)
            BY <4>7, <4>11, <5>1, Zenon DEF BodyHeld, m
          <5> HIDE DEF m, d
          <5>2. QED
            BY <4>12, <5>1
        <4>14. ~g.zero => \E k \in i..Len(ds) : \E v :
                  /\ ChunksLeft(ds, k, v, inp) /\ From(s, g.end) = v
                  /\ Joined(ds, k) = Cat(Joined(ds, i), g.data)
                  /\ mg_http_parse_chunk(v) = 0
          <5>1. SUFFICES ASSUME ~g.zero PROVE
                 \E k \in i..Len(ds) : \E v :
                  /\ ChunksLeft(ds, k, v, inp) /\ From(s, g.end) = v
                  /\ Joined(ds, k) = Cat(Joined(ds, i), g.data)
                  /\ mg_http_parse_chunk(v) = 0
            OBVIOUS
          <5>2. PICK k, v :
                  /\ k \in i + 1..Len(ds)
                  /\ ChunksLeft(ds, k, v, inp) /\ From(s, h.end) = v
                  /\ Joined(ds, k) = Cat(Joined(ds, i + 1), h.data)
                  /\ mg_http_parse_chunk(v) = 0
            BY <4>7, <4>11, <5>1, Zenon DEF BodyHeld
          <5>3. k \in i..Len(ds)
            BY <1>1, <3>0, <5>2
          <5>4. Joined(ds, k) = Cat(Joined(ds, i), g.data)
            BY <4>12, <5>2
          <5>5. QED
            BY <4>11, <5>2, <5>3, <5>4
        <4>15. BodyHeld(ds, i, inp, s, g)
          <5> HIDE DEF d
          <5>1. QED
            BY <4>11, <4>13, <4>14, Zenon DEF BodyHeld, m
        <4>16. QED
          BY <4>15 DEF g
      <3>3. QED
        BY <3>1, <3>2
    <2> HIDE DEF H, m
    <2>2. QED
      BY <2>1, Zenon
  <1>8. Nat \subseteq T
    <2>1. 0 \in T
      <3>1. m - 0 = m
        BY <1>1
      <3> HIDE DEF Claim, m
      <3>2. QED
        BY <1>6, <3>1
    <2>2. ASSUME NEW k \in Nat, k \in T PROVE k + 1 \in T
      <3>1. ASSUME k + 1 <= m PROVE Claim(m - (k + 1))
        <4>1. k <= m /\ m - (k + 1) \in 0..m - 1 /\ (m - (k + 1)) + 1 = m - k
          BY <1>1, <3>1
        <4> HIDE DEF Claim, m
        <4>2. Claim(m - k)
          BY <2>2, <4>1
        <4>3. QED
          BY <1>7, <4>1, <4>2
      <3> HIDE DEF Claim
      <3>2. QED
        BY <3>1
    <2> HIDE DEF T
    <2>3. QED
      BY <2>1, <2>2, Induction
  <1>9. ASSUME NEW i \in 0..m PROVE Claim(i)
    <2> DEFINE k == m - i
    <2>1. k \in Nat /\ k <= m /\ m - k = i
      BY <1>1
    <2>2. k \in T
      <3> HIDE DEF T
      <3>1. QED
        BY <1>8, <2>1
    <2> HIDE DEF Claim, k
    <2>3. Claim(m - k)
      BY <2>1, <2>2
    <2>4. QED
      BY <2>1, <2>3
  <1>10. ASSUME NEW i \in 0..m, NEW a, NEW w,
                a \in Seq(Tokens), s = Cat(a, w), ChunksLeft(ds, i, w, inp)
         PROVE  BodyHeld(ds, i, inp, s, Collapse(s, Len(a)))
    <2>1. BodyHeld(ds, i, inp, s, H(Len(a)))
      <3> HIDE DEF H, m
      <3>1. QED
        BY <1>9, <1>10, Zenon
    <2>2. Collapse(s, Len(a)) = H(Len(a))
      BY CollapseIs
    <2>3. QED
      BY <2>1, <2>2
  <1>11. QED
    BY <1>10, Zenon DEF m

\* The request line and headers, which stay before the body in the buffer.
HeadToken == << << "head" >> >>
\* A connection that receives chunked bodies.
ChunkedSet == [buf : Seq(Tokens), body_len : Nat, failed : BOOLEAN, events : Seq(Seq(Tokens))]

\* The first i chunks are put together behind the head of the request.
ChunkedAt(c, ds, i, w, inp) ==
  /\ ChunksLeft(ds, i, w, inp)
  /\ c \in ChunkedSet /\ ~c.failed /\ c.events = << >>
  /\ c.buf = Cat(HeadToken, Cat(Joined(ds, i), w))
  /\ c.body_len = Len(Joined(ds, i))

\* Nothing has arrived.
ChunkedStart(c, ds, inp) ==
  /\ c \in ChunkedSet /\ ~c.failed /\ c.events = << >>
  /\ c.buf = << >> /\ c.body_len = 0 /\ inp = Chunked(ds)

\* All has arrived, and the handler has got the body.
ChunkedDone(c, ds, inp) ==
  /\ c \in ChunkedSet /\ ~c.failed /\ c.events = << FlattenSeq(ds) >>
  /\ c.buf = << >> /\ inp = << >>

\* A body that has not arrived, is on its way, or is with the handler; the rest in
\* the buffer is not a whole chunk, or it would have been taken.
ChunkedInv(c, ds, inp) ==
  \/ ChunkedStart(c, ds, inp)
  \/ \E i \in 0..Len(ds) : \E w : ChunkedAt(c, ds, i, w, inp) /\ mg_http_parse_chunk(w) = 0
  \/ ChunkedDone(c, ds, inp)

\* What is behind the first element.
LEMMA TailOfCat ==
  ASSUME NEW S, NEW x \in S, NEW s \in Seq(S)
  PROVE  /\ Tail(Cat(<< x >>, s)) = s /\ Cat(<< x >>, s)[1] = x
         /\ Cat(<< x >>, s) # << >> /\ Cat(<< x >>, s) \in Seq(S)
         /\ Len(Cat(<< x >>, s)) = Len(s) + 1
  <1> DEFINE h == << x >>
             y == Cat(h, s)
  <1>1. h \in Seq(S) /\ Len(h) = 1 /\ h[1] = x
    OBVIOUS
  <1> HIDE DEF h
  <1>2. y \in Seq(S) /\ IsCat(y, h, s) /\ Cuts(y, h, s)
    BY <1>1, CatIs, CatCuts
  <1> HIDE DEF y
  <1>3. Len(y) = Len(s) + 1 /\ y[1] = x /\ SubSeq(y, 2, Len(y)) = s /\ Len(s) \in Nat
    <2>1. 1 \in 1..Len(h)
      BY <1>1
    <2>2. QED
      BY <1>1, <1>2, <2>1 DEF IsCat, Cuts
  <1>4. y # << >>
    BY <1>3
  <1>5. Tail(y) = SubSeq(y, 2, Len(y))
    BY <1>2, <1>4, TailIsSubSeq
  <1>6. QED
    BY <1>2, <1>3, <1>4, <1>5 DEF y, h

\* mg_handle_chunked puts together every chunk that is there.
LEMMA ChunkedRecvKeeps ==
  ASSUME NEW ds, Filled(ds), NEW i \in 0..Len(ds), NEW w, NEW inp, NEW c,
         ChunkedAt(c, ds, i, w, inp)
  PROVE  ChunkedInv(ChunkedRecv(c), ds, inp)
  <1> DEFINE x == Joined(ds, i)
             rest == Cat(x, w)
             g == Collapse(rest, Len(x))
             hd == << "head" >>
             m == Len(ds)
             e == ChunkedRecv(c)
             body == Cat(x, g.data)
  <1>1. /\ w \in Seq(Tokens) /\ inp \in Seq(Tokens) /\ ChunksLeft(ds, i, w, inp)
        /\ c \in ChunkedSet /\ ~c.failed /\ c.events = << >>
        /\ c.buf = Cat(<< hd >>, rest) /\ c.body_len = Len(x)
    BY DEF ChunkedAt, ChunksLeft, HeadToken
  <1>2. Pieces(Tokens, ds, m) /\ m \in Nat /\ Joined(ds, m) = FlattenSeq(ds)
    BY ChunksAre
  <1>3. \A k \in 0..m : Joined(ds, k) \in Seq(Tokens)
    <2> HIDE DEF m
    <2>1. QED
      BY <1>2, JoinedSeq
  <1>4. x \in Seq(Tokens)
    BY <1>3
  <1> HIDE DEF x
  <1>5. rest \in Seq(Tokens) /\ Cuts(rest, x, w)
    BY <1>1, <1>4, CatIs, CatCuts
  <1>6. hd \in Tokens
    BY DEF Tokens
  <1> HIDE DEF rest, hd
  <1>7. Tail(c.buf) = rest /\ c.buf[1] = hd /\ c.buf # << >>
    <2>1. Tail(Cat(<< hd >>, rest)) = rest /\ Cat(<< hd >>, rest)[1] = hd
          /\ Cat(<< hd >>, rest) # << >>
      BY <1>5, <1>6, TailOfCat
    <2>2. QED
      BY <1>1, <2>1
  <1>8. BodyHeld(ds, i, inp, rest, g)
    <2>1. rest = Cat(x, w)
      BY DEF rest
    <2>2. QED
      BY <1>1, <1>4, <1>5, <2>1, CollapseBody
  <1>9. SubSeq(rest, 1, c.body_len) = x /\ ~(Len(rest) < c.body_len)
    BY <1>1, <1>5 DEF Cuts
  <1>10. g.data \in Seq(Tokens) /\ g.zero \in BOOLEAN
    BY <1>8 DEF BodyHeld, HeldSet
  <1> HIDE DEF g
  <1>11. body = x \o g.data
    BY Zenon DEF Cat
  <1>12. body \in Seq(Tokens) /\ Len(body) \in Nat
    <2> DEFINE y == g.data
    <2>1. y \in Seq(Tokens)
      BY <1>10
    <2> HIDE DEF y
    <2>2. Cat(x, y) \in Seq(Tokens)
      BY <1>4, <2>1, CatIs
    <2>3. body = Cat(x, y)
      BY DEF y
    <2> HIDE DEF body
    <2>4. QED
      BY <2>2, <2>3
  <1>13. e = IF g.zero
             THEN [c EXCEPT !.buf = << >>, !.body_len = Len(body), !.events = Append(@, body)]
             ELSE [c EXCEPT !.buf = << @[1] >> \o body \o From(rest, g.end),
                            !.body_len = Len(body)]
    <2>1. g = Collapse(Tail(c.buf), c.body_len)
      BY <1>1, <1>7 DEF g
    <2>2. body = SubSeq(Tail(c.buf), 1, c.body_len) \o g.data
      BY <1>7, <1>9, <1>11
    <2> HIDE DEF body
    <2>3. QED
      BY <1>7, <1>9, <2>1, <2>2, Zenon DEF ChunkedRecv, Reassembled
  <1> HIDE DEF body, e
  <1>14. CASE g.zero
    <2>1. inp = << >> /\ Joined(ds, m) = body
      BY <1>8, <1>14, Zenon DEF BodyHeld, x, body, m
    <2>2. e = [c EXCEPT !.buf = << >>, !.body_len = Len(body), !.events = Append(@, body)]
      BY <1>13, <1>14
    <2>3. << >> \in Seq(Tokens) /\ Append(<< >>, body) = << body >>
          /\ << body >> \in Seq(Seq(Tokens))
      BY <1>12
    <2>4. e.buf = << >> /\ e.events = << body >> /\ e.failed = c.failed
      BY <1>1, <2>2, <2>3 DEF ChunkedSet
    <2>5. e = [c EXCEPT !.buf = << >>, !.body_len = Len(body), !.events = << body >>]
      BY <1>1, <2>2, <2>3
    <2>6. e \in ChunkedSet
      BY <1>1, <1>12, <2>3, <2>5 DEF ChunkedSet
    <2>7. ChunkedDone(e, ds, inp)
      BY <1>1, <1>2, <2>1, <2>4, <2>6 DEF ChunkedDone
    <2>8. QED
      BY <2>7 DEF ChunkedInv, e
  <1>15. CASE ~g.zero
    <2>1. PICK k, v :
                  /\ k \in i..m
                  /\ ChunksLeft(ds, k, v, inp) /\ From(rest, g.end) = v
                  /\ Joined(ds, k) = body
                  /\ mg_http_parse_chunk(v) = 0
      BY <1>8, <1>15, Zenon DEF BodyHeld, x, body, m
    <2>2. k \in 0..m /\ v \in Seq(Tokens)
      BY <1>2, <2>1 DEF ChunksLeft
    <2>3. e = [c EXCEPT !.buf = << @[1] >> \o body \o From(rest, g.end), !.body_len = Len(body)]
      BY <1>13, <1>15
    <2> DEFINE h == << hd >>
               y == Cat(h, Cat(body, v))
    <2>4. h \in Seq(Tokens)
      BY <1>6
    <2>5. << c.buf[1] >> = h
      BY <1>7
    <2> HIDE DEF h
    <2>6. << c.buf[1] >> \o body \o From(rest, g.end) = Cat(Cat(h, body), v)
      BY <2>1, <2>5, Zenon DEF Cat
    <2>7. Cat(Cat(h, body), v) = y
      BY <1>12, <2>2, <2>4, CatAssoc
    <2>8. y \in Seq(Tokens)
      <3>1. Cat(body, v) \in Seq(Tokens)
        BY <1>12, <2>2, CatIs
      <3> DEFINE z == Cat(body, v)
      <3>2. z \in Seq(Tokens)
        BY <3>1
      <3> HIDE DEF z
      <3>3. Cat(h, z) \in Seq(Tokens)
        BY <2>4, <3>2, CatIs
      <3>4. QED
        BY <3>3 DEF z
    <2> HIDE DEF y
    <2>9. e = [c EXCEPT !.buf = y, !.body_len = Len(body)]
      BY <2>3, <2>6, <2>7
    <2>10. e.buf = y /\ e.body_len = Len(body) /\ e.events = c.events /\ e.failed = c.failed
      BY <1>1, <2>9 DEF ChunkedSet
    <2>11. e \in ChunkedSet
      BY <1>1, <1>12, <2>8, <2>9 DEF ChunkedSet
    <2>12. y = Cat(HeadToken, Cat(Joined(ds, k), v))
      BY <2>1 DEF y, h, hd, HeadToken
    <2>13. ChunkedAt(e, ds, k, v, inp)
      BY <1>1, <2>1, <2>10, <2>11, <2>12, Zenon DEF ChunkedAt
    <2>14. ChunkedInv(e, ds, inp)
      BY <2>1, <2>2, <2>13, Zenon DEF ChunkedInv, m
    <2>15. QED
      BY <2>14 DEF e
  <1>16. QED
    BY <1>10, <1>14, <1>15

\* What a receive event does to a body.
LEMMA ChunkedArrives ==
  ASSUME NEW ds, Filled(ds), NEW inp, NEW c, ChunkedInv(c, ds, inp), NEW k \in 1..Len(inp)
  PROVE  ChunkedInv(ChunkedRecv([c EXCEPT !.buf = @ \o SubSeq(inp, 1, k)]), ds,
                    SubSeq(inp, k + 1, Len(inp)))
  <1> DEFINE a == SubSeq(inp, 1, k)
             b == SubSeq(inp, k + 1, Len(inp))
             d == [c EXCEPT !.buf = @ \o a]
             J == Joined(Chunks(ds), Len(ds) + 1)
  <1>1. /\ Chunked(ds) = Cat(HeadToken, J) /\ HeadToken \in Seq(Tokens)
        /\ Len(HeadToken) = 1
        /\ J \in Seq(Tokens) /\ Pieces(Tokens, Chunks(ds), Len(ds) + 1) /\ Len(ds) \in Nat
        /\ Pieces(Tokens, ds, Len(ds))
    BY ChunksAre DEF HeadToken
  <1>2. c \in ChunkedSet /\ ~c.failed /\ c.buf \in Seq(Tokens)
    BY DEF ChunkedInv, ChunkedStart, ChunkedAt, ChunkedDone, ChunkedSet
  <1> HIDE DEF J
  <1>3. inp \in Seq(Tokens)
    <2>1. Cat(HeadToken, J) \in Seq(Tokens) /\ << >> \in Seq(Tokens)
      BY <1>1, CatIs
    <2>2. QED
      BY <1>1, <2>1, Zenon DEF ChunkedInv, ChunkedStart, ChunkedAt, ChunkedDone, ChunksLeft
  <1>4. a \in Seq(Tokens) /\ b \in Seq(Tokens) /\ inp = Cat(a, b) /\ Len(a) = k
    BY <1>3, SplitAt
  <1> HIDE DEF a, b
  <1>5. d.buf = Cat(c.buf, a) /\ d \in ChunkedSet /\ ~d.failed /\ d.events = c.events
        /\ d.body_len = c.body_len
    <2>1. d.buf = c.buf \o a /\ d.failed = c.failed /\ d.events = c.events
          /\ d.body_len = c.body_len
      BY <1>2 DEF ChunkedSet
    <2>2. c.buf \o a \in Seq(Tokens)
      BY <1>2, <1>4
    <2>3. d \in ChunkedSet
      BY <1>2, <2>2 DEF ChunkedSet
    <2> HIDE DEF d
    <2>4. d.buf = Cat(c.buf, a)
      BY <2>1, Zenon DEF Cat
    <2>5. QED
      BY <1>2, <2>1, <2>3, <2>4
  <1> HIDE DEF d
  <1>6. ASSUME NEW i \in 0..Len(ds), NEW v, ChunkedAt(d, ds, i, v, b)
        PROVE  ChunkedInv(ChunkedRecv(d), ds, b)
    BY <1>6, ChunkedRecvKeeps
  <1>6a. SUFFICES ChunkedInv(ChunkedRecv(d), ds, b)
    BY Zenon DEF a, b, d
  <1>7. CASE ChunkedStart(c, ds, inp)
    <2>1. /\ c.events = << >> /\ c.buf = << >> /\ c.body_len = 0 /\ inp = Cat(HeadToken, J)
      BY <1>1, <1>7 DEF ChunkedStart
    <2>2. Cat(a, b) = Cat(HeadToken, J) /\ Len(HeadToken) <= Len(a)
      BY <1>1, <1>4, <2>1
    <2>3. PICK r \in Seq(Tokens) : a = Cat(HeadToken, r) /\ J = Cat(r, b)
      <3>1. Splits(Tokens, a, b, HeadToken, J)
        BY <1>1, <1>4, <2>2, CatSplits
      <3>2. QED
        BY <2>2, <3>1 DEF Splits
    <2>4. d.buf = a
      BY <1>4, <1>5, <2>1, CatEmpty
    <2>5. Joined(ds, 0) = << >>
      BY JoinedNone
    <2>6. Cat(Joined(ds, 0), r) = r /\ Len(Joined(ds, 0)) = 0
      BY <2>5, CatEmpty
    <2>7. Remains(Tokens, Chunks(ds), Len(ds) + 1, 0, J)
      <3> DEFINE p == Chunks(ds)
                 n == Len(ds) + 1
      <3>1. Pieces(Tokens, p, n) /\ J = Joined(p, n)
        BY <1>1 DEF J
      <3> HIDE DEF p, n
      <3>2. Remains(Tokens, p, n, 0, J)
        BY <3>1, RemainsLast
      <3>3. QED
        BY <3>2 DEF p, n
    <2>8. ChunksLeft(ds, 0, r, b)
      BY <1>4, <2>3, <2>7 DEF ChunksLeft
    <2>9. ChunkedAt(d, ds, 0, r, b)
      BY <1>5, <2>1, <2>3, <2>4, <2>6, <2>8, Zenon DEF ChunkedAt
    <2>10. 0 \in 0..Len(ds)
      BY <1>1
    <2>11. QED
      BY <1>6, <2>9, <2>10
  <1>8. CASE \E i \in 0..Len(ds) : \E w : ChunkedAt(c, ds, i, w, inp) /\ mg_http_parse_chunk(w) = 0
    <2>1. PICK i, w : i \in 0..Len(ds) /\ ChunkedAt(c, ds, i, w, inp)
      BY <1>8
    <2> DEFINE x == Joined(ds, i)
    <2>2. /\ w \in Seq(Tokens) /\ Remains(Tokens, Chunks(ds), Len(ds) + 1, i, Cat(w, inp))
          /\ c.events = << >> /\ c.buf = Cat(HeadToken, Cat(x, w)) /\ c.body_len = Len(x)
      BY <2>1 DEF ChunkedAt, ChunksLeft
    <2>3. x \in Seq(Tokens)
      BY <1>1, <2>1, JoinedSeq
    <2> HIDE DEF x
    <2>4. Cat(w, a) \in Seq(Tokens) /\ Cat(Cat(w, a), b) = Cat(w, inp)
      <3>1. Cat(Cat(w, a), b) = Cat(w, Cat(a, b))
        BY <1>4, <2>2, CatAssoc
      <3>2. Cat(w, a) \in Seq(Tokens)
        BY <1>4, <2>2, CatIs
      <3>3. QED
        BY <1>4, <3>1, <3>2
    <2>5. d.buf = Cat(HeadToken, Cat(x, Cat(w, a)))
      <3> DEFINE y == Cat(x, w)
      <3>1. y \in Seq(Tokens)
        BY <2>2, <2>3, CatIs
      <3>2. Cat(y, a) = Cat(x, Cat(w, a))
        BY <1>4, <2>2, <2>3, CatAssoc
      <3>3. c.buf = Cat(HeadToken, y)
        BY <2>2
      <3> HIDE DEF y
      <3>4. Cat(Cat(HeadToken, y), a) = Cat(HeadToken, Cat(y, a))
        BY <1>1, <1>4, <3>1, CatAssoc
      <3>5. QED
        BY <1>5, <3>2, <3>3, <3>4
    <2>6. ChunksLeft(ds, i, Cat(w, a), b)
      BY <1>4, <2>2, <2>4 DEF ChunksLeft
    <2>7. ChunkedAt(d, ds, i, Cat(w, a), b)
      BY <1>5, <2>2, <2>5, <2>6, Zenon DEF ChunkedAt, x
    <2>8. QED
      BY <1>6, <2>1, <2>7
  <1>9. CASE ChunkedDone(c, ds, inp)
    <2>1. Len(inp) = 0
      BY <1>9 DEF ChunkedDone
    <2>2. QED
      BY <2>1
  <1>10. QED
    BY <1>7, <1>8, <1>9, Zenon DEF ChunkedInv

\* Before anything has arrived.
LEMMA ChunkedStarts ==
  ASSUME NEW ds, Filled(ds)
  PROVE  ChunkedInv(Head0, ds, Chunked(ds))
  <1>1. Head0 \in ChunkedSet /\ ~Head0.failed /\ Head0.events = << >>
        /\ Head0.buf = << >> /\ Head0.body_len = 0
    BY DEF Head0, ChunkedSet
  <1>2. QED
    BY <1>1 DEF ChunkedInv, ChunkedStart

\* The handler gets the body once, when all of it is there.
LEMMA ChunkedTold ==
  ASSUME NEW ds, Filled(ds), NEW inp, NEW c, ChunkedInv(c, ds, inp)
  PROVE  /\ c.buf # << >> => c.failed \/ c.body_len < Len(c.buf)
         /\ c.events = << >> \/ c.events = << FlattenSeq(ds) >>
         /\ inp = << >> => c.events = << FlattenSeq(ds) >>
  <1>1. CASE ChunkedStart(c, ds, inp)
    <2>1. inp # << >>
      <3> DEFINE J == Joined(Chunks(ds), Len(ds) + 1)
      <3>1. inp = Cat(HeadToken, J) /\ HeadToken \in Seq(Tokens) /\ Len(HeadToken) = 1
            /\ J \in Seq(Tokens)
        BY <1>1, ChunksAre DEF ChunkedStart, HeadToken
      <3> HIDE DEF J
      <3>2. IsCat(inp, HeadToken, J)
        BY <3>1, CatIs
      <3>3. Len(inp) # 0
        BY <3>1, <3>2 DEF IsCat
      <3>4. QED
        BY <3>3
    <2>2. QED
      BY <1>1, <2>1 DEF ChunkedStart
  <1>2. CASE \E i \in 0..Len(ds) : \E w : ChunkedAt(c, ds, i, w, inp) /\ mg_http_parse_chunk(w) = 0
    <2>1. PICK i, w : i \in 0..Len(ds) /\ ChunkedAt(c, ds, i, w, inp)
          /\ mg_http_parse_chunk(w) = 0
      BY <1>2
    <2> DEFINE x == Joined(ds, i)
               y == Cat(x, w)
               m == Len(ds)
    <2>2. /\ w \in Seq(Tokens) /\ inp \in Seq(Tokens)
          /\ Remains(Tokens, Chunks(ds), Len(ds) + 1, i, Cat(w, inp))
          /\ c.events = << >> /\ c.buf = Cat(HeadToken, y) /\ c.body_len = Len(x)
      BY <2>1 DEF ChunkedAt, ChunksLeft
    <2>3. /\ HeadToken \in Seq(Tokens) /\ Len(HeadToken) = 1 /\ Pieces(Tokens, ds, m)
          /\ m \in Nat
          /\ \A k \in 1..m : ds[k] \in Seq(Data) /\ Chunks(ds)[k] = Chunk(ds[k])
          /\ Chunks(ds)[m + 1] = Chunk(<< >>)
      BY ChunksAre DEF HeadToken
    <2>4. inp # << >>
      <3>1. \E d \in Seq(Data) : Chunks(ds)[i + 1] = Chunk(d)
        <4>1. CASE i = m
          <5>1. << >> \in Seq(Data)
            OBVIOUS
          <5>2. QED
            BY <2>3, <4>1, <5>1
        <4>2. CASE i # m
          <5>1. i + 1 \in 1..m
            BY <2>1, <2>3, <4>2
          <5>2. QED
            BY <2>3, <5>1
        <4>3. QED
          BY <4>1, <4>2
      <3>2. PICK d \in Seq(Data) : Chunks(ds)[i + 1] = Chunk(d)
        BY <3>1
      <3>3. inp = << >> => mg_http_parse_chunk(w) # 0
        <4>1. w \in Seq(Tokens) /\ inp \in Seq(Tokens)
          BY <2>2
        <4>2. Remains(Tokens, Chunks(ds), Len(ds) + 1, i, Cat(w, inp))
          BY <2>2
        <4> HIDE DEF x, y, m
        <4>3. QED
          <5>1. ChunkNext(ds, i, w, inp, d)
            BY <2>1, <3>2, <4>1, <4>2, NextChunk
          <5>2. QED
            BY <5>1 DEF ChunkNext
      <3>4. QED
        BY <2>1, <3>3
    <2>5. x \in Seq(Tokens)
      BY <2>1, <2>3, JoinedSeq
    <2> HIDE DEF x
    <2>6. y \in Seq(Tokens) /\ IsCat(y, x, w)
      BY <2>2, <2>5, CatIs
    <2> HIDE DEF y
    <2>7. Len(c.buf) = 1 + Len(y)
      <3>1. IsCat(Cat(HeadToken, y), HeadToken, y)
        BY <2>3, <2>6, CatIs
      <3>2. QED
        BY <2>2, <2>3, <3>1 DEF IsCat
    <2>8. c.body_len < Len(c.buf)
      BY <2>2, <2>6, <2>7 DEF IsCat
    <2>9. QED
      BY <2>2, <2>4, <2>8
  <1>3. CASE ChunkedDone(c, ds, inp)
    BY <1>3 DEF ChunkedDone
  <1>4. QED
    BY <1>1, <1>2, <1>3 DEF ChunkedInv

-----------------------------------------------------------------------------
(* Uploads in parts *)

\* A boundary, the dashes before it, and those behind the last.
Boundary == << "B", "b" >>
Dashes == << "r", "n", "-", "-" >>
LastDashes == << "-", "-", "r", "n" >>

\* The fixed parts of an upload are sequences of bytes, of their lengths.
LEMMA BoundaryTypes ==
  /\ Boundary \in Seq(Bytes) /\ Len(Boundary) = 2
  /\ Dashes \in Seq(Bytes) /\ Len(Dashes) = 4
  /\ LastDashes \in Seq(Bytes) /\ Len(LastDashes) = 4
  /\ Header \in Seq(Bytes) /\ Len(Header) = 7 /\ Header[1] = "r" /\ LastDashes[1] = "-"
  /\ Boundary[1] = "B" /\ Boundary[2] = "b"
  <1>1. "B" \in Bytes /\ "b" \in Bytes /\ "r" \in Bytes /\ "n" \in Bytes
        /\ "-" \in Bytes /\ "D" \in Bytes
    BY DEF Bytes
  <1>2. Boundary \in Seq(Bytes) /\ Len(Boundary) = 2 /\ Boundary[1] = "B"
        /\ Boundary[2] = "b"
    BY <1>1 DEF Boundary
  <1>3. Dashes \in Seq(Bytes) /\ Len(Dashes) = 4
    BY <1>1 DEF Dashes
  <1>4. LastDashes \in Seq(Bytes) /\ Len(LastDashes) = 4 /\ LastDashes[1] = "-"
    BY <1>1 DEF LastDashes
  <1>5. Header \in Seq(Bytes) /\ Len(Header) = 7 /\ Header[1] = "r"
    BY <1>1 DEF Header
  <1>6. QED
    BY <1>2, <1>3, <1>4, <1>5

\* The boundary is found where it is, once it is there.
BoundaryFound(buf, inp, y, t) ==
  /\ Len(buf) < Len(y) + 2 => BoundaryAt(buf) = -1
  /\ Len(buf) >= Len(y) + 2 =>
       /\ BoundaryAt(buf) = Len(y)
       /\ \E r \in Seq(Bytes) : buf = Cat(Cat(y, Boundary), r) /\ t = Cat(r, inp)
  /\ inp = << >> => Len(buf) = Len(y) + 2 + Len(t)

\* The bytes behind y begin with a boundary: BoundaryAt finds it there.
LEMMA BoundaryIs ==
  ASSUME NEW buf \in Seq(Bytes), NEW inp \in Seq(Bytes), NEW y \in Seq(Bytes), NEW t \in Seq(Bytes),
         Cat(buf, inp) = Cat(y, Cat(Boundary, t)), Clean(y)
  PROVE  BoundaryFound(buf, inp, y, t)
  <1> DEFINE yb == Cat(y, Boundary)
             n == Len(y)
             l == Len(buf)
             at == { i \in 1..Len(buf) - 1 : buf[i] = "B" /\ buf[i + 1] = "b" }
  <1>1. Boundary \in Seq(Bytes) /\ Len(Boundary) = 2 /\ Boundary[1] = "B"
        /\ Boundary[2] = "b"
    BY BoundaryTypes
  <1>2. yb \in Seq(Bytes) /\ IsCat(yb, y, Boundary)
    BY <1>1, CatIs
  <1>3. n \in Nat /\ l \in Nat
    OBVIOUS
  <1>4. Len(yb) = n + 2 /\ yb[n + 1] = "B" /\ yb[n + 2] = "b" /\ \A i \in 1..n : yb[i] = y[i]
    <2>1. 1 \in 1..Len(Boundary) /\ 2 \in 1..Len(Boundary)
      BY <1>1
    <2> HIDE DEF yb
    <2>2. QED
      BY <1>1, <1>2, <2>1 DEF IsCat
  <1>5. Cat(buf, inp) = Cat(yb, t)
    <2>1. Cat(yb, t) = Cat(y, Cat(Boundary, t))
      BY <1>1, CatAssoc
    <2>2. QED
      BY <2>1
  <1> HIDE DEF yb
  <1>6. Splits(Bytes, buf, inp, yb, t)
    BY <1>2, <1>5, CatSplits
  <1>7. \A i \in 1..l : i <= n + 2 => buf[i] = yb[i]
    BY <1>4, <1>6 DEF Splits
  <1> HIDE DEF n, l
  <1>8. \A i \in 1..n : i + 1 <= l => ~(buf[i] = "B" /\ buf[i + 1] = "b")
    <2>1. SUFFICES ASSUME NEW i \in 1..n, i + 1 <= l, buf[i] = "B", buf[i + 1] = "b" PROVE FALSE
      OBVIOUS
    <2>2. i \in 1..l /\ i + 1 \in 1..l /\ i <= n + 2 /\ i + 1 <= n + 2
      BY <1>3, <2>1
    <2>3. yb[i] = "B" /\ yb[i + 1] = "b" /\ yb[i] = y[i]
      BY <1>4, <1>7, <2>1, <2>2
    <2>4. CASE i = n
      BY <1>4, <2>3, <2>4
    <2>5. CASE i # n
      <3>1. i \in 1..n - 1 /\ i + 1 \in 1..n
        BY <1>3, <2>5
      <3>2. y[i + 1] = "b" /\ y[i] = "B"
        BY <1>4, <2>3, <3>1
      <3>3. QED
        BY <3>1, <3>2 DEF Clean, n
    <2>6. QED
      BY <2>4, <2>5
  <1>9. ASSUME l < n + 2 PROVE BoundaryAt(buf) = -1
    <2>1. \A i \in 1..l - 1 : i \in 1..n /\ i + 1 <= l
      BY <1>3, <1>9
    <2>2. at = {}
      BY <1>8, <2>1 DEF l
    <2> HIDE DEF at
    <2>3. QED
      BY <2>2 DEF BoundaryAt, at
  <1>10. ASSUME l >= n + 2
         PROVE  /\ BoundaryAt(buf) = n
                /\ \E r \in Seq(Bytes) : buf = Cat(yb, r) /\ t = Cat(r, inp)
    <2>1. buf[n + 1] = "B" /\ buf[n + 2] = "b" /\ n + 1 \in 1..l - 1 /\ (n + 1) + 1 = n + 2
      <3>1. n + 1 \in 1..l /\ n + 2 \in 1..l /\ n + 1 <= n + 2 /\ n + 1 \in 1..l - 1
            /\ (n + 1) + 1 = n + 2
        BY <1>3, <1>10
      <3>2. QED
        BY <1>4, <1>7, <3>1
    <2>2. n + 1 \in at
      BY <2>1 DEF l
    <2>3. ASSUME NEW j \in at PROVE n + 1 <= j /\ j \in Nat
      <3>1. j \in 1..l - 1 /\ buf[j] = "B" /\ buf[j + 1] = "b"
        BY DEF l
      <3>2. j \notin 1..n
        <4>1. j + 1 <= l
          BY <1>3, <3>1
        <4>2. QED
          BY <1>8, <3>1, <4>1
      <3>3. QED
        BY <1>3, <3>1, <3>2
    <2> HIDE DEF at
    <2> DEFINE c == CHOOSE i \in at : \A j \in at : i <= j
    <2>4. c \in at /\ \A j \in at : c <= j
      <3>1. \E i \in at : \A j \in at : i <= j
        BY <2>2, <2>3
      <3>2. QED
        BY <3>1
    <2> HIDE DEF c
    <2>5. c <= n + 1 /\ n + 1 <= c /\ c \in Nat
      BY <2>2, <2>3, <2>4
    <2>6. c - 1 = n
      BY <1>3, <2>5
    <2>7. BoundaryAt(buf) = c - 1
      BY <2>2 DEF BoundaryAt, at, c
    <2>8. Len(yb) <= Len(buf)
      BY <1>4, <1>10 DEF l
    <2>9. QED
      BY <1>6, <2>6, <2>7, <2>8 DEF Splits
  <1>11. ASSUME inp = << >> PROVE l = n + 2 + Len(t)
    <2>1. buf = Cat(yb, t)
      BY <1>5, <1>11, CatEmpty
    <2>2. IsCat(Cat(yb, t), yb, t)
      BY <1>2, CatIs
    <2>3. QED
      BY <1>4, <2>1, <2>2 DEF IsCat, l
  <1>12. QED
    BY <1>9, <1>10, <1>11 DEF BoundaryFound, l, n, yb

\* A part of what is clean is clean; and so is what is clean before the dashes.
LEMMA CleanPart ==
  ASSUME NEW a \in Seq(Bytes), NEW b \in Seq(Bytes), Clean(Cat(a, b))
  PROVE  Clean(b)
  <1> DEFINE x == Cat(a, b)
             m == Len(a)
             n == Len(b)
  <1>1. IsCat(x, a, b) /\ Clean(x)
    BY CatIs
  <1> HIDE DEF x
  <1>2. m \in Nat /\ n \in Nat /\ Len(x) = m + n /\ \A i \in 1..n : x[m + i] = b[i]
    BY <1>1 DEF IsCat
  <1> HIDE DEF m, n
  <1>3. ASSUME NEW i \in 1..n - 1, b[i] = "B", b[i + 1] = "b" PROVE FALSE
    <2>1. i \in 1..n /\ i + 1 \in 1..n /\ m + i \in 1..Len(x) - 1
          /\ m + (i + 1) = (m + i) + 1
      BY <1>2
    <2>2. x[m + i] = "B" /\ x[(m + i) + 1] = "b"
      BY <1>2, <1>3, <2>1
    <2>3. QED
      BY <1>1, <2>1, <2>2 DEF Clean
  <1>4. QED
    BY <1>3 DEF Clean, n

\* The line end and the dashes behind the data of a part begin no boundary.
LEMMA CleanDashes ==
  ASSUME NEW d \in Seq(Bytes), Clean(d)
  PROVE  Clean(Cat(d, Dashes)) /\ Cat(d, Dashes) \in Seq(Bytes) /\ Len(Cat(d, Dashes)) = Len(d) + 4
  <1> DEFINE x == Cat(d, Dashes)
             n == Len(d)
  <1>1. Dashes \in Seq(Bytes) /\ Len(Dashes) = 4
    BY BoundaryTypes
  <1>1a. /\ Dashes[1] # "B" /\ Dashes[2] # "B" /\ Dashes[3] # "B" /\ Dashes[4] # "B"
         /\ Dashes[1] # "b"
    BY DEF Dashes
  <1>2. x \in Seq(Bytes) /\ IsCat(x, d, Dashes)
    BY <1>1, CatIs
  <1> HIDE DEF x
  <1>3. /\ n \in Nat /\ Len(x) = n + 4 /\ \A i \in 1..n : x[i] = d[i]
        /\ \A i \in 1..4 : x[n + i] = Dashes[i]
    BY <1>1, <1>2 DEF IsCat
  <1>4. /\ x[n + 1] # "B" /\ x[n + 2] # "B" /\ x[n + 3] # "B" /\ x[n + 4] # "B"
        /\ x[n + 1] # "b"
    <2>1. 1 \in 1..4 /\ 2 \in 1..4 /\ 3 \in 1..4 /\ 4 \in 1..4
      OBVIOUS
    <2>2. /\ x[n + 1] = Dashes[1] /\ x[n + 2] = Dashes[2]
          /\ x[n + 3] = Dashes[3] /\ x[n + 4] = Dashes[4]
      BY <1>3, <2>1
    <2>3. QED
      BY <1>1a, <2>2
  <1> HIDE DEF n
  <1>5. ASSUME NEW i \in 1..Len(x) - 1, x[i] = "B", x[i + 1] = "b" PROVE FALSE
    <2>1. i \in Nat /\ i # n + 1 /\ i # n + 2 /\ i # n + 3 /\ i # n + 4 /\ i + 1 # n + 1
      BY <1>4, <1>5
    <2>2. i \in 1..n - 1 /\ i \in 1..n /\ i + 1 \in 1..n
      BY <1>3, <1>5, <2>1
    <2>3. d[i] = "B" /\ d[i + 1] = "b"
      BY <1>3, <1>5, <2>2
    <2>4. QED
      BY <2>2, <2>3 DEF Clean, n
  <1>6. QED
    BY <1>2, <1>3, <1>5 DEF Clean, x, n

\* The parts on the wire, each up to the boundary behind it.
PartEnd == << "r", "n", "-", "-", "B", "b" >>
\* The parts, each with its header and the boundary that ends it.
Parts(ds) == [i \in DOMAIN ds |-> Cat(Cat(Header, ds[i]), PartEnd)]

\* t is what follows the boundary before part i + 1.
Behind(ds, i, t) ==
  t \in Seq(Bytes)
  /\ \E r : Remains(Bytes, Parts(ds), Len(ds), i, r) /\ t = Cat(r, LastDashes)

\* What ends a part is the line end with the dashes, and the boundary.
LEMMA PartEndIs ==
  PartEnd = Cat(Dashes, Boundary) /\ PartEnd \in Seq(Bytes)
  <1>1. /\ Boundary \in Seq(Bytes) /\ Len(Boundary) = 2 /\ Dashes \in Seq(Bytes)
        /\ Len(Dashes) = 4
        /\ Boundary[1] = "B" /\ Boundary[2] = "b"
    BY BoundaryTypes
  <1>2. Dashes[1] = "r" /\ Dashes[2] = "n" /\ Dashes[3] = "-" /\ Dashes[4] = "-"
    BY DEF Dashes
  <1> DEFINE x == Cat(Dashes, Boundary)
  <1>3. x \in Seq(Bytes) /\ IsCat(x, Dashes, Boundary)
    BY <1>1, CatIs
  <1> HIDE DEF x
  <1>4. Len(x) = 6 /\ (\A i \in 1..4 : x[i] = Dashes[i]) /\ (\A i \in 1..2 : x[4 + i] = Boundary[i])
    BY <1>1, <1>3 DEF IsCat
  <1>5. /\ x[1] = "r" /\ x[2] = "n" /\ x[3] = "-" /\ x[4] = "-" /\ x[5] = "B" /\ x[6] = "b"
    <2>1. 1 \in 1..4 /\ 2 \in 1..4 /\ 3 \in 1..4 /\ 4 \in 1..4 /\ 1 \in 1..2
          /\ 2 \in 1..2 /\ 4 + 1 = 5 /\ 4 + 2 = 6
      OBVIOUS
    <2>2. x[1] = Dashes[1] /\ x[2] = Dashes[2] /\ x[3] = Dashes[3] /\ x[4] = Dashes[4]
      BY <1>4, <2>1
    <2>3. x[4 + 1] = Boundary[1] /\ x[4 + 2] = Boundary[2]
      BY <1>4, <2>1
    <2>4. QED
      BY <1>1, <1>2, <2>1, <2>2, <2>3
  <1>6. "B" \in Bytes /\ "b" \in Bytes /\ "r" \in Bytes /\ "n" \in Bytes /\ "-" \in Bytes
    BY DEF Bytes
  <1>7. /\ PartEnd \in Seq(Bytes) /\ Len(PartEnd) = 6
        /\ PartEnd[1] = "r" /\ PartEnd[2] = "n" /\ PartEnd[3] = "-" /\ PartEnd[4] = "-"
        /\ PartEnd[5] = "B" /\ PartEnd[6] = "b"
    BY <1>6 DEF PartEnd
  <1>8. ASSUME NEW i \in 1..6 PROVE PartEnd[i] = x[i]
    <2>1. i = 1 \/ i = 2 \/ i = 3 \/ i = 4 \/ i = 5 \/ i = 6
      OBVIOUS
    <2>2. QED
      BY <1>5, <1>7, <2>1
  <1> DEFINE z == PartEnd
  <1>9. z \in Seq(Bytes) /\ Len(z) = Len(x) /\ \A i \in 1..Len(z) : z[i] = x[i]
    BY <1>4, <1>7, <1>8
  <1> HIDE DEF z
  <1>10. z = x
    BY <1>3, <1>9, SeqEqual
  <1>11. QED
    BY <1>7, <1>10 DEF z, x

\* The parts of an upload are sequences of bytes, and Each joins them.
LEMMA PartsAre ==
  ASSUME NEW ds, UploadLegal(ds)
  PROVE  /\ Len(ds) \in Nat \ {0} /\ Pieces(Bytes, Parts(ds), Len(ds))
         /\ \A i \in 1..Len(ds) : /\ ds[i] \in Seq(Bytes) /\ Clean(ds[i])
                                  /\ Parts(ds)[i] = Cat(Cat(Header, ds[i]), PartEnd)
         /\ Each(ds, Header, PartEnd) = Joined(Parts(ds), Len(ds))
  <1> DEFINE n == Len(ds)
             P == Parts(ds)
  <1>1. /\ n \in Nat \ {0} /\ DOMAIN ds = 1..n
        /\ \A i \in 1..n : ds[i] \in Seq(Bytes) /\ Clean(ds[i])
    <2>1. ds \in Seq(Seq(Bytes)) /\ ds # << >> /\ \A i \in DOMAIN ds : Clean(ds[i])
      BY DEF UploadLegal
    <2>2. n \in Nat \ {0} /\ DOMAIN ds = 1..n
      BY <2>1
    <2>3. \A i \in 1..n : ds[i] \in Seq(Bytes)
      BY <2>1
    <2>4. QED
      BY <2>1, <2>2, <2>3
  <1> HIDE DEF n
  <1>2. \A i \in 1..n : P[i] = Cat(Cat(Header, ds[i]), PartEnd)
    BY <1>1 DEF Parts
  <1>3. \A i \in 1..n : P[i] \in Seq(Bytes)
    <2>1. ASSUME NEW d \in Seq(Bytes) PROVE Cat(Cat(Header, d), PartEnd) \in Seq(Bytes)
      <3>1. Cat(Header, d) \in Seq(Bytes)
        BY BoundaryTypes, CatIs
      <3> DEFINE z == Cat(Header, d)
      <3>2. z \in Seq(Bytes)
        BY <3>1
      <3> HIDE DEF z
      <3>3. Cat(z, PartEnd) \in Seq(Bytes)
        BY <3>2, PartEndIs, CatIs
      <3>4. QED
        BY <3>3 DEF z
    <2> HIDE DEF P
    <2>2. QED
      BY <1>1, <1>2, <2>1
  <1>4. Each(ds, Header, PartEnd) = FlattenSeq(P)
    BY Zenon DEF Each, Parts, Cat
  <1>5. P = [k \in 1..n |-> P[k]]
    BY <1>1, Zenon DEF Parts
  <1> HIDE DEF P
  <1>6. Each(ds, Header, PartEnd) = Joined(P, n)
    BY <1>4, <1>5, Zenon DEF Joined
  <1>7. Pieces(Bytes, P, n)
    BY <1>1, <1>3 DEF Pieces
  <1>8. QED
    BY <1>1, <1>2, <1>6, <1>7 DEF n, P

\* Behind a boundary that is not the last come a header, the data and the next boundary.
LEMMA BehindNext ==
  ASSUME NEW ds, UploadLegal(ds), NEW i \in Nat, i < Len(ds), NEW t, Behind(ds, i, t)
  PROVE  \E u : /\ Behind(ds, i + 1, u)
                /\ t = Cat(Header, Cat(Cat(ds[i + 1], Dashes), Cat(Boundary, u)))
  <1> DEFINE n == Len(ds)
             P == Parts(ds)
             d == ds[i + 1]
             H == Header
             D == Dashes
             B == Boundary
             L == LastDashes
  <1>1. i + 1 \in 1..n /\ Pieces(Bytes, P, n) /\ n \in Nat
    BY PartsAre
  <1>2. d \in Seq(Bytes) /\ P[i + 1] = Cat(Cat(H, d), PartEnd)
    BY <1>1, PartsAre
  <1>3. PICK r : Remains(Bytes, P, n, i, r) /\ t = Cat(r, L)
    BY DEF Behind
  <1>3a. i < n
    OBVIOUS
  <1> HIDE DEF n, P
  <1>4. PICK q : Remains(Bytes, P, n, i + 1, q) /\ r = Cat(P[i + 1], q)
    BY <1>1, <1>3, <1>3a, RemainsNext
  <1>5. q \in Seq(Bytes)
    BY <1>4 DEF Remains
  <1> DEFINE u == Cat(q, L)
  <1>6. H \in Seq(Bytes) /\ D \in Seq(Bytes) /\ B \in Seq(Bytes) /\ L \in Seq(Bytes)
        /\ PartEnd = Cat(D, B)
    BY BoundaryTypes, PartEndIs
  <1> HIDE DEF d, H, D, B, L
  <1>7. u \in Seq(Bytes)
    BY <1>5, <1>6, CatIs
  <1>8. Behind(ds, i + 1, u)
    BY <1>4, <1>7, Zenon DEF Behind, n, P, L
  <1> HIDE DEF u
  <1> DEFINE hd == Cat(H, d)
             db == Cat(D, B)
             dd == Cat(d, D)
             bu == Cat(B, u)
  <1>9. hd \in Seq(Bytes) /\ db \in Seq(Bytes) /\ dd \in Seq(Bytes) /\ bu \in Seq(Bytes)
    BY <1>2, <1>6, <1>7, CatIs
  <1>10. t = Cat(Cat(Cat(hd, db), q), L)
    BY <1>2, <1>3, <1>4, <1>6
  <1>11. Cat(hd, db) \in Seq(Bytes)
    <2> HIDE DEF hd, db
    <2>1. QED
      BY <1>9, CatIs
  <1>12. t = Cat(Cat(hd, db), u)
    <2> DEFINE z == Cat(hd, db)
    <2>1. z \in Seq(Bytes)
      BY <1>11
    <2>2. t = Cat(Cat(z, q), L)
      BY <1>10
    <2> HIDE DEF z
    <2>3. Cat(Cat(z, q), L) = Cat(z, Cat(q, L))
      BY <1>5, <1>6, <2>1, CatAssoc
    <2>4. QED
      BY <2>2, <2>3 DEF u, z
  <1>13. t = Cat(hd, Cat(db, u))
    <2> HIDE DEF hd, db
    <2>1. QED
      BY <1>7, <1>9, <1>12, CatAssoc
  <1>14. Cat(db, u) = Cat(D, bu)
    BY <1>6, <1>7, CatAssoc
  <1>15. t = Cat(hd, Cat(D, bu)) /\ Cat(D, bu) \in Seq(Bytes)
    <2>1. t = Cat(hd, Cat(D, bu))
      BY <1>13, <1>14
    <2>2. Cat(D, bu) \in Seq(Bytes)
      <3> HIDE DEF bu
      <3>1. QED
        BY <1>6, <1>9, CatIs
    <2>3. QED
      BY <2>1, <2>2
  <1>16. t = Cat(H, Cat(d, Cat(D, bu)))
    <2> DEFINE z == Cat(D, bu)
    <2>1. z \in Seq(Bytes) /\ t = Cat(Cat(H, d), z)
      BY <1>15
    <2> HIDE DEF z
    <2>2. Cat(Cat(H, d), z) = Cat(H, Cat(d, z))
      BY <1>2, <1>6, <2>1, CatAssoc
    <2>3. QED
      BY <2>1, <2>2 DEF z
  <1>17. Cat(d, Cat(D, bu)) = Cat(Cat(d, D), bu)
    <2> HIDE DEF bu
    <2>1. QED
      BY <1>2, <1>6, <1>9, CatAssoc
  <1>18. t = Cat(H, Cat(Cat(d, D), bu))
    BY <1>16, <1>17
  <1>19. QED
    BY <1>8, <1>18, Zenon DEF d, H, D, B

\* Behind the last boundary come the last dashes.
LEMMA BehindLast ==
  ASSUME NEW ds, UploadLegal(ds), NEW t, Behind(ds, Len(ds), t)
  PROVE  t = LastDashes
  <1> DEFINE n == Len(ds)
             P == Parts(ds)
  <1>1. Pieces(Bytes, P, n)
    BY PartsAre
  <1>2. PICK r : Remains(Bytes, P, n, n, r) /\ t = Cat(r, LastDashes)
    BY DEF Behind
  <1> HIDE DEF n, P
  <1>3. r = << >>
    BY <1>1, <1>2, RemainsLast
  <1>4. QED
    BY <1>2, <1>3, BoundaryTypes, CatEmpty

\* An upload starts with dashes and the first boundary.
LEMMA BehindStart ==
  ASSUME NEW ds, UploadLegal(ds)
  PROVE  \E y, t : /\ y \in Seq(Bytes) /\ Behind(ds, 0, t) /\ Clean(y)
                  /\ Multipart(ds) = Cat(y, Cat(Boundary, t))
                  /\ Multipart(ds) \in Seq(Bytes)
  <1> DEFINE n == Len(ds)
             P == Parts(ds)
             J == Joined(P, n)
             y == << "-", "-" >>
             f == << "-", "-", "B", "b" >>
             t == Cat(J, LastDashes)
             B == Boundary
             L == LastDashes
  <1>1. Pieces(Bytes, P, n) /\ n \in Nat /\ Each(ds, Header, PartEnd) = J
    BY PartsAre
  <1>2. Multipart(ds) = Cat(Cat(f, J), L)
    BY <1>1, Zenon DEF Multipart, PartEnd, Cat, LastDashes
  <1>3. "B" \in Bytes /\ "b" \in Bytes /\ "-" \in Bytes
    BY DEF Bytes
  <1>4. y \in Seq(Bytes) /\ B \in Seq(Bytes) /\ L \in Seq(Bytes) /\ f \in Seq(Bytes)
    BY <1>3, BoundaryTypes
  <1>5. f = Cat(y, B)
    <2>1. Len(y) = 2 /\ y[1] = "-" /\ y[2] = "-" /\ Len(f) = 4
          /\ f[1] = "-" /\ f[2] = "-" /\ f[3] = "B" /\ f[4] = "b"
      OBVIOUS
    <2>2. Len(B) = 2 /\ B[1] = "B" /\ B[2] = "b"
      BY BoundaryTypes
    <2> HIDE DEF y, f, B
    <2> DEFINE z == Cat(y, B)
    <2>3. z \in Seq(Bytes) /\ IsCat(z, y, B)
      BY <1>4, CatIs
    <2> HIDE DEF z
    <2>4. /\ Len(z) = 4 /\ (\A i \in 1..2 : z[i] = y[i]) /\ (\A i \in 1..2 : z[2 + i] = B[i])
      BY <2>1, <2>2, <2>3 DEF IsCat
    <2>5. 1 \in 1..2 /\ 2 \in 1..2 /\ 2 + 1 = 3 /\ 2 + 2 = 4
      OBVIOUS
    <2>6. z[1] = y[1] /\ z[2] = y[2] /\ z[2 + 1] = B[1] /\ z[2 + 2] = B[2]
      BY <2>4, <2>5
    <2>7. ASSUME NEW i \in 1..4 PROVE f[i] = z[i]
      <3>1. i = 1 \/ i = 2 \/ i = 3 \/ i = 4
        OBVIOUS
      <3>2. z[1] = "-" /\ z[2] = "-" /\ z[3] = "B" /\ z[4] = "b"
        BY <2>1, <2>2, <2>5, <2>6
      <3>3. QED
        BY <2>1, <3>1, <3>2
    <2>8. f = z
      BY <1>4, <2>1, <2>3, <2>4, <2>7, SeqEqual
    <2>9. QED
      BY <2>8 DEF z
  <1>6. Clean(y)
    BY DEF Clean
  <1> HIDE DEF y, f, B, L
  <1>7. Remains(Bytes, P, n, 0, J) /\ J \in Seq(Bytes)
    <2> HIDE DEF P, n
    <2>1. Remains(Bytes, P, n, 0, J)
      BY <1>1, RemainsLast
    <2>2. QED
      BY <2>1 DEF Remains
  <1> HIDE DEF J, P, n
  <1>8. t \in Seq(Bytes)
    BY <1>4, <1>7, CatIs DEF L
  <1>9. Behind(ds, 0, t)
    BY <1>7, <1>8, Zenon DEF Behind, P, n
  <1>10. Cat(Cat(f, J), L) = Cat(f, Cat(J, L))
    BY <1>4, <1>7, CatAssoc
  <1>11. Cat(J, L) = t
    BY DEF L
  <1> HIDE DEF t
  <1>12. Cat(Cat(y, B), t) = Cat(y, Cat(B, t)) /\ Cat(f, t) \in Seq(Bytes)
    <2>1. Cat(Cat(y, B), t) = Cat(y, Cat(B, t))
      BY <1>4, <1>8, CatAssoc
    <2>2. Cat(f, t) \in Seq(Bytes)
      BY <1>4, <1>8, CatIs
    <2>3. QED
      BY <2>1, <2>2
  <1>13. Multipart(ds) = Cat(y, Cat(B, t)) /\ Multipart(ds) \in Seq(Bytes)
    BY <1>2, <1>5, <1>10, <1>11, <1>12
  <1>14. QED
    BY <1>4, <1>6, <1>9, <1>13 DEF B

\* What is behind a boundary is never less than the last dashes.
LEMMA BehindLong ==
  ASSUME NEW ds, UploadLegal(ds), NEW i \in 0..Len(ds), NEW t, Behind(ds, i, t)
  PROVE  /\ t \in Seq(Bytes) /\ Len(t) >= 4
         /\ i < Len(ds) => Len(t) >= 7 /\ t[1] = "r"
  <1>1. Len(ds) \in Nat /\ i \in Nat /\ t \in Seq(Bytes)
    BY PartsAre DEF Behind
  <1>2. CASE i = Len(ds)
    <2>1. t = LastDashes
      BY <1>2, BehindLast
    <2>2. QED
      BY <1>1, <1>2, <2>1, BoundaryTypes
  <1>3. CASE i < Len(ds)
    <2>1. PICK u : /\ Behind(ds, i + 1, u)
                   /\ t = Cat(Header, Cat(Cat(ds[i + 1], Dashes), Cat(Boundary, u)))
      BY <1>1, <1>3, BehindNext
    <2> DEFINE d == ds[i + 1]
               a == Cat(d, Dashes)
               b == Cat(Boundary, u)
               z == Cat(a, b)
    <2>2. d \in Seq(Bytes) /\ u \in Seq(Bytes)
      <3>1. i + 1 \in 1..Len(ds)
        BY <1>1, <1>3
      <3>2. QED
        BY <2>1, <3>1, PartsAre DEF Behind
    <2>3. t = Cat(Header, z)
      BY <2>1
    <2> HIDE DEF d
    <2>4. a \in Seq(Bytes) /\ b \in Seq(Bytes)
      BY <2>2, BoundaryTypes, CatIs
    <2> HIDE DEF a, b
    <2>5. z \in Seq(Bytes)
      BY <2>4, CatIs
    <2> HIDE DEF z
    <2>6. IsCat(t, Header, z)
      BY <2>3, <2>5, BoundaryTypes, CatIs
    <2>7. Len(t) >= 7 /\ t[1] = "r"
      <3>1. Len(Header) = 7 /\ Header[1] = "r" /\ Header \in Seq(Bytes)
        BY BoundaryTypes
      <3>2. 1 \in 1..Len(Header)
        BY <3>1
      <3>3. QED
        BY <2>5, <2>6, <3>1, <3>2 DEF IsCat
    <2>8. QED
      BY <1>1, <2>7
  <1>4. QED
    BY <1>1, <1>2, <1>3

\* What the handler gets of each part, and of the parts before the i-th and e of it.
Told(ds) == [i \in DOMAIN ds |-> Cat(Cat(<< "begin" >>, ds[i]), << "end" >>)]
ToldUpTo(ds, i, e) ==
  IF i = 0 THEN << >> ELSE Cat(Joined(Told(ds), i - 1), Cat(<< "begin" >>, e))

\* What the handler is to get is told of the parts joined.
LEMMA ToldIs ==
  ASSUME NEW ds, UploadLegal(ds)
  PROVE  /\ Pieces(Bytes, Told(ds), Len(ds))
         /\ \A i \in 1..Len(ds) : Told(ds)[i] = Cat(Cat(<< "begin" >>, ds[i]), << "end" >>)
         /\ PartEvents(ds) = Cat(Joined(Told(ds), Len(ds)), << "request_end" >>)
         /\ << "begin" >> \in Seq(Bytes) /\ << "end" >> \in Seq(Bytes)
         /\ << "request_end" >> \in Seq(Bytes)
         /\ \A i \in 0..Len(ds) : Joined(Told(ds), i) \in Seq(Bytes)
  <1> DEFINE n == Len(ds)
             P == Told(ds)
             b == << "begin" >>
             e == << "end" >>
  <1>1. n \in Nat /\ \A i \in 1..n : ds[i] \in Seq(Bytes)
    BY PartsAre
  <1>2. DOMAIN ds = 1..n
    BY DEF UploadLegal
  <1>3. \A i \in 1..n : P[i] = Cat(Cat(b, ds[i]), e)
    BY <1>2 DEF Told
  <1>4. b \in Seq(Bytes) /\ e \in Seq(Bytes) /\ << "request_end" >> \in Seq(Bytes)
    <2>1. "begin" \in Bytes /\ "end" \in Bytes /\ "request_end" \in Bytes
      BY DEF Bytes
    <2>2. QED
      BY <2>1
  <1>5. P = [k \in 1..n |-> P[k]]
    BY <1>2, Zenon DEF Told
  <1>6. Each(ds, b, e) = FlattenSeq(P)
    BY Zenon DEF Each, Told, Cat
  <1> HIDE DEF P
  <1>7. Each(ds, b, e) = Joined(P, n)
    BY <1>5, <1>6, Zenon DEF Joined
  <1>8. PartEvents(ds) = Cat(Joined(P, n), << "request_end" >>)
    BY <1>7, Zenon DEF PartEvents, Cat
  <1> HIDE DEF b, e, n
  <1>9. \A i \in 1..n : P[i] \in Seq(Bytes)
    <2>1. ASSUME NEW d \in Seq(Bytes) PROVE Cat(Cat(b, d), e) \in Seq(Bytes)
      <3>1. Cat(b, d) \in Seq(Bytes)
        BY <1>4, CatIs
      <3> DEFINE z == Cat(b, d)
      <3>2. z \in Seq(Bytes)
        BY <3>1
      <3> HIDE DEF z
      <3>3. Cat(z, e) \in Seq(Bytes)
        BY <1>4, <3>2, CatIs
      <3>4. QED
        BY <3>3 DEF z
    <2>2. QED
      BY <1>1, <1>3, <2>1
  <1>10. Pieces(Bytes, P, n)
    BY <1>1, <1>9 DEF Pieces
  <1>11. \A i \in 0..n : Joined(P, i) \in Seq(Bytes)
    BY <1>10, JoinedSeq
  <1>12. QED
    BY <1>3, <1>4, <1>8, <1>10, <1>11 DEF P, n, b, e

\* The end of a part, and the beginning of the next.
LEMMA ToldNext ==
  ASSUME NEW ds, UploadLegal(ds), NEW i \in 1..Len(ds)
  PROVE  /\ ToldUpTo(ds, i, ds[i]) \in Seq(Bytes)
         /\ ToldUpTo(ds, i, ds[i]) \o << "end" >> = Joined(Told(ds), i)
         /\ ToldUpTo(ds, i + 1, << >>) = Cat(Joined(Told(ds), i), << "begin" >>)
         /\ ToldUpTo(ds, i + 1, << >>) \in Seq(Bytes)
  <1> DEFINE j == i - 1
             P == Told(ds)
             b == << "begin" >>
             e == << "end" >>
             d == ds[i]
             x == Joined(P, j)
             w == Joined(P, i)
  <1>1. /\ i # 0 /\ i + 1 # 0 /\ (i + 1) - 1 = i /\ j \in Nat /\ j + 1 = i
        /\ Len(ds) \in Nat
        /\ j \in 0..Len(ds) /\ i \in 0..Len(ds)
    BY PartsAre
  <1>2. d \in Seq(Bytes)
    BY PartsAre
  <1>3. /\ b \in Seq(Bytes) /\ e \in Seq(Bytes) /\ x \in Seq(Bytes) /\ w \in Seq(Bytes)
        /\ P[i] = Cat(Cat(b, d), e)
    BY <1>1, ToldIs
  <1> HIDE DEF P, b, e, d
  <1> DEFINE bd == Cat(b, d)
             xbd == Cat(x, bd)
  <1>4. bd \in Seq(Bytes)
    BY <1>2, <1>3, CatIs
  <1>5. w = Cat(x, Cat(bd, e))
    <2>1. P[j + 1] \in Seq(Bytes)
      <3>1. i \in 1..Len(ds)
        OBVIOUS
      <3>2. P[i] \in Seq(Bytes)
        BY <3>1, ToldIs DEF Pieces, P
      <3>3. QED
        BY <1>1, <3>2
    <2> HIDE DEF j
    <2>2. Joined(P, j + 1) = Cat(Joined(P, j), P[j + 1])
      BY <1>1, <2>1, JoinedNext
    <2>3. QED
      BY <1>1, <1>3, <2>2
  <1> HIDE DEF x, w, bd
  <1>6. xbd \in Seq(Bytes) /\ Cat(xbd, e) = w
    <2>1. Cat(xbd, e) = Cat(x, Cat(bd, e))
      BY <1>3, <1>4, CatAssoc
    <2>2. xbd \in Seq(Bytes)
      BY <1>3, <1>4, CatIs
    <2>3. QED
      BY <1>5, <2>1, <2>2
  <1> HIDE DEF xbd
  <1>7. ToldUpTo(ds, i, d) = xbd
    BY <1>1, Zenon DEF ToldUpTo, xbd, bd, x, b, j, P
  <1>8. ToldUpTo(ds, i, d) \o e = w
    BY <1>6, <1>7, Zenon DEF Cat
  <1>9. Cat(b, << >>) = b
    BY <1>3, CatEmpty
  <1>10. ToldUpTo(ds, i + 1, << >>) = Cat(w, b)
    BY <1>1, <1>9, Zenon DEF ToldUpTo, w, b, P
  <1>11. Cat(w, b) \in Seq(Bytes)
    BY <1>3, CatIs
  <1>12. QED
    BY <1>6, <1>7, <1>8, <1>10, <1>11, Zenon DEF d, e, w, b, P

\* More data of a part.
LEMMA ToldMore ==
  ASSUME NEW ds, UploadLegal(ds), NEW i \in 1..Len(ds), NEW e \in Seq(Bytes), NEW f \in Seq(Bytes)
  PROVE  /\ ToldUpTo(ds, i, e) \in Seq(Bytes)
         /\ ToldUpTo(ds, i, e) \o f = ToldUpTo(ds, i, Cat(e, f))
  <1> DEFINE x == Joined(Told(ds), i - 1)
             b == << "begin" >>
             be == Cat(b, e)
  <1>1. x \in Seq(Bytes) /\ b \in Seq(Bytes) /\ i # 0
    <2>1. i - 1 \in 0..Len(ds) /\ i # 0
      BY PartsAre
    <2>2. QED
      BY <2>1, ToldIs
  <1> HIDE DEF x, b
  <1>2. be \in Seq(Bytes)
    BY <1>1, CatIs
  <1>3. Cat(be, f) = Cat(b, Cat(e, f))
    BY <1>1, CatAssoc
  <1> HIDE DEF be
  <1>4. Cat(Cat(x, be), f) = Cat(x, Cat(be, f)) /\ Cat(x, be) \in Seq(Bytes)
    <2>1. Cat(Cat(x, be), f) = Cat(x, Cat(be, f))
      BY <1>1, <1>2, CatAssoc
    <2>2. Cat(x, be) \in Seq(Bytes)
      BY <1>1, <1>2, CatIs
    <2>3. QED
      BY <2>1, <2>2
  <1>5. ToldUpTo(ds, i, e) = Cat(x, be)
        /\ ToldUpTo(ds, i, Cat(e, f)) = Cat(x, Cat(b, Cat(e, f)))
    BY <1>1, Zenon DEF ToldUpTo, x, b, be
  <1>6. Cat(Cat(x, be), f) = ToldUpTo(ds, i, Cat(e, f))
    BY <1>3, <1>4, <1>5
  <1>7. ToldUpTo(ds, i, e) \o f = Cat(Cat(x, be), f)
    BY <1>5, Zenon DEF Cat
  <1>8. QED
    BY <1>4, <1>5, <1>6, <1>7

\* What is told of a part not yet ended begins all there is to tell.
LEMMA ToldFirst ==
  ASSUME NEW ds, UploadLegal(ds), NEW i \in 0..Len(ds), NEW e \in Seq(Bytes), NEW f \in Seq(Bytes),
         i > 0 => ds[i] = Cat(e, f)
  PROVE  \E r \in Seq(Bytes) : PartEvents(ds) = Cat(ToldUpTo(ds, i, e), r)
  <1> DEFINE n == Len(ds)
             P == Told(ds)
             q == << "request_end" >>
             en == << "end" >>
  <1>1. /\ n \in Nat /\ Pieces(Bytes, P, n) /\ PartEvents(ds) = Cat(Joined(P, n), q)
        /\ q \in Seq(Bytes) /\ en \in Seq(Bytes)
        /\ \A k \in 0..n : Joined(P, k) \in Seq(Bytes)
    BY PartsAre, ToldIs
  <1> HIDE DEF P, q, en
  <1>2. CASE i = 0
    <2>1. ToldUpTo(ds, i, e) = << >>
      BY <1>2 DEF ToldUpTo
    <2>2. PartEvents(ds) \in Seq(Bytes)
      <3> DEFINE z == Joined(P, n)
      <3>1. z \in Seq(Bytes)
        BY <1>1
      <3> HIDE DEF z
      <3>2. Cat(z, q) \in Seq(Bytes)
        BY <1>1, <3>1, CatIs
      <3>3. QED
        BY <1>1, <3>2 DEF z
    <2>3. Cat(<< >>, PartEvents(ds)) = PartEvents(ds)
      BY <2>2, CatEmpty
    <2>4. QED
      BY <2>1, <2>2, <2>3
  <1>3. CASE i # 0
    <2> DEFINE z == Joined(P, n)
               x == ToldUpTo(ds, i, e)
    <2>1. i \in 1..n /\ i \in 0..n /\ ds[i] = Cat(e, f)
      BY <1>1, <1>3
    <2>2. PICK s : Remains(Bytes, P, n, i, s)
      <3> HIDE DEF n
      <3>1. QED
        BY <1>1, <2>1, RemainsExists
    <2>3. s \in Seq(Bytes) /\ z = Cat(Joined(P, i), s)
      BY <2>2 DEF Remains
    <2>4. x \in Seq(Bytes) /\ x \o f = ToldUpTo(ds, i, ds[i])
      BY <2>1, ToldMore
    <2>5. ToldUpTo(ds, i, ds[i]) \o en = Joined(P, i)
      BY <2>1, ToldNext DEF en, P
    <2> HIDE DEF x, z
    <2>6. Joined(P, i) = Cat(Cat(x, f), en)
      BY <2>4, <2>5, Zenon DEF Cat
    <2>7. PartEvents(ds) = Cat(Cat(Cat(Cat(x, f), en), s), q)
      BY <1>1, <2>3, <2>6 DEF z
    <2> DEFINE sq == Cat(s, q)
               esq == Cat(en, sq)
    <2>8. sq \in Seq(Bytes) /\ Cat(x, f) \in Seq(Bytes)
      BY <1>1, <2>3, <2>4, CatIs
    <2>9. Cat(Cat(Cat(Cat(x, f), en), s), q) = Cat(Cat(Cat(x, f), en), sq)
      <3> DEFINE y == Cat(Cat(x, f), en)
      <3>1. y \in Seq(Bytes)
        <4> DEFINE v == Cat(x, f)
        <4>1. v \in Seq(Bytes)
          BY <2>8
        <4> HIDE DEF v
        <4>2. Cat(v, en) \in Seq(Bytes)
          BY <1>1, <4>1, CatIs
        <4>3. QED
          BY <4>2 DEF v
      <3> HIDE DEF y
      <3>2. Cat(Cat(y, s), q) = Cat(y, Cat(s, q))
        BY <1>1, <2>3, <3>1, CatAssoc
      <3>3. QED
        BY <3>2 DEF y
    <2> HIDE DEF sq
    <2>10. Cat(Cat(Cat(x, f), en), sq) = Cat(Cat(x, f), esq) /\ esq \in Seq(Bytes)
      <3> DEFINE v == Cat(x, f)
      <3>1. v \in Seq(Bytes)
        BY <2>8
      <3> HIDE DEF v
      <3>2. Cat(Cat(v, en), sq) = Cat(v, Cat(en, sq))
        BY <1>1, <2>8, <3>1, CatAssoc
      <3>3. Cat(en, sq) \in Seq(Bytes)
        BY <1>1, <2>8, CatIs
      <3>4. QED
        BY <3>2, <3>3 DEF v
    <2> HIDE DEF esq
    <2>11. Cat(Cat(x, f), esq) = Cat(x, Cat(f, esq)) /\ Cat(f, esq) \in Seq(Bytes)
      <3>1. Cat(Cat(x, f), esq) = Cat(x, Cat(f, esq))
        BY <2>4, <2>10, CatAssoc
      <3>2. Cat(f, esq) \in Seq(Bytes)
        BY <2>10, CatIs
      <3>3. QED
        BY <3>1, <3>2
    <2>12. PartEvents(ds) = Cat(x, Cat(f, esq))
      BY <2>7, <2>9, <2>10, <2>11
    <2>13. QED
      BY <2>11, <2>12 DEF x
  <1>4. QED
    BY <1>2, <1>3

\* A connection that receives an upload.
MultipartSet ==
  [buf : Seq(Bytes),
   state : {"WAITING_FOR_BOUNDARY", "GOT_BOUNDARY", "WAITING_FOR_CHUNK", "GOT_CHUNK",
            "FINALIZE", "FINISHED"},
   prev_io_len : Nat, processing_part : Nat, events : Seq(Bytes)]

\* The i-th part is being read, of which the handler has got e; then come y, the
\* boundary and t.
PartAt(c, ds, inp, i, y, t, e) ==
  /\ c \in MultipartSet /\ inp \in Seq(Bytes) /\ i \in 0..Len(ds)
  /\ y \in Seq(Bytes) /\ Clean(y) /\ Behind(ds, i, t)
  /\ Cat(c.buf, inp) = Cat(y, Cat(Boundary, t))
  /\ c.processing_part = i /\ c.prev_io_len <= Len(c.buf)
  /\ c.events = ToldUpTo(ds, i, e)

\* All of the part is handed on.
PartRead(c, ds, inp, i, y, t) ==
  PartAt(c, ds, inp, i, y, t, ds[i]) /\ c.prev_io_len = 0

\* d of it is not.
PartLeft(c, ds, inp, i, d, t, e) ==
  /\ PartAt(c, ds, inp, i, Cat(d, Dashes), t, e)
  /\ i > 0 /\ d \in Seq(Bytes) /\ e \in Seq(Bytes) /\ ds[i] = Cat(e, d)

\* wait_for_boundary: the handler has got all of the part before the boundary.
AtBoundary(c, ds, inp) ==
  c.state = "WAITING_FOR_BOUNDARY" /\ \E i, y, t : PartRead(c, ds, inp, i, y, t)

\* process_boundary: the boundary is there, and is not the last.
OnBoundary(c, ds, inp) ==
  /\ c.state = "GOT_BOUNDARY"
  /\ \E i, y, t : PartRead(c, ds, inp, i, y, t) /\ i < Len(ds) /\ Len(c.buf) >= Len(y) + 2

\* wait_for_chunk: what is left of the part follows.
AtChunk(c, ds, inp) ==
  c.state = "WAITING_FOR_CHUNK" /\ \E i, d, t, e : PartLeft(c, ds, inp, i, d, t, e)

\* got_chunk: there is data, and no boundary yet.
OnChunk(c, ds, inp) ==
  /\ c.state = "GOT_CHUNK" /\ c.prev_io_len > 0 /\ Len(c.buf) > c.prev_io_len + 6
  /\ BoundaryAt(c.buf) < 0
  /\ \E i, d, t, e : PartLeft(c, ds, inp, i, d, t, e)

\* finalize: the last boundary has been read.
AtEnd(c, ds, inp) ==
  /\ c.state = "FINALIZE" /\ c \in MultipartSet /\ c.buf = << >> /\ inp = << >>
  /\ c.events = ToldUpTo(ds, Len(ds), ds[Len(ds)]) /\ c.prev_io_len = 0

\* The upload is read, and the handler has been told so.
AllRead(c, ds, inp) ==
  /\ c.state = "FINISHED" /\ c \in MultipartSet /\ c.buf = << >> /\ inp = << >>
  /\ c.events = PartEvents(ds) /\ c.prev_io_len = 0

\* The states in which a turn of the loop begins.
Reading(c, ds, inp) ==
  \/ AtBoundary(c, ds, inp) \/ OnBoundary(c, ds, inp) \/ AtChunk(c, ds, inp)
  \/ OnChunk(c, ds, inp) \/ AtEnd(c, ds, inp) \/ AllRead(c, ds, inp)

\* Where the parser waits for what has not arrived, or has all.
Waiting(c, ds, inp) ==
  \/ (AtBoundary(c, ds, inp) \/ AtChunk(c, ds, inp)) /\ inp # << >>
  \/ AllRead(c, ds, inp)

\* Goes down with every step that does not wait.
Work(c) ==
  2 * Len(c.buf) + (IF c.state \in {"GOT_BOUNDARY", "GOT_CHUNK"} THEN 0 ELSE 1)

\* A turn keeps the invariant; it goes on with less work left, or has to wait.
StepIs(c, ds, inp, g) ==
  /\ g.more \in BOOLEAN
  /\ g.more => Reading(g.c, ds, inp) /\ Work(g.c) < Work(c)
  /\ ~g.more => Waiting(g.c, ds, inp)

\* A step that waits keeps the invariant, if it waits for what has not arrived.
LEMMA WaitIs ==
  ASSUME NEW ds, NEW c, NEW inp, NEW e, Waiting(e, ds, inp)
  PROVE  StepIs(c, ds, inp, Wait(e))
  BY DEF Wait, StepIs

\* A step that goes on keeps the invariant, if less work is left.
LEMMA GoOnIs ==
  ASSUME NEW ds, NEW c, NEW inp, NEW e, Reading(e, ds, inp), Work(e) < Work(c)
  PROVE  StepIs(c, ds, inp, GoOn(e))
  BY DEF GoOn, StepIs

\* What PartAt tells of the boundary in the buffer.
LEMMA PartFound ==
  ASSUME NEW ds, UploadLegal(ds), NEW inp, NEW i, NEW y, NEW t, NEW e, NEW c,
         PartAt(c, ds, inp, i, y, t, e)
  PROVE  /\ BoundaryFound(c.buf, inp, y, t)
         /\ c.buf \in Seq(Bytes) /\ Len(c.buf) \in Nat /\ Len(y) \in Nat /\ t \in Seq(Bytes)
         /\ Len(t) \in Nat /\ Len(t) >= 4 /\ (i < Len(ds) => Len(t) >= 7 /\ t[1] = "r")
         /\ BoundaryAt(c.buf) = -1 \/ BoundaryAt(c.buf) = Len(y)
         /\ BoundaryAt(c.buf) < 0 <=> Len(c.buf) < Len(y) + 2
         /\ inp = << >> => Len(c.buf) = Len(y) + 2 + Len(t)
         /\ BoundaryAt(c.buf) >= 0 =>
              /\ BoundaryAt(c.buf) = Len(y)
              /\ \E r \in Seq(Bytes) : c.buf = Cat(Cat(y, Boundary), r) /\ t = Cat(r, inp)
  <1>1. /\ c \in MultipartSet /\ inp \in Seq(Bytes) /\ i \in 0..Len(ds)
        /\ y \in Seq(Bytes) /\ Clean(y) /\ Behind(ds, i, t)
        /\ Cat(c.buf, inp) = Cat(y, Cat(Boundary, t))
    BY DEF PartAt
  <1>2. c.buf \in Seq(Bytes)
    BY <1>1 DEF MultipartSet
  <1>3. t \in Seq(Bytes) /\ Len(t) >= 4 /\ (i < Len(ds) => Len(t) >= 7 /\ t[1] = "r")
    BY <1>1, BehindLong
  <1>4. Len(c.buf) \in Nat /\ Len(y) \in Nat /\ Len(t) \in Nat
    BY <1>1, <1>2, <1>3
  <1>5. BoundaryFound(c.buf, inp, y, t)
    <2> DEFINE b == c.buf
    <2>1. b \in Seq(Bytes) /\ Cat(b, inp) = Cat(y, Cat(Boundary, t))
      BY <1>1, <1>2
    <2> HIDE DEF b
    <2>2. BoundaryFound(b, inp, y, t)
      BY <1>1, <1>3, <2>1, BoundaryIs
    <2>3. QED
      BY <2>2 DEF b
  <1>6. /\ Len(c.buf) < Len(y) + 2 => BoundaryAt(c.buf) = -1
        /\ Len(c.buf) >= Len(y) + 2 =>
             /\ BoundaryAt(c.buf) = Len(y)
             /\ \E r \in Seq(Bytes) : c.buf = Cat(Cat(y, Boundary), r) /\ t = Cat(r, inp)
        /\ inp = << >> => Len(c.buf) = Len(y) + 2 + Len(t)
    BY <1>5 DEF BoundaryFound
  <1>7. BoundaryAt(c.buf) < 0 <=> Len(c.buf) < Len(y) + 2
    BY <1>4, <1>6
  <1>8. BoundaryAt(c.buf) >= 0 => Len(c.buf) >= Len(y) + 2
    BY <1>4, <1>6
  <1>9. BoundaryAt(c.buf) = -1 \/ BoundaryAt(c.buf) = Len(y)
    BY <1>4, <1>6
  <1>10. QED
    BY <1>2, <1>3, <1>4, <1>5, <1>6, <1>7, <1>8, <1>9

\* The buffer behind the boundary.
LEMMA BehindIs ==
  ASSUME NEW y \in Seq(Bytes), NEW r \in Seq(Bytes)
  PROVE  /\ After(Cat(Cat(y, Boundary), r), Len(y) + 2) = r
         /\ After(Cat(Cat(y, Boundary), r), Len(y)) = Cat(Boundary, r)
         /\ Len(Cat(Cat(y, Boundary), r)) = Len(y) + 2 + Len(r)
         /\ SubSeq(Cat(Cat(y, Boundary), r), 1, Len(y)) = y
  <1> DEFINE yb == Cat(y, Boundary)
             br == Cat(Boundary, r)
             x == Cat(yb, r)
  <1>1. Boundary \in Seq(Bytes) /\ Len(Boundary) = 2
    BY BoundaryTypes
  <1>2. yb \in Seq(Bytes) /\ br \in Seq(Bytes) /\ IsCat(yb, y, Boundary)
    BY <1>1, CatIs
  <1>3. x = Cat(y, br)
    BY <1>1, CatAssoc
  <1>4. Len(yb) = Len(y) + 2
    BY <1>1, <1>2 DEF IsCat
  <1> HIDE DEF yb, br
  <1>5. Cuts(x, yb, r)
    BY <1>2, CatCuts
  <1>6. Cuts(Cat(y, br), y, br)
    BY <1>2, CatCuts
  <1> HIDE DEF x
  <1>7. QED
    BY <1>3, <1>4, <1>5, <1>6 DEF Cuts, After, x, yb, br

\* The last dashes are where the last boundary is, and nowhere else.
LEMMA DashesEnd ==
  ASSUME NEW ds, UploadLegal(ds), NEW i \in 0..Len(ds), NEW t, Behind(ds, i, t),
         NEW inp \in Seq(Bytes), NEW r \in Seq(Bytes), t = Cat(r, inp), Len(r) >= 4
  PROVE  /\ SubSeq(r, 1, 4) = LastDashes => i = Len(ds) /\ After(r, 4) = << >> /\ inp = << >>
         /\ SubSeq(r, 1, 4) # LastDashes => i < Len(ds)
  <1> DEFINE L == LastDashes
  <1>1. L \in Seq(Bytes) /\ Len(L) = 4 /\ L[1] = "-" /\ Len(r) \in Nat
        /\ Len(inp) \in Nat /\ Len(ds) \in Nat
    BY BoundaryTypes, PartsAre
  <1>2. IsCat(t, r, inp)
    <2>1. IsCat(Cat(r, inp), r, inp)
      BY CatIs
    <2>2. QED
      BY <2>1
  <1>3. CASE i = Len(ds)
    <2>1. t = L
      BY <1>3, BehindLast
    <2>2. Len(inp) = 0 /\ Len(r) = 4
      <3>1. Len(t) = Len(r) + Len(inp)
        BY <1>2 DEF IsCat
      <3>2. Len(t) = 4
        BY <1>1, <2>1
      <3> DEFINE a == Len(r)
                 k == Len(inp)
      <3>3. a \in Nat /\ k \in Nat /\ a + k = 4 /\ a >= 4
        BY <1>1, <3>1, <3>2
      <3> HIDE DEF a, k
      <3>4. k = 0 /\ a = 4
        BY <3>3
      <3>5. QED
        BY <3>4 DEF a, k
    <2>3. inp = << >>
      BY <2>2, CatEmpty
    <2>4. r = L
      BY <2>1, <2>3, CatEmpty
    <2> HIDE DEF L
    <2>5. SubSeq(r, 1, 4) = L
      BY <1>1, <2>4, SubSeqFull
    <2>6. After(r, 4) = << >>
      BY <1>1, <2>2 DEF After
    <2>7. QED
      BY <1>1, <1>3, <2>3, <2>5, <2>6 DEF L
  <1>4. CASE i # Len(ds)
    <2>1. i < Len(ds)
      BY <1>1, <1>4
    <2>2. t[1] = "r"
      BY <2>1, BehindLong
    <2>3. r[1] = "r"
      <3>1. 1 \in 1..Len(r)
        BY <1>1
      <3>2. QED
        BY <1>2, <2>2, <3>1 DEF IsCat
    <2>4. SubSeq(r, 1, 4)[1] = r[1]
      <3>1. SubSeq(r, 1, 4)[1] = r[1 + 1 - 1]
        <4>1. 1 \in 1..4 /\ 4 \in 1..Len(r)
          BY <1>1
        <4>2. QED
          BY <4>1
      <3>2. QED
        BY <3>1
    <2>5. SubSeq(r, 1, 4) # L
      BY <1>1, <2>3, <2>4
    <2>6. QED
      BY <2>1, <2>5
  <1>5. QED
    BY <1>3, <1>4

\* wait_for_boundary goes on, or what it waits for has not arrived.
LEMMA WaitForBoundary ==
  ASSUME NEW ds, UploadLegal(ds), NEW inp, NEW c, AtBoundary(c, ds, inp)
  PROVE  StepIs(c, ds, inp, wait_for_boundary(c))
  <1> DEFINE b == BoundaryAt(c.buf)
             rest == After(c.buf, b + BoundaryLen)
             f == [c EXCEPT !.state = "FINALIZE", !.buf = After(rest, 4)]
             g == [c EXCEPT !.state = "GOT_BOUNDARY"]
  <1>1. PICK i, y, t : PartRead(c, ds, inp, i, y, t)
    BY DEF AtBoundary
  <1>2. PartAt(c, ds, inp, i, y, t, ds[i]) /\ c.prev_io_len = 0
        /\ c.state = "WAITING_FOR_BOUNDARY"
    BY <1>1 DEF PartRead, AtBoundary
  <1>3. /\ c.buf \in Seq(Bytes) /\ Len(c.buf) \in Nat /\ Len(y) \in Nat /\ t \in Seq(Bytes)
        /\ Len(t) \in Nat /\ Len(t) >= 4
        /\ b = -1 \/ b = Len(y)
        /\ b < 0 <=> Len(c.buf) < Len(y) + 2
        /\ inp = << >> => Len(c.buf) = Len(y) + 2 + Len(t)
        /\ b >= 0 =>
              /\ b = Len(y)
              /\ \E r \in Seq(Bytes) : c.buf = Cat(Cat(y, Boundary), r) /\ t = Cat(r, inp)
    BY <1>2, PartFound
  <1>4. y \in Seq(Bytes) /\ inp \in Seq(Bytes) /\ i \in 0..Len(ds) /\ Behind(ds, i, t)
        /\ c \in MultipartSet
    BY <1>2 DEF PartAt
  <1>5. ASSUME inp # << >> PROVE StepIs(c, ds, inp, Wait(c))
    <2>1. Waiting(c, ds, inp)
      BY <1>1, <1>2, <1>5 DEF Waiting, AtBoundary
    <2>2. QED
      BY <2>1, WaitIs
  <1> HIDE DEF b
  <1>6. CASE Len(c.buf) < 4 \/ b < 0
    <2>1. inp # << >>
      BY <1>3, <1>6
    <2>2. wait_for_boundary(c) = Wait(c)
      BY <1>6 DEF wait_for_boundary, BoundaryLen, b
    <2>3. QED
      BY <1>5, <2>1, <2>2
  <1>7. CASE ~(Len(c.buf) < 4 \/ b < 0)
    <2>1. b >= 0 /\ b = Len(y)
      BY <1>3, <1>7
    <2>2. PICK r \in Seq(Bytes) : c.buf = Cat(Cat(y, Boundary), r) /\ t = Cat(r, inp)
      BY <1>3, <2>1
    <2>3. rest = r /\ Len(c.buf) = Len(y) + 2 + Len(r)
      BY <1>4, <2>1, <2>2, BehindIs DEF BoundaryLen
    <2>4. Len(r) \in Nat
      OBVIOUS
    <2> HIDE DEF rest
    <2>5. CASE Len(r) < 4
      <3>1. inp # << >>
        BY <1>3, <2>3, <2>4, <2>5
      <3>2. wait_for_boundary(c) = Wait(c)
        BY <2>3, <2>5 DEF wait_for_boundary, b, rest
      <3>3. QED
        BY <1>5, <3>1, <3>2
    <2>6. CASE ~(Len(r) < 4)
      <3>1. /\ SubSeq(r, 1, 4) = LastDashes => i = Len(ds) /\ After(r, 4) = << >> /\ inp = << >>
            /\ SubSeq(r, 1, 4) # LastDashes => i < Len(ds)
        BY <1>4, <2>2, <2>4, <2>6, DashesEnd
      <3>2. wait_for_boundary(c) = IF SubSeq(r, 1, 4) = LastDashes THEN GoOn(f) ELSE GoOn(g)
        <4>1. ~(Len(rest) < 4)
          BY <2>3, <2>6
        <4>2. ~(Len(c.buf) < BoundaryLen + 2 \/ b < 0 \/ Len(rest) < 4)
          BY <1>7, <4>1 DEF BoundaryLen
        <4>3. wait_for_boundary(c) = IF SubSeq(rest, 1, 4) = LastDashes THEN GoOn(f) ELSE GoOn(g)
          BY <4>2, Zenon DEF wait_for_boundary, LastDashes, b, rest
        <4> HIDE DEF f, g
        <4>4. QED
          BY <2>3, <4>3
      <3>3. CASE SubSeq(r, 1, 4) = LastDashes
        <4>1. i = Len(ds) /\ After(rest, 4) = << >> /\ inp = << >>
          BY <2>3, <3>1, <3>3
        <4>2. f = [c EXCEPT !.state = "FINALIZE", !.buf = << >>] /\ << >> \in Seq(Bytes)
          <5>1. f = [c EXCEPT !.state = "FINALIZE", !.buf = << >>]
            BY <4>1, Zenon
          <5>2. << >> \in Seq(Bytes)
            OBVIOUS
          <5> HIDE DEF f
          <5>3. QED
            BY <5>1, <5>2
        <4>3. f \in MultipartSet /\ f.state = "FINALIZE" /\ f.buf = << >>
              /\ f.events = c.events /\ f.prev_io_len = c.prev_io_len
          BY <1>4, <4>2 DEF MultipartSet
        <4> HIDE DEF f
        <4>4. f.events = ToldUpTo(ds, Len(ds), ds[Len(ds)])
          BY <1>2, <4>1, <4>3 DEF PartAt
        <4>5. AtEnd(f, ds, inp)
          BY <1>2, <4>1, <4>3, <4>4 DEF AtEnd
        <4>6. Work(f) < Work(c)
          <5>1. Work(f) = 1
            BY <4>3 DEF Work
          <5>2. Work(c) = 2 * Len(c.buf) + 1
            BY <1>2 DEF Work
          <5>3. QED
            BY <1>3, <1>7, <5>1, <5>2
        <4>7. QED
          BY <3>2, <3>3, <4>5, <4>6, GoOnIs DEF Reading
      <3>4. CASE SubSeq(r, 1, 4) # LastDashes
        <4>1. i < Len(ds)
          BY <3>1, <3>4
        <4>2. /\ g \in MultipartSet /\ g.state = "GOT_BOUNDARY" /\ g.buf = c.buf
              /\ g.events = c.events
              /\ g.prev_io_len = c.prev_io_len /\ g.processing_part = c.processing_part
          BY <1>4 DEF MultipartSet
        <4> HIDE DEF g
        <4>3. PartRead(g, ds, inp, i, y, t)
          BY <1>2, <4>2 DEF PartRead, PartAt
        <4>4. Len(g.buf) >= Len(y) + 2
          BY <1>3, <2>3, <2>4, <4>2
        <4>5. OnBoundary(g, ds, inp)
          BY <4>1, <4>2, <4>3, <4>4 DEF OnBoundary
        <4>6. Work(g) < Work(c)
          <5>1. Work(g) = 2 * Len(c.buf) + 0
            BY <4>2 DEF Work
          <5>2. Work(c) = 2 * Len(c.buf) + 1
            BY <1>2 DEF Work
          <5>3. QED
            BY <1>3, <5>1, <5>2
        <4>7. QED
          BY <3>2, <3>4, <4>5, <4>6, GoOnIs DEF Reading
      <3>5. QED
        BY <3>3, <3>4
    <2>7. QED
      BY <2>5, <2>6
  <1>8. QED
    BY <1>6, <1>7

\* process_boundary takes the header of a part, or goes back until it is complete.
LEMMA ProcessBoundary ==
  ASSUME NEW ds, UploadLegal(ds), NEW inp, NEW c, OnBoundary(c, ds, inp)
  PROVE  StepIs(c, ds, inp, process_boundary(c))
  <1> DEFINE b == BoundaryAt(c.buf)
             rest == After(c.buf, b + BoundaryLen)
             w == [c EXCEPT !.state = "WAITING_FOR_BOUNDARY"]
             ev == (IF c.processing_part = 0 THEN c.events ELSE Append(c.events, "end")) \o << "begin" >>
             g == [c EXCEPT !.state = "WAITING_FOR_CHUNK",
                            !.buf = After(rest, Len(Header)),
                            !.processing_part = @ + 1,
                            !.events = (IF c.processing_part = 0 THEN @ ELSE Append(@, "end"))
                                       \o << "begin" >>]
  <1>1. PICK i, y, t : PartRead(c, ds, inp, i, y, t) /\ i < Len(ds)
        /\ Len(c.buf) >= Len(y) + 2
    BY DEF OnBoundary
  <1>2. PartAt(c, ds, inp, i, y, t, ds[i]) /\ c.prev_io_len = 0 /\ c.state = "GOT_BOUNDARY"
    BY <1>1 DEF PartRead, OnBoundary
  <1>3. /\ c.buf \in Seq(Bytes) /\ Len(c.buf) \in Nat /\ Len(y) \in Nat /\ t \in Seq(Bytes)
        /\ Len(t) \in Nat /\ Len(t) >= 7
        /\ b < 0 <=> Len(c.buf) < Len(y) + 2
        /\ b = -1 \/ b = Len(y)
        /\ inp = << >> => Len(c.buf) = Len(y) + 2 + Len(t)
        /\ b >= 0 =>
              /\ b = Len(y)
              /\ \E r \in Seq(Bytes) : c.buf = Cat(Cat(y, Boundary), r) /\ t = Cat(r, inp)
    BY <1>1, <1>2, PartFound
  <1>4. y \in Seq(Bytes) /\ inp \in Seq(Bytes) /\ i \in 0..Len(ds) /\ Behind(ds, i, t)
        /\ c \in MultipartSet
        /\ c.processing_part = i /\ c.events = ToldUpTo(ds, i, ds[i])
        /\ Len(ds) \in Nat /\ i \in Nat
    BY <1>2, PartsAre DEF PartAt
  <1> HIDE DEF b
  <1>5. b >= 0 /\ b = Len(y)
    BY <1>1, <1>3
  <1>6. PICK r \in Seq(Bytes) : c.buf = Cat(Cat(y, Boundary), r) /\ t = Cat(r, inp)
    BY <1>3, <1>5
  <1>7. rest = r /\ Len(c.buf) = Len(y) + 2 + Len(r)
    BY <1>4, <1>5, <1>6, BehindIs DEF BoundaryLen
  <1>8. Len(r) \in Nat /\ Len(Header) = 7 /\ Header \in Seq(Bytes)
    BY BoundaryTypes
  <1> HIDE DEF rest
  <1>9. CASE Len(r) < 7
    <2>1. inp # << >>
      BY <1>3, <1>7, <1>8, <1>9
    <2>2. process_boundary(c) = Wait(w)
      BY <1>7, <1>8, <1>9 DEF process_boundary, b, rest
    <2>3. /\ w \in MultipartSet /\ w.state = "WAITING_FOR_BOUNDARY" /\ w.buf = c.buf
          /\ w.events = c.events
          /\ w.prev_io_len = c.prev_io_len /\ w.processing_part = c.processing_part
      BY <1>4 DEF MultipartSet
    <2> HIDE DEF w
    <2>4. PartRead(w, ds, inp, i, y, t)
      BY <1>2, <2>3 DEF PartRead, PartAt
    <2>5. Waiting(w, ds, inp)
      BY <2>1, <2>3, <2>4 DEF Waiting, AtBoundary
    <2>6. QED
      BY <2>2, <2>5, WaitIs
  <1>10. CASE ~(Len(r) < 7)
    <2>1. process_boundary(c) = GoOn(g)
      BY <1>7, <1>8, <1>10, Zenon DEF process_boundary, b, rest
    <2> DEFINE j == i + 1
               d == ds[j]
               e == << >>
    <2>2. j \in 1..Len(ds) /\ j \in 0..Len(ds) /\ j > 0 /\ j \in Nat
      BY <1>1, <1>4
    <2>3. d \in Seq(Bytes) /\ Clean(d) /\ e \in Seq(Bytes) /\ Cat(e, d) = d
      <3>1. d \in Seq(Bytes) /\ Clean(d)
        BY <2>2, PartsAre
      <3> HIDE DEF d
      <3>2. QED
        BY <3>1, CatEmpty
    <2>4. PICK u : Behind(ds, j, u)
          /\ t = Cat(Header, Cat(Cat(d, Dashes), Cat(Boundary, u)))
      BY <1>1, <1>4, BehindNext
    <2> DEFINE v == Cat(Cat(d, Dashes), Cat(Boundary, u))
    <2>5. /\ Clean(Cat(d, Dashes)) /\ Cat(d, Dashes) \in Seq(Bytes) /\ u \in Seq(Bytes)
          /\ v \in Seq(Bytes)
      <3> HIDE DEF d
      <3>1. Clean(Cat(d, Dashes)) /\ Cat(d, Dashes) \in Seq(Bytes)
        BY <2>3, CleanDashes
      <3>2. u \in Seq(Bytes)
        BY <2>4 DEF Behind
      <3>3. Cat(Boundary, u) \in Seq(Bytes)
        BY <3>2, BoundaryTypes, CatIs
      <3> DEFINE p == Cat(d, Dashes)
                 q == Cat(Boundary, u)
      <3>4. p \in Seq(Bytes) /\ q \in Seq(Bytes)
        BY <3>1, <3>3
      <3> HIDE DEF p, q
      <3>5. Cat(p, q) \in Seq(Bytes)
        BY <3>4, CatIs
      <3>6. QED
        BY <3>1, <3>2, <3>5 DEF p, q
    <2>6. PICK z \in Seq(Bytes) : r = Cat(Header, z) /\ v = Cat(z, inp)
      <3>1. Cat(r, inp) = Cat(Header, v) /\ Len(Header) <= Len(r)
        BY <1>6, <1>8, <1>10, <2>4
      <3> HIDE DEF v
      <3>2. Splits(Bytes, r, inp, Header, v)
        BY <1>4, <1>8, <2>5, <3>1, CatSplits
      <3>3. QED
        BY <3>1, <3>2 DEF Splits
    <2>7. After(rest, Len(Header)) = z /\ Len(r) = 7 + Len(z) /\ Len(z) \in Nat
      <3>1. Cuts(Cat(Header, z), Header, z)
        BY <1>8, CatCuts
      <3>2. QED
        BY <1>7, <1>8, <2>6, <3>1 DEF Cuts, After
    <2>8. ev = ToldUpTo(ds, j, e) /\ ev \in Seq(Bytes)
      <3>1. CASE i = 0
        <4> DEFINE bb == << "begin" >>
        <4>1. c.events = << >>
          BY <1>4, <3>1 DEF ToldUpTo
        <4>2. bb \in Seq(Bytes)
          BY ToldIs
        <4>3. ev = << >> \o bb
          BY <1>4, <3>1, <4>1
        <4> HIDE DEF bb
        <4>4. ev = bb
          BY <4>2, <4>3
        <4>5. j # 0 /\ j - 1 = 0
          BY <3>1
        <4>6. ToldUpTo(ds, j, << >>) = Cat(Joined(Told(ds), 0), Cat(bb, << >>))
          BY <4>5 DEF ToldUpTo, bb
        <4>7. Cat(bb, << >>) = bb /\ Cat(<< >>, bb) = bb
          BY <4>2, CatEmpty
        <4>8. Joined(Told(ds), 0) = << >>
          BY JoinedNone
        <4>9. QED
          BY <4>2, <4>4, <4>6, <4>7, <4>8
      <3>2. CASE i # 0
        <4>1. i \in 1..Len(ds)
          BY <1>4, <3>2
        <4> DEFINE x == ToldUpTo(ds, i, ds[i])
        <4>2. /\ x \in Seq(Bytes) /\ x \o << "end" >> = Joined(Told(ds), i)
              /\ ToldUpTo(ds, j, << >>) = Cat(Joined(Told(ds), i), << "begin" >>)
              /\ ToldUpTo(ds, j, << >>) \in Seq(Bytes)
          BY <4>1, ToldNext
        <4>3. ev = Append(x, "end") \o << "begin" >>
          BY <1>4, <3>2
        <4>4. "end" \in Bytes
          BY DEF Bytes
        <4> HIDE DEF x
        <4>5. Append(x, "end") = x \o << "end" >>
          BY <4>2, <4>4, AppendIsConcat
        <4>6. ev = Cat(Joined(Told(ds), i), << "begin" >>)
          BY <4>2, <4>3, <4>5, Zenon DEF Cat
        <4> HIDE DEF ev
        <4>7. QED
          BY <4>2, <4>6
      <3>3. QED
        BY <3>1, <3>2
    <2>9. g = [c EXCEPT !.state = "WAITING_FOR_CHUNK", !.buf = z, !.processing_part = j, !.events = ev]
      BY <1>4, <2>7
    <2> HIDE DEF g, ev, j, d, v
    <2>10. /\ g \in MultipartSet /\ g.state = "WAITING_FOR_CHUNK" /\ g.buf = z
           /\ g.events = ev
           /\ g.prev_io_len = c.prev_io_len /\ g.processing_part = j
      BY <1>4, <2>2, <2>8, <2>9 DEF MultipartSet
    <2>11. PartAt(g, ds, inp, j, Cat(d, Dashes), u, e)
      <3>1. Cat(g.buf, inp) = Cat(Cat(d, Dashes), Cat(Boundary, u))
        BY <2>6, <2>10 DEF v
      <3>2. g.prev_io_len <= Len(g.buf)
        BY <1>2, <2>7, <2>10
      <3>3. QED
        BY <1>4, <2>2, <2>4, <2>5, <2>8, <2>10, <3>1, <3>2, Zenon DEF PartAt
    <2>12. ds[j] = Cat(e, d)
      BY <2>3 DEF d
    <2>13. PartLeft(g, ds, inp, j, d, u, e)
      BY <2>2, <2>3, <2>11, <2>12, Zenon DEF PartLeft
    <2>14. AtChunk(g, ds, inp)
      BY <2>10, <2>13, Zenon DEF AtChunk
    <2>15. Work(g) < Work(c)
      <3>1. Work(g) = 2 * Len(z) + 1
        BY <2>10 DEF Work
      <3>2. Work(c) = 2 * Len(c.buf) + 0
        BY <1>2 DEF Work
      <3>3. Len(c.buf) >= Len(z) + 9
        BY <1>3, <1>7, <1>8, <2>7
      <3>4. QED
        BY <1>3, <2>7, <3>1, <3>2, <3>3
    <2>16. QED
      BY <2>1, <2>14, <2>15, GoOnIs DEF Reading
  <1>11. QED
    BY <1>9, <1>10

\* What PartLeft tells of the buffer.
LEMMA LeftFound ==
  ASSUME NEW ds, UploadLegal(ds), NEW inp, NEW i, NEW d, NEW t, NEW e, NEW c,
         PartLeft(c, ds, inp, i, d, t, e)
  PROVE  /\ c \in MultipartSet /\ c.buf \in Seq(Bytes) /\ inp \in Seq(Bytes)
         /\ Len(c.buf) \in Nat /\ Len(d) \in Nat /\ c.prev_io_len \in Nat
         /\ i \in 1..Len(ds) /\ d \in Seq(Bytes) /\ e \in Seq(Bytes) /\ ds[i] = Cat(e, d)
         /\ Clean(d) /\ Behind(ds, i, t) /\ t \in Seq(Bytes)
         /\ Cat(c.buf, inp) = Cat(Cat(d, Dashes), Cat(Boundary, t))
         /\ c.processing_part = i /\ c.prev_io_len <= Len(c.buf)
         /\ c.events = ToldUpTo(ds, i, e)
         /\ Cat(d, Dashes) \in Seq(Bytes) /\ Len(Cat(d, Dashes)) = Len(d) + 4
         /\ BoundaryAt(c.buf) = -1 \/ BoundaryAt(c.buf) = Len(d) + 4
         /\ BoundaryAt(c.buf) < 0 <=> Len(c.buf) < Len(d) + 6
         /\ BoundaryAt(c.buf) < 0 \/ Len(c.buf) < 8 => inp # << >>
         /\ BoundaryAt(c.buf) >= 0 =>
              \E r \in Seq(Bytes) : /\ c.buf = Cat(Cat(Cat(d, Dashes), Boundary), r)
                                    /\ t = Cat(r, inp)
  <1> DEFINE y == Cat(d, Dashes)
  <1>1. /\ PartAt(c, ds, inp, i, y, t, e)
        /\ i > 0 /\ d \in Seq(Bytes) /\ e \in Seq(Bytes) /\ ds[i] = Cat(e, d)
    BY DEF PartLeft
  <1> HIDE DEF y
  <1>2. /\ c \in MultipartSet /\ inp \in Seq(Bytes) /\ i \in 0..Len(ds)
        /\ Behind(ds, i, t) /\ Cat(c.buf, inp) = Cat(y, Cat(Boundary, t))
        /\ c.processing_part = i /\ c.prev_io_len <= Len(c.buf)
        /\ c.events = ToldUpTo(ds, i, e)
    BY <1>1 DEF PartAt
  <1>3. i \in 1..Len(ds) /\ Clean(ds[i])
    <2>1. i \in 1..Len(ds)
      BY <1>1, <1>2, PartsAre
    <2>2. QED
      BY <2>1, PartsAre
  <1>4. Clean(d)
    <2>1. Clean(Cat(e, d))
      BY <1>1, <1>3
    <2>2. QED
      BY <1>1, <2>1, CleanPart
  <1>5. y \in Seq(Bytes) /\ Len(y) = Len(d) + 4
    BY <1>1, <1>4, CleanDashes DEF y
  <1>6. /\ c.buf \in Seq(Bytes) /\ Len(c.buf) \in Nat /\ t \in Seq(Bytes)
        /\ Len(t) \in Nat /\ Len(t) >= 4
        /\ BoundaryAt(c.buf) = -1 \/ BoundaryAt(c.buf) = Len(y)
        /\ BoundaryAt(c.buf) < 0 <=> Len(c.buf) < Len(y) + 2
        /\ inp = << >> => Len(c.buf) = Len(y) + 2 + Len(t)
        /\ BoundaryAt(c.buf) >= 0 =>
              /\ BoundaryAt(c.buf) = Len(y)
              /\ \E r \in Seq(Bytes) : c.buf = Cat(Cat(y, Boundary), r) /\ t = Cat(r, inp)
    BY <1>1, PartFound
  <1>7. Len(d) \in Nat /\ c.prev_io_len \in Nat
    BY <1>1, <1>2 DEF MultipartSet
  <1>8. BoundaryAt(c.buf) < 0 <=> Len(c.buf) < Len(d) + 6
    BY <1>5, <1>6, <1>7
  <1>9. BoundaryAt(c.buf) < 0 \/ Len(c.buf) < 8 => inp # << >>
    BY <1>5, <1>6, <1>7
  <1>10. QED
    BY <1>1, <1>2, <1>3, <1>4, <1>5, <1>6, <1>7, <1>8, <1>9 DEF y

\* A part that is left can be looked at again, with another count of its bytes.
LEMMA LeftAgain ==
  ASSUME NEW ds, UploadLegal(ds), NEW inp, NEW i, NEW d, NEW t, NEW e, NEW c,
         PartLeft(c, ds, inp, i, d, t, e),
         NEW g \in MultipartSet, g.buf = c.buf, g.events = c.events,
         g.processing_part = c.processing_part, g.prev_io_len <= Len(g.buf)
  PROVE  PartLeft(g, ds, inp, i, d, t, e)
  BY DEF PartLeft, PartAt

\* c after the data before the boundary has been handed on: x is left.
ReadFrom(c, x, v) ==
  [c EXCEPT !.state = "WAITING_FOR_BOUNDARY", !.prev_io_len = 0, !.buf = x, !.events = v]

\* What PartRead asks of it.
ReadTo(g, x, v, i) ==
  /\ g \in MultipartSet /\ g.state = "WAITING_FOR_BOUNDARY" /\ g.buf = x
  /\ g.events = v /\ g.prev_io_len = 0 /\ g.processing_part = i

\* The fields of ReadFrom.
LEMMA ReadIs ==
  ASSUME NEW c \in MultipartSet, NEW x \in Seq(Bytes), NEW v \in Seq(Bytes)
  PROVE  ReadTo(ReadFrom(c, x, v), x, v, c.processing_part)
  BY DEF ReadFrom, MultipartSet, ReadTo

\* The boundary behind a part ends it.
LEMMA PartOver ==
  ASSUME NEW ds, UploadLegal(ds), NEW inp, NEW i, NEW d, NEW t, NEW e, NEW c,
         PartLeft(c, ds, inp, i, d, t, e), BoundaryAt(c.buf) >= 0,
         NEW g, g = [c EXCEPT !.state = "WAITING_FOR_BOUNDARY", !.prev_io_len = 0,
                              !.buf = After(@, BoundaryAt(c.buf)),
                              !.events = @ \o SubSeq(c.buf, 1, BoundaryAt(c.buf) - 4)]
  PROVE  /\ PartRead(g, ds, inp, i, << >>, t) /\ g.state = "WAITING_FOR_BOUNDARY"
         /\ Len(g.buf) \in Nat /\ Len(g.buf) < Len(c.buf)
  <1> DEFINE y == Cat(d, Dashes)
             b == BoundaryAt(c.buf)
  <1>1. /\ c \in MultipartSet /\ c.buf \in Seq(Bytes) /\ inp \in Seq(Bytes)
        /\ Len(c.buf) \in Nat /\ Len(d) \in Nat
        /\ i \in 1..Len(ds) /\ d \in Seq(Bytes) /\ e \in Seq(Bytes) /\ ds[i] = Cat(e, d)
        /\ Behind(ds, i, t) /\ t \in Seq(Bytes)
        /\ c.processing_part = i /\ c.events = ToldUpTo(ds, i, e)
        /\ y \in Seq(Bytes) /\ Len(y) = Len(d) + 4
        /\ b = -1 \/ b = Len(d) + 4
        /\ b >= 0 =>
              \E r \in Seq(Bytes) : c.buf = Cat(Cat(y, Boundary), r) /\ t = Cat(r, inp)
    BY LeftFound
  <1>2. b = Len(y) /\ b - 4 = Len(d)
    BY <1>1
  <1>3. PICK r \in Seq(Bytes) : c.buf = Cat(Cat(y, Boundary), r) /\ t = Cat(r, inp)
    BY <1>1
  <1>4. Boundary \in Seq(Bytes) /\ Dashes \in Seq(Bytes)
    BY BoundaryTypes
  <1> HIDE DEF b
  <1> DEFINE br == Cat(Boundary, r)
  <1>5. After(c.buf, b) = br /\ Len(c.buf) = Len(y) + 2 + Len(r)
    <2> HIDE DEF y
    <2>1. y \in Seq(Bytes) /\ b = Len(y) /\ c.buf = Cat(Cat(y, Boundary), r)
      BY <1>1, <1>2, <1>3
    <2>2. /\ After(Cat(Cat(y, Boundary), r), Len(y)) = Cat(Boundary, r)
          /\ Len(Cat(Cat(y, Boundary), r)) = Len(y) + 2 + Len(r)
      BY <2>1, BehindIs
    <2>3. QED
      BY <2>1, <2>2
  <1>6. br \in Seq(Bytes) /\ Len(br) = 2 + Len(r)
    <2>1. br \in Seq(Bytes) /\ IsCat(br, Boundary, r)
      BY <1>4, CatIs
    <2>2. QED
      BY <2>1, BoundaryTypes DEF IsCat
  <1>7. SubSeq(c.buf, 1, b - 4) = d
    <2>1. c.buf = Cat(y, br)
      <3> HIDE DEF y
      <3>1. QED
        BY <1>1, <1>3, <1>4, CatAssoc
    <2> HIDE DEF br
    <2>2. Cat(y, br) = Cat(d, Cat(Dashes, br)) /\ Cat(Dashes, br) \in Seq(Bytes)
      <3>1. Cat(Cat(d, Dashes), br) = Cat(d, Cat(Dashes, br))
        BY <1>1, <1>4, <1>6, CatAssoc
      <3>2. Cat(Dashes, br) \in Seq(Bytes)
        BY <1>4, <1>6, CatIs
      <3>3. QED
        BY <3>1, <3>2
    <2> DEFINE z == Cat(Dashes, br)
    <2>3. z \in Seq(Bytes) /\ c.buf = Cat(d, z)
      BY <2>1, <2>2
    <2> HIDE DEF z
    <2>4. Cuts(Cat(d, z), d, z)
      BY <1>1, <2>3, CatCuts
    <2>5. QED
      BY <1>2, <2>3, <2>4 DEF Cuts
  <1>8. c.events \o d = ToldUpTo(ds, i, ds[i]) /\ c.events \o d \in Seq(Bytes)
    <2>1. ToldUpTo(ds, i, e) \o d = ToldUpTo(ds, i, Cat(e, d))
      BY <1>1, ToldMore
    <2>2. ToldUpTo(ds, i, ds[i]) \in Seq(Bytes)
      BY <1>1, ToldNext
    <2>3. QED
      BY <1>1, <2>1, <2>2
  <1> DEFINE ev == c.events \o d
  <1>9. g = ReadFrom(c, br, ev)
    BY <1>1, <1>5, <1>7, Zenon DEF b, ReadFrom, MultipartSet
  <1>10. ev = ToldUpTo(ds, i, ds[i]) /\ ev \in Seq(Bytes)
    BY <1>8
  <1> HIDE DEF ev, br
  <1>11. /\ g \in MultipartSet /\ g.state = "WAITING_FOR_BOUNDARY" /\ g.buf = br
         /\ g.events = ev
         /\ g.prev_io_len = 0 /\ g.processing_part = i
    <2>1. c \in MultipartSet /\ br \in Seq(Bytes) /\ ev \in Seq(Bytes)
          /\ c.processing_part = i
      BY <1>1, <1>6, <1>10
    <2>2. ReadTo(ReadFrom(c, br, ev), br, ev, c.processing_part)
      BY <2>1, ReadIs
    <2>3. ReadTo(g, br, ev, i)
      BY <1>9, <2>1, <2>2
    <2>4. QED
      BY <2>3, Zenon DEF ReadTo
  <1>12. << >> \in Seq(Bytes) /\ Clean(<< >>)
    BY DEF Clean
  <1>13. Cat(g.buf, inp) = Cat(<< >>, Cat(Boundary, t))
    <2>1. Cat(br, inp) = Cat(Boundary, Cat(r, inp))
      BY <1>1, <1>4, CatAssoc DEF br
    <2>2. Cat(Boundary, t) \in Seq(Bytes)
      BY <1>1, <1>4, CatIs
    <2>3. Cat(<< >>, Cat(Boundary, t)) = Cat(Boundary, t)
      BY <2>2, CatEmpty
    <2>4. QED
      BY <1>3, <1>11, <2>1, <2>3
  <1>14. i \in 0..Len(ds) /\ g.prev_io_len <= Len(g.buf) /\ Len(g.buf) \in Nat
         /\ Len(g.buf) < Len(c.buf)
    <2>1. i \in 0..Len(ds) /\ Len(r) \in Nat
      BY <1>1
    <2>2. QED
      BY <1>1, <1>5, <1>6, <1>11, <2>1
  <1>15. PartAt(g, ds, inp, i, << >>, t, ds[i])
    BY <1>1, <1>10, <1>11, <1>12, <1>13, <1>14, Zenon DEF PartAt
  <1>16. QED
    BY <1>11, <1>14, <1>15 DEF PartRead

\* wait_for_chunk goes on, or what it waits for has not arrived.
LEMMA WaitForChunk ==
  ASSUME NEW ds, UploadLegal(ds), NEW inp, NEW c, AtChunk(c, ds, inp)
  PROVE  StepIs(c, ds, inp, wait_for_chunk(c))
  <1> DEFINE b == BoundaryAt(c.buf)
             w == [c EXCEPT !.prev_io_len = Len(c.buf)]
             k == [c EXCEPT !.state = "GOT_CHUNK"]
             g == [c EXCEPT !.state = "WAITING_FOR_BOUNDARY", !.prev_io_len = 0,
                            !.buf = After(@, BoundaryAt(c.buf)),
                            !.events = @ \o SubSeq(c.buf, 1, BoundaryAt(c.buf) - 4)]
  <1>1. PICK i, d, t, e : PartLeft(c, ds, inp, i, d, t, e)
    BY DEF AtChunk
  <1>2. c.state = "WAITING_FOR_CHUNK"
    BY DEF AtChunk
  <1>3. /\ c \in MultipartSet /\ Len(c.buf) \in Nat /\ c.prev_io_len \in Nat
        /\ c.prev_io_len <= Len(c.buf)
        /\ b < 0 \/ Len(c.buf) < 8 => inp # << >>
        /\ b \in Int
    BY <1>1, LeftFound
  <1>4. wait_for_chunk(c) =
          IF Len(c.buf) < 8 THEN Wait(c)
          ELSE IF b < 0 /\ c.prev_io_len = 0 THEN Wait(w)
          ELSE IF b < 0 /\ Len(c.buf) > c.prev_io_len + 6 THEN GoOn(k)
          ELSE IF b >= 0 THEN GoOn(g) ELSE Wait(c)
    <2>1. BoundaryLen + 6 = 8 /\ RoomForBoundary = 6
      BY DEF BoundaryLen, RoomForBoundary
    <2>2. QED
      BY <2>1, Zenon DEF wait_for_chunk
  <1> HIDE DEF b
  <1>5. ASSUME inp # << >> PROVE StepIs(c, ds, inp, Wait(c))
    <2>1. Waiting(c, ds, inp)
      BY <1>5 DEF Waiting
    <2>2. QED
      BY <2>1, WaitIs
  <1>6. CASE Len(c.buf) < 8
    <2>1. wait_for_chunk(c) = Wait(c)
      BY <1>4, <1>6
    <2>2. QED
      BY <1>3, <1>5, <1>6, <2>1
  <1>7. CASE ~(Len(c.buf) < 8) /\ b < 0 /\ c.prev_io_len = 0
    <2>1. wait_for_chunk(c) = Wait(w)
      BY <1>4, <1>7
    <2>2. /\ w \in MultipartSet /\ w.state = "WAITING_FOR_CHUNK" /\ w.buf = c.buf
          /\ w.events = c.events /\ w.processing_part = c.processing_part
          /\ w.prev_io_len = Len(c.buf)
      BY <1>2, <1>3 DEF MultipartSet
    <2> HIDE DEF w
    <2>3. PartLeft(w, ds, inp, i, d, t, e)
      BY <1>1, <1>3, <2>2, LeftAgain
    <2>4. AtChunk(w, ds, inp)
      BY <2>2, <2>3, Zenon DEF AtChunk
    <2>5. Waiting(w, ds, inp)
      BY <1>3, <1>7, <2>4 DEF Waiting
    <2>6. QED
      BY <2>1, <2>5, WaitIs
  <1>8. CASE /\ ~(Len(c.buf) < 8) /\ b < 0 /\ c.prev_io_len # 0
             /\ Len(c.buf) > c.prev_io_len + 6
    <2>1. wait_for_chunk(c) = GoOn(k)
      BY <1>4, <1>8
    <2>2. /\ k \in MultipartSet /\ k.state = "GOT_CHUNK" /\ k.buf = c.buf
          /\ k.events = c.events /\ k.processing_part = c.processing_part
          /\ k.prev_io_len = c.prev_io_len
      BY <1>3 DEF MultipartSet
    <2> HIDE DEF k
    <2>3. PartLeft(k, ds, inp, i, d, t, e)
      BY <1>1, <1>3, <2>2, LeftAgain
    <2>4. OnChunk(k, ds, inp)
      BY <1>3, <1>8, <2>2, <2>3 DEF OnChunk, b
    <2>5. Work(k) < Work(c)
      <3>1. Work(k) = 2 * Len(c.buf) + 0 /\ Work(c) = 2 * Len(c.buf) + 1
        BY <1>2, <2>2 DEF Work
      <3>2. QED
        BY <1>3, <3>1
    <2>6. QED
      BY <2>1, <2>4, <2>5, GoOnIs DEF Reading
  <1>9. CASE ~(Len(c.buf) < 8) /\ b >= 0
    <2>1. wait_for_chunk(c) = GoOn(g)
      BY <1>3, <1>4, <1>9
    <2>2. b >= 0 => /\ PartRead(g, ds, inp, i, << >>, t) /\ g.state = "WAITING_FOR_BOUNDARY"
                    /\ Len(g.buf) \in Nat /\ Len(g.buf) < Len(c.buf)
      BY <1>1, PartOver, Zenon DEF b
    <2> HIDE DEF g
    <2>3. AtBoundary(g, ds, inp)
      BY <1>9, <2>2, Zenon DEF AtBoundary
    <2>4. Work(g) < Work(c)
      <3>1. Work(g) = 2 * Len(g.buf) + 1 /\ Work(c) = 2 * Len(c.buf) + 1
        BY <1>2, <1>9, <2>2 DEF Work
      <3>2. QED
        BY <1>3, <1>9, <2>2, <3>1
    <2>5. QED
      BY <2>1, <2>3, <2>4, GoOnIs DEF Reading
  <1>10. CASE /\ ~(Len(c.buf) < 8) /\ b < 0 /\ c.prev_io_len # 0
              /\ ~(Len(c.buf) > c.prev_io_len + 6)
    <2>1. wait_for_chunk(c) = Wait(c)
      BY <1>3, <1>4, <1>10
    <2>2. QED
      BY <1>3, <1>5, <1>10, <2>1
  <1>11. QED
    BY <1>3, <1>6, <1>7, <1>8, <1>9, <1>10

\* got_chunk hands on what cannot be the beginning of a boundary.
LEMMA GotChunk ==
  ASSUME NEW ds, UploadLegal(ds), NEW inp, NEW c, OnChunk(c, ds, inp)
  PROVE  StepIs(c, ds, inp, got_chunk(c))
  <1> DEFINE k == c.prev_io_len
             p == SubSeq(c.buf, 1, k)
             q == SubSeq(c.buf, k + 1, Len(c.buf))
             g == [c EXCEPT !.state = "WAITING_FOR_CHUNK", !.prev_io_len = 0,
                            !.buf = After(@, c.prev_io_len),
                            !.events = @ \o SubSeq(c.buf, 1, c.prev_io_len)]
  <1>1. PICK i, d, t, e : PartLeft(c, ds, inp, i, d, t, e)
    BY DEF OnChunk
  <1>2. k > 0 /\ Len(c.buf) > k + 6 /\ BoundaryAt(c.buf) < 0
    BY DEF OnChunk
  <1>3. /\ c \in MultipartSet /\ c.buf \in Seq(Bytes) /\ inp \in Seq(Bytes)
        /\ Len(c.buf) \in Nat /\ Len(d) \in Nat /\ k \in Nat
        /\ i \in 1..Len(ds) /\ d \in Seq(Bytes) /\ e \in Seq(Bytes) /\ ds[i] = Cat(e, d)
        /\ Clean(d) /\ Behind(ds, i, t) /\ t \in Seq(Bytes)
        /\ Cat(c.buf, inp) = Cat(Cat(d, Dashes), Cat(Boundary, t))
        /\ c.processing_part = i /\ c.events = ToldUpTo(ds, i, e)
        /\ BoundaryAt(c.buf) < 0 <=> Len(c.buf) < Len(d) + 6
        /\ BoundaryAt(c.buf) < 0 \/ Len(c.buf) < 8 => inp # << >>
    BY <1>1, LeftFound
  <1>4. k \in 1..Len(c.buf) /\ k < Len(d) /\ inp # << >>
    BY <1>2, <1>3
  <1>5. p \in Seq(Bytes) /\ q \in Seq(Bytes) /\ c.buf = Cat(p, q) /\ Len(p) = k
    <2> DEFINE s == c.buf
    <2>1. s \in Seq(Bytes) /\ k \in 1..Len(s)
      BY <1>3, <1>4
    <2> HIDE DEF s, k
    <2>2. /\ SubSeq(s, 1, k) \in Seq(Bytes) /\ SubSeq(s, k + 1, Len(s)) \in Seq(Bytes)
          /\ s = Cat(SubSeq(s, 1, k), SubSeq(s, k + 1, Len(s)))
          /\ Len(SubSeq(s, 1, k)) = k
      BY <2>1, SplitAt, Zenon
    <2>3. QED
      BY <2>2, Zenon DEF s
  <1>6. got_chunk(c) = Wait(g)
    BY Zenon DEF got_chunk
  <1>7. g = [c EXCEPT !.state = "WAITING_FOR_CHUNK", !.prev_io_len = 0,
                      !.buf = q, !.events = c.events \o p]
    BY <1>3, Zenon DEF After, MultipartSet
  <1> HIDE DEF p, q, g, k
  <1> DEFINE bt == Cat(Boundary, t)
             x == Cat(Dashes, bt)
             qi == Cat(q, inp)
  <1>8. Boundary \in Seq(Bytes) /\ Dashes \in Seq(Bytes) /\ bt \in Seq(Bytes)
    BY <1>3, BoundaryTypes, CatIs
  <1>9. x \in Seq(Bytes) /\ qi \in Seq(Bytes)
    <2> HIDE DEF bt
    <2>1. x \in Seq(Bytes)
      BY <1>8, CatIs
    <2>2. qi \in Seq(Bytes)
      BY <1>3, <1>5, CatIs
    <2>3. QED
      BY <2>1, <2>2
  <1>10. Cat(d, x) = Cat(p, qi)
    <2>1. Cat(c.buf, inp) = Cat(Cat(d, Dashes), bt)
      BY <1>3
    <2> HIDE DEF bt
    <2>2. Cat(Cat(d, Dashes), bt) = Cat(d, Cat(Dashes, bt))
      BY <1>3, <1>8, CatAssoc
    <2>3. Cat(Cat(p, q), inp) = Cat(p, Cat(q, inp))
      BY <1>3, <1>5, CatAssoc
    <2>4. QED
      BY <1>5, <2>1, <2>2, <2>3
  <1> HIDE DEF x, qi
  <1>11. Splits(Bytes, d, x, p, qi)
    BY <1>3, <1>5, <1>9, <1>10, CatSplits
  <1>12. PICK f \in Seq(Bytes) : d = Cat(p, f) /\ qi = Cat(f, x)
    <2>1. Len(p) <= Len(d)
      BY <1>3, <1>4, <1>5
    <2>2. QED
      BY <1>11, <2>1 DEF Splits
  <1>13. Clean(f)
    <2>1. Clean(Cat(p, f))
      BY <1>3, <1>12
    <2>2. QED
      BY <1>5, <2>1, CleanPart
  <1> DEFINE fd == Cat(f, Dashes)
             ep == Cat(e, p)
             ev == c.events \o p
  <1>14. Clean(fd) /\ fd \in Seq(Bytes)
    BY <1>13, CleanDashes
  <1>15. ep \in Seq(Bytes) /\ ds[i] = Cat(ep, f)
    <2>1. Cat(Cat(e, p), f) = Cat(e, Cat(p, f))
      BY <1>3, <1>5, CatAssoc
    <2>2. ep \in Seq(Bytes)
      BY <1>3, <1>5, CatIs
    <2>3. QED
      BY <1>3, <1>12, <2>1, <2>2
  <1>16. qi = Cat(fd, bt)
    <2> HIDE DEF bt
    <2>1. Cat(Cat(f, Dashes), bt) = Cat(f, Cat(Dashes, bt))
      BY <1>8, CatAssoc
    <2>2. QED
      BY <1>12, <2>1 DEF x
  <1> HIDE DEF fd, ep
  <1>17. ev = ToldUpTo(ds, i, ep) /\ ev \in Seq(Bytes)
    <2> HIDE DEF ev, bt
    <2>1. i \in 1..Len(ds) /\ e \in Seq(Bytes) /\ p \in Seq(Bytes)
      BY <1>3, <1>5
    <2>1a. /\ ToldUpTo(ds, i, e) \in Seq(Bytes)
           /\ ToldUpTo(ds, i, e) \o p = ToldUpTo(ds, i, Cat(e, p))
      BY <2>1, ToldMore
    <2>2. ToldUpTo(ds, i, ep) \in Seq(Bytes)
      <3>1. << >> \in Seq(Bytes)
        OBVIOUS
      <3>2. QED
        BY <1>3, <1>15, <3>1, ToldMore
    <2>3. QED
      BY <1>3, <2>1a, <2>2 DEF ep, ev
  <1> HIDE DEF ev, bt
  <1>18. /\ g \in MultipartSet /\ g.state = "WAITING_FOR_CHUNK" /\ g.prev_io_len = 0
         /\ g.buf = q /\ g.events = ev /\ g.processing_part = i
    <2>1. g = [c EXCEPT !.state = "WAITING_FOR_CHUNK", !.prev_io_len = 0, !.buf = q, !.events = ev]
      BY <1>7 DEF ev
    <2>2. QED
      BY <1>3, <1>5, <1>17, <2>1 DEF MultipartSet
  <1>19. /\ i \in 0..Len(ds) /\ i > 0 /\ g.prev_io_len <= Len(g.buf)
         /\ Cat(g.buf, inp) = Cat(fd, Cat(Boundary, t))
    BY <1>3, <1>5, <1>16, <1>18 DEF qi, bt
  <1>20. PartAt(g, ds, inp, i, fd, t, ep)
    BY <1>3, <1>14, <1>17, <1>18, <1>19, Zenon DEF PartAt
  <1>21. PartLeft(g, ds, inp, i, f, t, ep)
    BY <1>15, <1>19, <1>20, Zenon DEF PartLeft, fd
  <1>22. Waiting(g, ds, inp)
    BY <1>4, <1>18, <1>21, Zenon DEF Waiting, AtChunk
  <1>23. QED
    BY <1>6, <1>22, WaitIs

\* finalize ends the last part.
LEMMA Finalize ==
  ASSUME NEW ds, UploadLegal(ds), NEW inp, NEW c, AtEnd(c, ds, inp)
  PROVE  StepIs(c, ds, inp, finalize(c))
  <1> DEFINE n == Len(ds)
             q == << "request_end" >>
             x == ToldUpTo(ds, n, ds[n])
             g == [c EXCEPT !.state = "FINISHED", !.buf = << >>,
                            !.events = @ \o << "end", "request_end" >>]
  <1>1. /\ c \in MultipartSet /\ c.buf = << >> /\ inp = << >> /\ c.events = x
        /\ c.prev_io_len = 0 /\ c.state = "FINALIZE"
    BY DEF AtEnd
  <1>2. n \in 1..Len(ds)
    BY PartsAre
  <1>3. x \in Seq(Bytes) /\ x \o << "end" >> = Joined(Told(ds), n)
    BY <1>2, ToldNext
  <1>4. /\ PartEvents(ds) = Cat(Joined(Told(ds), n), q) /\ q \in Seq(Bytes)
        /\ << "end" >> \in Seq(Bytes)
    BY ToldIs
  <1> DEFINE a == << "end" >>
             b == << "end", "request_end" >>
  <1>5. b = Cat(a, q)
    <2>1. b = << "end" >> \o << "request_end" >>
      OBVIOUS
    <2>2. QED
      BY <2>1, Zenon DEF Cat
  <1>6. b \in Seq(Bytes)
    <2> HIDE DEF a, q, b
    <2>1. QED
      BY <1>4, <1>5, CatIs DEF a
  <1>7. x \o b = PartEvents(ds) /\ x \o b \in Seq(Bytes)
    <2>1. a \in Seq(Bytes)
      BY <1>4
    <2>2. Cat(x, a) = Joined(Told(ds), n)
      BY <1>3, Zenon DEF Cat
    <2> HIDE DEF a, q, b, x
    <2>3. Cat(Cat(x, a), q) = Cat(x, Cat(a, q))
      BY <1>3, <1>4, <2>1, CatAssoc
    <2>4. Cat(x, b) = PartEvents(ds)
      BY <1>4, <1>5, <2>2, <2>3
    <2>5. Cat(x, b) \in Seq(Bytes)
      BY <1>3, <1>6, CatIs
    <2>6. QED
      BY <2>4, <2>5, Zenon DEF Cat
  <1> DEFINE ev == x \o b
             e0 == << >>
  <1>8. g = [c EXCEPT !.state = "FINISHED", !.buf = e0, !.events = ev] /\ finalize(c) = Wait(g)
    <2>1. finalize(c) = Wait(g)
      BY Zenon DEF finalize
    <2> HIDE DEF x
    <2>2. g = [c EXCEPT !.state = "FINISHED", !.buf = e0, !.events = ev]
      BY <1>1, Zenon DEF MultipartSet
    <2>3. QED
      BY <2>1, <2>2
  <1>9. ev = PartEvents(ds) /\ ev \in Seq(Bytes) /\ e0 \in Seq(Bytes)
    <2>1. e0 \in Seq(Bytes)
      OBVIOUS
    <2>2. QED
      BY <1>7, <2>1
  <1> HIDE DEF g, ev, e0
  <1>10. /\ g \in MultipartSet /\ g.state = "FINISHED" /\ g.buf = e0 /\ g.events = ev
         /\ g.prev_io_len = 0
    BY <1>1, <1>8, <1>9 DEF MultipartSet
  <1>11. AllRead(g, ds, inp)
    BY <1>1, <1>9, <1>10 DEF AllRead, e0
  <1>12. QED
    BY <1>8, <1>11, WaitIs DEF Waiting

\* Every state of the parser does what its invariant needs.
LEMMA StepKeeps ==
  ASSUME NEW ds, UploadLegal(ds), NEW inp, NEW c, Reading(c, ds, inp)
  PROVE  StepIs(c, ds, inp, Step(c))
  <1>1. CASE AtBoundary(c, ds, inp)
    <2>1. c.state = "WAITING_FOR_BOUNDARY"
      BY <1>1 DEF AtBoundary
    <2>2. Step(c) = wait_for_boundary(c)
      BY <2>1 DEF Step
    <2>3. QED
      BY <1>1, <2>2, WaitForBoundary
  <1>2. CASE OnBoundary(c, ds, inp)
    <2>1. c.state = "GOT_BOUNDARY"
      BY <1>2 DEF OnBoundary
    <2>2. Step(c) = process_boundary(c)
      BY <2>1 DEF Step
    <2>3. QED
      BY <1>2, <2>2, ProcessBoundary
  <1>3. CASE AtChunk(c, ds, inp)
    <2>1. c.state = "WAITING_FOR_CHUNK"
      BY <1>3 DEF AtChunk
    <2>2. Step(c) = wait_for_chunk(c)
      BY <2>1 DEF Step
    <2>3. QED
      BY <1>3, <2>2, WaitForChunk
  <1>4. CASE OnChunk(c, ds, inp)
    <2>1. c.state = "GOT_CHUNK"
      BY <1>4 DEF OnChunk
    <2>2. Step(c) = got_chunk(c)
      BY <2>1 DEF Step
    <2>3. QED
      BY <1>4, <2>2, GotChunk
  <1>5. CASE AtEnd(c, ds, inp)
    <2>1. c.state = "FINALIZE"
      BY <1>5 DEF AtEnd
    <2>2. Step(c) = finalize(c)
      BY <2>1 DEF Step
    <2>3. QED
      BY <1>5, <2>2, Finalize
  <1>6. CASE AllRead(c, ds, inp)
    <2>1. c.state = "FINISHED"
      BY <1>6 DEF AllRead
    <2>2. Step(c) = Wait(c)
      BY <2>1 DEF Step
    <2>3. QED
      BY <1>6, <2>2, WaitIs DEF Waiting
  <1>7. QED
    BY <1>1, <1>2, <1>3, <1>4, <1>5, <1>6 DEF Reading

\* f[i] is c after i turns of the loop of mg_http_multipart_continue.
PartTurn(g) == IF g.more THEN Step(g.c) ELSE g
PartTurns(f, c, n) == f = [i \in 0..n |-> IF i = 0 THEN GoOn(c) ELSE PartTurn(f[i - 1])]
\* The function MultipartRecv defines by recursion.
PartLoop(c) == CHOOSE f : PartTurns(f, c, 2 * Len(c.buf) + 2)

\* The recursive function of MultipartRecv exists, for every number of turns.
LEMMA PartTurnsExist ==
  ASSUME NEW c
  PROVE  \A n \in Nat : \E f : PartTurns(f, c, n)
  <1> DEFINE T == { n \in Nat : \E f : PartTurns(f, c, n) }
  <1>1. 0 \in T
    <2>1. PartTurns([i \in 0..0 |-> GoOn(c)], c, 0)
      <3>1. \A i \in 0..0 : i = 0
        OBVIOUS
      <3>2. QED
        BY <3>1, Zenon DEF PartTurns
    <2>2. QED
      BY <2>1
  <1>2. ASSUME NEW n \in Nat, n \in T PROVE n + 1 \in T
    <2>1. PICK g : PartTurns(g, c, n)
      BY <1>2
    <2> DEFINE e(f, i) == IF i = 0 THEN GoOn(c) ELSE PartTurn(f[i - 1])
               h == [i \in 0..(n + 1) |-> IF i = n + 1 THEN e(g, i) ELSE g[i]]
    <2>2. \A i \in 0..(n + 1) : i # 0 => h[i - 1] = g[i - 1]
      <3>1. \A i \in 0..(n + 1) : i # 0 => i - 1 \in 0..(n + 1) /\ i - 1 # n + 1
        OBVIOUS
      <3>2. QED
        BY <3>1, Zenon
    <2>3. \A i \in 0..n : g[i] = e(g, i)
      BY <2>1, Zenon DEF PartTurns
    <2>4. \A i \in 0..(n + 1) : i = n + 1 \/ i \in 0..n
      OBVIOUS
    <2>5. \A i \in 0..(n + 1) : h[i] = e(g, i)
      BY <2>3, <2>4, Zenon
    <2>6. \A i \in 0..(n + 1) : h[i] = e(h, i)
      BY <2>2, <2>5, Zenon
    <2>7. h = [i \in 0..(n + 1) |-> e(h, i)]
      <3>1. h = [i \in 0..(n + 1) |-> h[i]]
        BY Zenon
      <3> HIDE DEF h
      <3>2. QED
        BY <2>6, <3>1, Zenon
    <2>8. PartTurns(h, c, n + 1)
      BY <2>7, Zenon DEF PartTurns
    <2>9. QED
      BY <2>8
  <1>3. Nat \subseteq T
    <2> HIDE DEF T
    <2>1. QED
      BY <1>1, <1>2, Induction
  <1>4. QED
    BY <1>3

\* MultipartRecv, by the turns of its loop.
LEMMA PartLoopIs ==
  ASSUME NEW c, NEW N \in Nat, N = 2 * Len(c.buf) + 2
  PROVE  /\ PartLoop(c)[0] = GoOn(c)
         /\ \A i \in 1..N : PartLoop(c)[i] = PartTurn(PartLoop(c)[i - 1])
         /\ MultipartRecv(c) = PartLoop(c)[N].c
  <1>1. PartTurns(PartLoop(c), c, N)
    BY PartTurnsExist, Zenon DEF PartLoop
  <1>2. 0 \in 0..N /\ \A i \in 1..N : i \in 0..N /\ i # 0
    OBVIOUS
  <1>3. MultipartRecv(c) = PartLoop(c)[N].c
    BY Zenon DEF MultipartRecv, PartLoop, PartTurns, PartTurn
  <1>4. QED
    BY <1>1, <1>2, <1>3, Zenon DEF PartTurns

\* The work left is a number.
LEMMA WorkIs ==
  ASSUME NEW ds, UploadLegal(ds), NEW inp, NEW c, Reading(c, ds, inp)
  PROVE  Work(c) \in Nat /\ Len(c.buf) \in Nat /\ Work(c) <= 2 * Len(c.buf) + 1
  <1>1. c \in MultipartSet
    BY DEF Reading, AtBoundary, OnBoundary, AtChunk, OnChunk, AtEnd, AllRead, PartLeft,
           PartRead, PartAt
  <1>2. Len(c.buf) \in Nat
    BY <1>1 DEF MultipartSet
  <1> DEFINE n == Len(c.buf)
  <1>3. Work(c) = 2 * n + 0 \/ Work(c) = 2 * n + 1
    BY DEF Work
  <1>4. n \in Nat
    BY <1>2
  <1> HIDE DEF n
  <1>5. Work(c) \in Nat /\ Work(c) <= 2 * n + 1
    BY <1>3, <1>4
  <1>6. QED
    BY <1>4, <1>5 DEF n

\* mg_http_multipart_continue goes on until it waits for what has not arrived.
LEMMA MultipartRecvKeeps ==
  ASSUME NEW ds, UploadLegal(ds), NEW inp, NEW c, Reading(c, ds, inp)
  PROVE  Waiting(MultipartRecv(c), ds, inp)
  <1> DEFINE N == 2 * Len(c.buf) + 2
             f == PartLoop(c)
             Good(k) == /\ f[k].more \in BOOLEAN
                        /\ f[k].more => Reading(f[k].c, ds, inp) /\ Work(f[k].c) <= N - 1 - k
                        /\ ~f[k].more => Waiting(f[k].c, ds, inp)
             T == { k \in Nat : k \in 0..N => Good(k) }
  <1>1. N \in Nat /\ Work(c) \in Nat /\ Work(c) <= N - 1
    <2>1. Work(c) \in Nat /\ Len(c.buf) \in Nat /\ Work(c) <= 2 * Len(c.buf) + 1
      BY WorkIs
    <2>2. QED
      BY <2>1
  <1>2. /\ f[0] = GoOn(c) /\ \A k \in 1..N : f[k] = PartTurn(f[k - 1])
        /\ MultipartRecv(c) = f[N].c
    BY <1>1, PartLoopIs
  <1> HIDE DEF f, N
  <1>3. 0 \in T
    <2>1. f[0].more = TRUE /\ f[0].c = c
      BY <1>2 DEF GoOn
    <2>2. Work(c) <= N - 1 - 0
      BY <1>1
    <2>3. QED
      BY <2>1, <2>2
  <1>4. ASSUME NEW k \in Nat, k \in T PROVE k + 1 \in T
    <2>1. ASSUME k + 1 \in 0..N PROVE Good(k + 1)
      <3>1. k \in 0..N /\ k + 1 \in 1..N /\ (k + 1) - 1 = k
        BY <1>1, <2>1
      <3>2. Good(k)
        BY <1>4, <3>1
      <3>3. f[k + 1] = PartTurn(f[k])
        BY <1>2, <3>1
      <3>4. CASE f[k].more
        <4>1. f[k + 1] = Step(f[k].c) /\ Reading(f[k].c, ds, inp)
              /\ Work(f[k].c) <= N - 1 - k
          BY <3>2, <3>3, <3>4 DEF PartTurn
        <4>2. StepIs(f[k].c, ds, inp, f[k + 1])
          BY <4>1, StepKeeps
        <4>3. /\ f[k + 1].more \in BOOLEAN
              /\ f[k + 1].more => Reading(f[k + 1].c, ds, inp) /\ Work(f[k + 1].c) < Work(f[k].c)
              /\ ~f[k + 1].more => Waiting(f[k + 1].c, ds, inp)
          BY <4>2, Zenon DEF StepIs
        <4>4. ASSUME f[k + 1].more PROVE Work(f[k + 1].c) <= N - 1 - (k + 1)
          <5> DEFINE v == Work(f[k].c)
                     w == Work(f[k + 1].c)
          <5>1. v \in Nat /\ w \in Nat /\ w < v /\ v <= N - 1 - k
            BY <4>1, <4>3, <4>4, WorkIs
          <5> HIDE DEF v, w
          <5>2. w <= N - 1 - (k + 1)
            BY <1>1, <5>1
          <5>3. QED
            BY <5>2 DEF w
        <4>5. QED
          BY <4>3, <4>4
      <3>5. CASE ~f[k].more
        <4>1. f[k + 1] = f[k]
          BY <3>3, <3>5 DEF PartTurn
        <4>2. QED
          BY <3>2, <3>5, <4>1
      <3>6. QED
        BY <3>4, <3>5
    <2> HIDE DEF Good
    <2>2. QED
      BY <2>1
  <1>5. Nat \subseteq T
    <2> HIDE DEF T
    <2>1. QED
      BY <1>3, <1>4, Induction
  <1>6. Good(N)
    <2>1. N \in T /\ N \in 0..N
      BY <1>1, <1>5
    <2> HIDE DEF Good
    <2>2. QED
      BY <2>1
  <1>7. ~f[N].more
    <2>1. SUFFICES ASSUME f[N].more PROVE FALSE
      OBVIOUS
    <2> DEFINE w == Work(f[N].c)
    <2>2. w \in Nat /\ w <= N - 1 - N
      BY <1>6, <2>1, WorkIs
    <2> HIDE DEF w
    <2>3. QED
      BY <1>1, <2>2
  <1>8. QED
    BY <1>2, <1>6, <1>7

\* What has arrived makes no difference to what is to come.
LEMMA PartArrives ==
  ASSUME NEW ds, NEW inp, NEW a \in Seq(Bytes), NEW b \in Seq(Bytes), inp = Cat(a, b),
         NEW i, NEW y, NEW t, NEW e, NEW c, PartAt(c, ds, inp, i, y, t, e),
         NEW g \in MultipartSet, g.buf = Cat(c.buf, a), g.events = c.events,
         g.processing_part = c.processing_part, g.prev_io_len = c.prev_io_len
  PROVE  PartAt(g, ds, b, i, y, t, e)
  <1>1. /\ c \in MultipartSet /\ i \in 0..Len(ds)
        /\ y \in Seq(Bytes) /\ Clean(y) /\ Behind(ds, i, t)
        /\ Cat(c.buf, inp) = Cat(y, Cat(Boundary, t))
        /\ c.processing_part = i /\ c.prev_io_len <= Len(c.buf)
        /\ c.events = ToldUpTo(ds, i, e)
    BY DEF PartAt
  <1>2. c.buf \in Seq(Bytes) /\ c.prev_io_len \in Nat
    BY <1>1 DEF MultipartSet
  <1>3. IsCat(g.buf, c.buf, a)
    <2>1. IsCat(Cat(c.buf, a), c.buf, a)
      BY <1>2, CatIs
    <2>2. QED
      BY <2>1
  <1>4. g.prev_io_len <= Len(g.buf)
    BY <1>1, <1>2, <1>3 DEF IsCat
  <1>5. Cat(g.buf, b) = Cat(y, Cat(Boundary, t))
    <2>1. Cat(Cat(c.buf, a), b) = Cat(c.buf, Cat(a, b))
      BY <1>2, CatAssoc
    <2>2. QED
      BY <1>1, <2>1
  <1>6. QED
    BY <1>1, <1>4, <1>5, Zenon DEF PartAt

\* The buffer of c, and a behind it.
More(c, a) == [c EXCEPT !.buf = @ \o a]

\* The fields of More.
LEMMA MoreIs ==
  ASSUME NEW c \in MultipartSet, NEW a \in Seq(Bytes)
  PROVE  /\ More(c, a) \in MultipartSet /\ More(c, a).buf = Cat(c.buf, a)
         /\ More(c, a).state = c.state /\ More(c, a).events = c.events
         /\ More(c, a).processing_part = c.processing_part
         /\ More(c, a).prev_io_len = c.prev_io_len
  <1> DEFINE x == Cat(c.buf, a)
  <1>1. x \in Seq(Bytes)
    <2>1. c.buf \in Seq(Bytes)
      BY DEF MultipartSet
    <2>2. QED
      BY <2>1, CatIs
  <1>2. More(c, a) = [c EXCEPT !.buf = x]
    BY Zenon DEF More, Cat
  <1> HIDE DEF x
  <1>3. QED
    <2> DEFINE g == [c EXCEPT !.buf = x]
    <2>1. /\ g \in MultipartSet /\ g.buf = x /\ g.state = c.state /\ g.events = c.events
          /\ g.processing_part = c.processing_part /\ g.prev_io_len = c.prev_io_len
      BY <1>1 DEF MultipartSet
    <2> HIDE DEF g
    <2>2. More(c, a) = g
      BY <1>2 DEF g
    <2>3. QED
      BY <2>1, <2>2 DEF x

\* What a receive event does to an upload.
LEMMA MultipartArrives ==
  ASSUME NEW ds, UploadLegal(ds), NEW inp, NEW c, Waiting(c, ds, inp),
         NEW k \in 1..Len(inp)
  PROVE  Waiting(MultipartRecv([c EXCEPT !.buf = @ \o SubSeq(inp, 1, k)]), ds,
                 SubSeq(inp, k + 1, Len(inp)))
  <1> DEFINE a == SubSeq(inp, 1, k)
             b == SubSeq(inp, k + 1, Len(inp))
             g == More(c, a)
  <1>1. inp # << >> /\ (AtBoundary(c, ds, inp) \/ AtChunk(c, ds, inp))
    <2>1. inp # << >>
      <3>1. SUFFICES ASSUME inp = << >> PROVE FALSE
        OBVIOUS
      <3>2. Len(<< >>) = 0
        OBVIOUS
      <3>3. k \in 1..0
        BY <3>1, <3>2
      <3>4. QED
        BY <3>3
    <2>2. ~AllRead(c, ds, inp)
      BY <2>1 DEF AllRead
    <2>3. QED
      BY <2>1, <2>2 DEF Waiting
  <1>2. c \in MultipartSet /\ inp \in Seq(Bytes)
    BY <1>1 DEF AtBoundary, AtChunk, PartRead, PartLeft, PartAt
  <1>3. a \in Seq(Bytes) /\ b \in Seq(Bytes) /\ inp = Cat(a, b)
    BY <1>2, SplitAt, Zenon
  <1> HIDE DEF a, b
  <1>4. /\ g \in MultipartSet /\ g.buf = Cat(c.buf, a) /\ g.state = c.state
        /\ g.events = c.events /\ g.processing_part = c.processing_part
        /\ g.prev_io_len = c.prev_io_len
    BY <1>2, <1>3, MoreIs
  <1> HIDE DEF g
  <1>5. Reading(g, ds, b)
    <2>1. CASE AtBoundary(c, ds, inp)
      <3>1. PICK i, y, t : PartRead(c, ds, inp, i, y, t)
        BY <2>1 DEF AtBoundary
      <3>2. PartAt(c, ds, inp, i, y, t, ds[i]) /\ c.prev_io_len = 0
        BY <3>1 DEF PartRead
      <3>3. PartAt(g, ds, b, i, y, t, ds[i])
        BY <1>3, <1>4, <3>2, PartArrives
      <3>4. AtBoundary(g, ds, b)
        BY <1>4, <2>1, <3>2, <3>3 DEF AtBoundary, PartRead
      <3>5. QED
        BY <3>4 DEF Reading
    <2>2. CASE AtChunk(c, ds, inp)
      <3>1. PICK i, d, t, e : PartLeft(c, ds, inp, i, d, t, e)
        BY <2>2 DEF AtChunk
      <3>2. /\ PartAt(c, ds, inp, i, Cat(d, Dashes), t, e)
            /\ i > 0 /\ d \in Seq(Bytes) /\ e \in Seq(Bytes) /\ ds[i] = Cat(e, d)
        BY <3>1 DEF PartLeft
      <3>3. PartAt(g, ds, b, i, Cat(d, Dashes), t, e)
        BY <1>3, <1>4, <3>2, PartArrives
      <3>4. AtChunk(g, ds, b)
        BY <1>4, <2>2, <3>2, <3>3 DEF AtChunk, PartLeft
      <3>5. QED
        BY <3>4 DEF Reading
    <2>3. QED
      BY <1>1, <2>1, <2>2
  <1>6. Waiting(MultipartRecv(g), ds, b)
    BY <1>5, MultipartRecvKeeps
  <1>7. QED
    BY <1>6, Zenon DEF a, b, g, More

\* Before anything has arrived.
LEMMA MultipartStarts ==
  ASSUME NEW ds, UploadLegal(ds)
  PROVE  Waiting(Multipart0, ds, Multipart(ds))
  <1> DEFINE c == Multipart0
             M == Multipart(ds)
             v == << >>
  <1>1. PICK y, t : /\ y \in Seq(Bytes) /\ Behind(ds, 0, t) /\ Clean(y)
                    /\ M = Cat(y, Cat(Boundary, t)) /\ M \in Seq(Bytes)
    BY BehindStart
  <1>2. v \in Seq(Bytes)
    OBVIOUS
  <1>3. /\ c \in MultipartSet /\ c.buf = v /\ c.events = v /\ c.prev_io_len = 0
        /\ c.processing_part = 0 /\ c.state = "WAITING_FOR_BOUNDARY"
    BY <1>2 DEF Multipart0, MultipartSet
  <1> HIDE DEF c, M
  <1>4. Cat(c.buf, M) = M
    BY <1>1, <1>3, CatEmpty
  <1>5. 0 \in 0..Len(ds) /\ c.prev_io_len <= Len(c.buf) /\ c.events = ToldUpTo(ds, 0, ds[0])
    <2>1. Len(ds) \in Nat
      BY PartsAre
    <2>2. Len(c.buf) = 0
      BY <1>3
    <2>3. QED
      BY <1>3, <2>1, <2>2 DEF ToldUpTo
  <1>6. PartAt(c, ds, M, 0, y, t, ds[0])
    BY <1>1, <1>3, <1>4, <1>5, Zenon DEF PartAt
  <1>7. M # << >>
    <2>1. t \in Seq(Bytes)
      BY <1>1 DEF Behind
    <2> DEFINE bt == Cat(Boundary, t)
    <2>2. bt \in Seq(Bytes) /\ IsCat(bt, Boundary, t)
      BY <2>1, BoundaryTypes, CatIs
    <2>3. Len(bt) >= 2
      BY <2>1, <2>2, BoundaryTypes DEF IsCat
    <2> HIDE DEF bt
    <2>4. IsCat(Cat(y, bt), y, bt)
      BY <1>1, <2>2, CatIs
    <2>5. Len(M) >= 2
      BY <1>1, <2>2, <2>3, <2>4 DEF IsCat, bt
    <2>6. QED
      BY <2>5
  <1>8. AtBoundary(c, ds, M)
    BY <1>3, <1>6 DEF AtBoundary, PartRead
  <1>9. QED
    BY <1>7, <1>8, Zenon DEF Waiting, c, M

\* What the handler has got begins all there is to tell.
LEMMA MultipartTold ==
  ASSUME NEW ds, UploadLegal(ds), NEW inp, NEW c, Waiting(c, ds, inp)
  PROVE  /\ c.prev_io_len \in 0..Len(c.buf)
         /\ Len(c.events) <= Len(PartEvents(ds))
         /\ c.events = SubSeq(PartEvents(ds), 1, Len(c.events))
         /\ inp = << >> => c.events = PartEvents(ds)
  <1> DEFINE P == PartEvents(ds)
  <1>1. CASE AllRead(c, ds, inp)
    <2>1. c.events = P /\ c.prev_io_len = 0 /\ c.buf = << >> /\ c \in MultipartSet
      BY <1>1 DEF AllRead
    <2>2. c.events \in Seq(Bytes)
      BY <2>1 DEF MultipartSet
    <2> DEFINE x == c.events
    <2> HIDE DEF P
    <2>3. x \in Seq(Bytes) /\ x = P
      BY <2>1, <2>2
    <2> HIDE DEF x
    <2>4. Len(x) <= Len(P) /\ x = SubSeq(P, 1, Len(x))
      BY <2>3, SubSeqFull
    <2>5. c.prev_io_len \in 0..Len(c.buf)
      BY <2>1
    <2>6. QED
      BY <2>1, <2>4, <2>5 DEF x, P
  <1>2. CASE ~AllRead(c, ds, inp)
    <2>1. inp # << >> /\ (AtBoundary(c, ds, inp) \/ AtChunk(c, ds, inp))
      BY <1>2 DEF Waiting
    <2>2. \E i \in 0..Len(ds), e \in Seq(Bytes), f \in Seq(Bytes) :
            (i > 0 => ds[i] = Cat(e, f)) /\ c.events = ToldUpTo(ds, i, e)
      <3>1. CASE AtBoundary(c, ds, inp)
        <4>1. PICK i, y, t : PartRead(c, ds, inp, i, y, t)
          BY <3>1 DEF AtBoundary
        <4>2. i \in 0..Len(ds) /\ c.events = ToldUpTo(ds, i, ds[i])
          BY <4>1 DEF PartRead, PartAt
        <4>3. << >> \in Seq(Bytes)
          OBVIOUS
        <4>4. CASE i = 0
          <5>1. c.events = ToldUpTo(ds, i, << >>)
            BY <4>2, <4>4 DEF ToldUpTo
          <5>2. ~(i > 0)
            BY <4>4
          <5>3. QED
            BY <4>2, <4>3, <5>1, <5>2
        <4>5. CASE i # 0
          <5>1. i \in 1..Len(ds)
            BY <4>2, <4>5
          <5>2. ds[i] \in Seq(Bytes)
            BY <5>1, PartsAre
          <5>3. Cat(ds[i], << >>) = ds[i]
            BY <5>2, CatEmpty
          <5>4. QED
            BY <4>2, <4>3, <5>2, <5>3
        <4>6. QED
          BY <4>4, <4>5
      <3>2. CASE AtChunk(c, ds, inp)
        <4>1. PICK i, d, t, e : PartLeft(c, ds, inp, i, d, t, e)
          BY <3>2 DEF AtChunk
        <4>2. /\ i \in 0..Len(ds) /\ c.events = ToldUpTo(ds, i, e)
              /\ d \in Seq(Bytes) /\ e \in Seq(Bytes) /\ ds[i] = Cat(e, d)
          BY <4>1 DEF PartLeft, PartAt
        <4>3. QED
          BY <4>2
      <3>3. QED
        BY <2>1, <3>1, <3>2
    <2>3. PICK i \in 0..Len(ds), e \in Seq(Bytes), f \in Seq(Bytes) :
            (i > 0 => ds[i] = Cat(e, f)) /\ c.events = ToldUpTo(ds, i, e)
      BY <2>2
    <2>4. PICK r \in Seq(Bytes) : P = Cat(c.events, r)
      BY <2>3, ToldFirst
    <2>5. c \in MultipartSet /\ c.prev_io_len <= Len(c.buf)
      BY <2>1 DEF AtBoundary, AtChunk, PartRead, PartLeft, PartAt
    <2>6. c.events \in Seq(Bytes) /\ c.prev_io_len \in Nat /\ Len(c.buf) \in Nat
      BY <2>5 DEF MultipartSet
    <2> HIDE DEF P
    <2>7. Cuts(P, c.events, r)
      BY <2>4, <2>6, CatCuts
    <2>8. Len(c.events) <= Len(P) /\ c.events = SubSeq(P, 1, Len(c.events))
      BY <2>7 DEF Cuts
    <2>9. QED
      BY <2>1, <2>5, <2>6, <2>8 DEF P
  <1>3. QED
    BY <1>1, <1>2

-----------------------------------------------------------------------------
(* The invariant, and the theorems *)

\* Each connection carries one request with a chunked body: of a second one the
\* code loses count, and its assertion fails.
OneBodyEach == \A bs \in Bodies : Len(bs) = 1

\* realloc always finds the room for the size of a message behind recv_mbuf, or
\* none at all: it never moves it.
InPlace == \A moves \in Moves : moves = {}

\* Where the parser of the connection is in what the client sends.
ConnInv ==
  \/ /\ protocol = "chunked" /\ sent \in Bodies /\ ChunkedInv(conn, sent[1], input)
  \/ /\ protocol = "multipart" /\ sent \in Uploads /\ Waiting(conn, sent, input)
  \/ /\ protocol = "websocket" /\ sent \in Conversations /\ WsInv(conn, sent, input)

\* One body is its data.
LEMMA OneBodyIs ==
  ASSUME OneBodyEach, NEW bs \in Bodies
  PROVE  /\ Filled(bs[1])
         /\ [i \in DOMAIN bs |-> FlattenSeq(bs[i])] = << FlattenSeq(bs[1]) >>
         /\ FlattenSeq([i \in DOMAIN bs |-> Chunked(bs[i])]) = Chunked(bs[1])
  <1> DEFINE p == [i \in DOMAIN bs |-> Chunked(bs[i])]
             q == [i \in DOMAIN bs |-> FlattenSeq(bs[i])]
             ds == bs[1]
  <1>1. bs \in Seq(Seq(Seq(Data) \ {<< >>})) /\ Len(bs) = 1
    BY BodiesAssumption DEF OneBodyEach
  <1>2. DOMAIN bs = 1..1 /\ \A i \in 1..1 : i = 1
    BY <1>1
  <1>3. Filled(ds)
    BY <1>1 DEF Filled
  <1>4. q = << FlattenSeq(ds) >>
    <2> DEFINE x == FlattenSeq(ds)
    <2>1. q = [i \in 1..1 |-> x]
      BY <1>2, Zenon
    <2> HIDE DEF x, q
    <2>2. [i \in 1..1 |-> x] = << x >>
      OBVIOUS
    <2>3. QED
      BY <2>1, <2>2 DEF x
  <1>5. Chunked(ds) \in Seq(Tokens)
    <2> HIDE DEF ds
    <2> DEFINE J == Joined(Chunks(ds), Len(ds) + 1)
    <2>1. Chunked(ds) = Cat(HeadToken, J) /\ HeadToken \in Seq(Tokens) /\ J \in Seq(Tokens)
      BY <1>3, ChunksAre DEF HeadToken
    <2> HIDE DEF J
    <2>2. QED
      BY <2>1, CatIs
  <1>6. FlattenSeq(p) = Joined(p, 0 + 1)
    <2>1. p = [k \in 1..1 |-> p[k]]
      BY <1>2, Zenon
    <2>2. 0 + 1 = 1
      OBVIOUS
    <2> HIDE DEF p
    <2>3. QED
      BY <2>1, <2>2 DEF Joined
  <1>7. p[0 + 1] = Chunked(ds)
    <2>1. 0 + 1 = 1 /\ 1 \in DOMAIN bs
      BY <1>2
    <2>2. p[1] = Chunked(ds)
      BY <2>1, Zenon
    <2>3. QED
      BY <2>1, <2>2
  <1> HIDE DEF p, q, ds
  <1>8. Joined(p, 0 + 1) = Cat(Joined(p, 0), p[0 + 1])
    BY <1>5, <1>7, JoinedNext
  <1>9. Cat(<< >>, Chunked(ds)) = Chunked(ds)
    BY <1>5, CatEmpty
  <1>10. FlattenSeq(p) = Chunked(ds)
    BY <1>6, <1>7, <1>8, <1>9, JoinedNone
  <1>11. QED
    BY <1>3, <1>4, <1>10 DEF p, q, ds

\* What has not arrived of a body is a sequence.
LEMMA ChunkedInputIs ==
  ASSUME NEW ds, Filled(ds), NEW inp, NEW c, ChunkedInv(c, ds, inp)
  PROVE  Len(inp) \in Nat
  <1>1. CASE ChunkedStart(c, ds, inp)
    <2> DEFINE J == Joined(Chunks(ds), Len(ds) + 1)
    <2>1. inp = Cat(HeadToken, J) /\ HeadToken \in Seq(Tokens) /\ J \in Seq(Tokens)
      BY <1>1, ChunksAre DEF HeadToken, ChunkedStart
    <2> HIDE DEF J
    <2>2. Cat(HeadToken, J) \in Seq(Tokens)
      BY <2>1, CatIs
    <2>3. QED
      BY <2>1, <2>2
  <1>2. CASE \E i \in 0..Len(ds) : \E w : ChunkedAt(c, ds, i, w, inp)
    BY <1>2 DEF ChunkedAt, ChunksLeft
  <1>3. CASE ChunkedDone(c, ds, inp)
    BY <1>3 DEF ChunkedDone
  <1>4. QED
    BY <1>1, <1>2, <1>3 DEF ChunkedInv

\* The invariant holds before anything has arrived.
LEMMA ConnStarts ==
  ASSUME OneBodyEach, InPlace
  PROVE  Init => ConnInv
  <1>1. SUFFICES ASSUME Init PROVE ConnInv
    OBVIOUS
  <1>2. CASE /\ protocol = "chunked" /\ sent \in Bodies
             /\ input = FlattenSeq([i \in DOMAIN sent |-> Chunked(sent[i])]) /\ conn = Head0
    <2>1. Filled(sent[1]) /\ input = Chunked(sent[1])
      BY <1>2, OneBodyIs
    <2> DEFINE ds == sent[1]
    <2>2. ChunkedInv(Head0, ds, Chunked(ds))
      <3> HIDE DEF ds
      <3>1. Filled(ds) => ChunkedInv(Head0, ds, Chunked(ds))
        BY ChunkedStarts
      <3>2. QED
        BY <2>1, <3>1 DEF ds
    <2>3. QED
      BY <1>2, <2>1, <2>2, Zenon DEF ConnInv
  <1>3. CASE /\ protocol = "multipart" /\ sent \in Uploads
             /\ input = Multipart(sent) /\ conn = Multipart0
    <2>1. Waiting(Multipart0, sent, Multipart(sent))
      BY <1>3, UploadsAssumption, MultipartStarts
    <2>2. QED
      BY <1>3, <2>1, Zenon DEF ConnInv
  <1>4. CASE /\ protocol = "websocket" /\ sent \in Conversations
             /\ input = Frames(sent)
             /\ \E moves \in Moves : conn = [Websocket0 EXCEPT !.moves = moves]
    <2>1. conn = [Websocket0 EXCEPT !.moves = {}]
      BY <1>4, Zenon DEF InPlace
    <2>2. WsInv([Websocket0 EXCEPT !.moves = {}], sent, Frames(sent))
      BY <1>4, ConversationsAssumption, WsStarts
    <2>3. QED
      BY <1>4, <2>1, <2>2, Zenon DEF ConnInv
  <1>5. QED
    BY <1>1, <1>2, <1>3, <1>4 DEF Init

\* Every receive event keeps it.
LEMMA ConnKeeps ==
  ASSUME OneBodyEach
  PROVE  ConnInv /\ [Next]_vars => ConnInv'
  <1>1. SUFFICES ASSUME ConnInv, [Next]_vars PROVE ConnInv'
    OBVIOUS
  <1>2. CASE UNCHANGED vars
    BY <1>1, <1>2, Zenon DEF vars, ConnInv
  <1>3. CASE mg_recv_common
    <2>1. PICK k \in 1..MaxPiece :
            /\ k <= Len(input)
            /\ conn' = Recv([conn EXCEPT !.buf = @ \o SubSeq(input, 1, k)])
            /\ input' = SubSeq(input, k + 1, Len(input))
      BY <1>3 DEF mg_recv_common
    <2>2. protocol' = protocol /\ sent' = sent
      BY <1>3 DEF mg_recv_common
    <2>3. k \in Nat /\ 1 <= k
      BY MaxPieceAssumption
    <2> DEFINE d == [conn EXCEPT !.buf = @ \o SubSeq(input, 1, k)]
    <2>4. conn' = Recv(d)
      BY <2>1
    <2> HIDE DEF d
    <2>5. CASE protocol = "chunked" /\ sent \in Bodies /\ ChunkedInv(conn, sent[1], input)
      <3> DEFINE ds == sent[1]
      <3>1. Filled(ds)
        BY <2>5, OneBodyIs
      <3> HIDE DEF ds
      <3>2. ChunkedInv(conn, ds, input)
        BY <2>5 DEF ds
      <3>3. Len(input) \in Nat
        BY <3>1, <3>2, ChunkedInputIs
      <3>4. k \in 1..Len(input)
        BY <2>1, <2>3, <3>3
      <3>5. ChunkedInv(ChunkedRecv(d), ds, SubSeq(input, k + 1, Len(input)))
        BY <3>1, <3>2, <3>4, ChunkedArrives DEF d
      <3>6. conn' = ChunkedRecv(d)
        BY <2>4, <2>5 DEF Recv
      <3>7. ChunkedInv(conn', sent'[1], input')
        BY <2>1, <2>2, <3>5, <3>6, Zenon DEF ds
      <3>8. QED
        BY <2>2, <2>5, <3>7, Zenon DEF ConnInv
    <2>6. CASE protocol = "multipart" /\ sent \in Uploads /\ Waiting(conn, sent, input)
      <3>1. UploadLegal(sent)
        BY <2>6, UploadsAssumption
      <3>2. Len(input) \in Nat
        BY <2>6 DEF Waiting, AtBoundary, AtChunk, AllRead, PartRead, PartLeft, PartAt
      <3>3. k \in 1..Len(input)
        BY <2>1, <2>3, <3>2
      <3>4. Waiting(MultipartRecv(d), sent, SubSeq(input, k + 1, Len(input)))
        BY <2>6, <3>1, <3>3, MultipartArrives DEF d
      <3>5. conn' = MultipartRecv(d)
        BY <2>4, <2>6 DEF Recv
      <3>6. Waiting(conn', sent', input')
        BY <2>1, <2>2, <3>4, <3>5, Zenon
      <3>7. QED
        BY <2>2, <2>6, <3>6, Zenon DEF ConnInv
    <2>7. CASE protocol = "websocket" /\ sent \in Conversations /\ WsInv(conn, sent, input)
      <3>1. Legal(sent)
        BY <2>7, ConversationsAssumption
      <3>2. Len(input) \in Nat
        BY <2>7 DEF WsInv, WsAt
      <3>3. k \in 1..Len(input)
        BY <2>1, <2>3, <3>2
      <3>4. WsInv(WebsocketRecv(d), sent, SubSeq(input, k + 1, Len(input)))
        BY <2>7, <3>1, <3>3, WsArrives DEF d
      <3>5. conn' = WebsocketRecv(d)
        BY <2>4, <2>7 DEF Recv
      <3>6. WsInv(conn', sent', input')
        BY <2>1, <2>2, <3>4, <3>5, Zenon
      <3>7. QED
        BY <2>2, <2>7, <3>6, Zenon DEF ConnInv
    <2>8. QED
      BY <1>1, <2>5, <2>6, <2>7, Zenon DEF ConnInv
  <1>4. QED
    BY <1>1, <1>2, <1>3 DEF Next

\* What the invariant says of what the handler has got.
LEMMA ConnTold ==
  ASSUME OneBodyEach
  PROVE  ConnInv => NothingInvented /\ NothingLost /\ BodyInBuffer
  <1>1. SUFFICES ASSUME ConnInv PROVE NothingInvented /\ NothingLost /\ BodyInBuffer
    OBVIOUS
  <1>2. CASE protocol = "chunked" /\ sent \in Bodies /\ ChunkedInv(conn, sent[1], input)
    <2> DEFINE ds == sent[1]
               b == FlattenSeq(ds)
    <2>1. Filled(ds) /\ [i \in DOMAIN sent |-> FlattenSeq(sent[i])] = << b >>
      BY <1>2, OneBodyIs
    <2> HIDE DEF b
    <2>2. ChunkedInv(conn, ds, input)
      BY <1>2
    <2> HIDE DEF ds
    <2>3. /\ conn.buf # << >> => conn.failed \/ conn.body_len < Len(conn.buf)
          /\ conn.events = << >> \/ conn.events = << b >>
          /\ input = << >> => conn.events = << b >>
      BY <2>1, <2>2, ChunkedTold DEF b
    <2>4. ~conn.failed
      BY <2>2 DEF ChunkedInv, ChunkedStart, ChunkedAt, ChunkedDone
    <2>5. Meant = << b >>
      BY <1>2, <2>1 DEF Meant
    <2>6. protocol # "multipart" /\ protocol # "websocket"
      BY <1>2
    <2>7. Len(conn.events) <= Len(Meant) /\ conn.events = SubSeq(Meant, 1, Len(conn.events))
      <3>1. SubSeq(<< b >>, 1, 0) = << >> /\ Len(<< >>) = 0 /\ Len(<< b >>) = 1
        OBVIOUS
      <3>2. SubSeq(<< b >>, 1, 1) = << b >>
        <4> DEFINE x == << b >>
        <4>1. x \in Seq({b}) /\ Len(x) = 1
          OBVIOUS
        <4> HIDE DEF x
        <4>2. SubSeq(x, 1, 1) = x
          BY <4>1, SubSeqFull
        <4>3. QED
          BY <4>2 DEF x
      <3>3. 0 <= 1 /\ 1 <= 1
        OBVIOUS
      <3>4. QED
        BY <2>3, <2>5, <3>1, <3>2, <3>3, Zenon
    <2>8. NothingInvented
      BY <2>3, <2>6, <2>7 DEF NothingInvented
    <2>9. NothingLost
      BY <2>3, <2>5, <2>6 DEF NothingLost
    <2>10. QED
      BY <2>4, <2>8, <2>9 DEF BodyInBuffer
  <1>3. CASE protocol = "multipart" /\ sent \in Uploads /\ Waiting(conn, sent, input)
    <2>1. UploadLegal(sent)
      BY <1>3, UploadsAssumption
    <2>2. /\ conn.prev_io_len \in 0..Len(conn.buf)
          /\ Len(conn.events) <= Len(PartEvents(sent))
          /\ conn.events = SubSeq(PartEvents(sent), 1, Len(conn.events))
          /\ input = << >> => conn.events = PartEvents(sent)
      BY <1>3, <2>1, MultipartTold
    <2>3. Meant = PartEvents(sent) /\ protocol # "chunked" /\ protocol # "websocket"
      BY <1>3 DEF Meant
    <2>4. NothingInvented
      BY <2>2, <2>3, Zenon DEF NothingInvented
    <2>5. NothingLost
      BY <2>2, <2>3, Zenon DEF NothingLost
    <2>6. QED
      BY <2>3, <2>4, <2>5 DEF BodyInBuffer
  <1>4. CASE protocol = "websocket" /\ sent \in Conversations /\ WsInv(conn, sent, input)
    <2>1. Legal(sent)
      BY <1>4, ConversationsAssumption
    <2>2. /\ Len(conn.events) <= Len(Messages(sent))
          /\ conn.events = SubSeq(Messages(sent), 1, Len(conn.events))
          /\ input = << >> =>
               /\ conn.events = Messages(sent)
               /\ (\E i \in DOMAIN sent : sent[i].op = WEBSOCKET_OP_CLOSE) => conn.closing
      BY <1>4, <2>1, WsTold
    <2>3. Meant = Messages(sent) /\ protocol # "chunked" /\ protocol # "multipart"
      BY <1>4 DEF Meant
    <2>4. NothingInvented
      BY <2>2, <2>3, Zenon DEF NothingInvented
    <2>5. NothingLost
      BY <2>2, <2>3, Zenon DEF NothingLost
    <2>6. QED
      BY <2>3, <2>4, <2>5 DEF BodyInBuffer
  <1>5. QED
    BY <1>1, <1>2, <1>3, <1>4, Zenon DEF ConnInv

\* NothingInvented (of the streams mg_recv_common feeds to mg_handle_chunked,
\* mg_http_multipart_continue and mg_ws_handler), however the stream is cut: for
\* every body, upload and conversation, on connections that carry one chunked
\* body (BodyInBuffer) and whose buffer is not moved (Defragmented).
THEOREM StreamsTold ==
  ASSUME OneBodyEach, InPlace
  PROVE  Spec => []NothingInvented
  <1>1. Init => ConnInv
    BY ConnStarts
  <1>2. ConnInv /\ [Next]_vars => ConnInv'
    BY ConnKeeps
  <1>3. ConnInv => NothingInvented
    BY ConnTold
  <1>4. QED
    BY <1>1, <1>2, <1>3, PTL DEF Spec

\* NothingLost: once the last byte has arrived, the handler has got all of it.
THEOREM StreamsToldWhole ==
  ASSUME OneBodyEach, InPlace
  PROVE  Spec => []NothingLost
  <1>1. Init => ConnInv
    BY ConnStarts
  <1>2. ConnInv /\ [Next]_vars => ConnInv'
    BY ConnKeeps
  <1>3. ConnInv => NothingLost
    BY ConnTold
  <1>4. QED
    BY <1>1, <1>2, <1>3, PTL DEF Spec

\* assert(blen >= body_len) of mg_handle_chunked holds while a connection carries
\* one chunked body.
THEOREM AssertionHolds ==
  ASSUME OneBodyEach, InPlace
  PROVE  Spec => []BodyInBuffer
  <1>1. Init => ConnInv
    BY ConnStarts
  <1>2. ConnInv /\ [Next]_vars => ConnInv'
    BY ConnKeeps
  <1>3. ConnInv => BodyInBuffer
    BY ConnTold
  <1>4. QED
    BY <1>1, <1>2, <1>3, PTL DEF Spec
=============================================================================
