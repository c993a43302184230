---------------------------- MODULE ChunkingProofs ----------------------------
(*************************************************************************)
(* What Chunking computes, for every document and every range: the       *)
(* chunks are consecutive, non-empty pieces of the units they are made   *)
(* of, from the first unit to the last, and the units of a page are its  *)
(* parts in order. The definitions recur over the units, so the proofs   *)
(* go by induction over them.                                            *)
(*************************************************************************)
EXTENDS Chunking, WellFoundedInduction, TLAPS

-------------------------------------------------------------------------------
(* Induction over the naturals, for sets: the members of T are all of them *)
(* when 0 is one and each is followed by one.  And recursive functions     *)
(* exist: a value is iterated N times.                                     *)

LEMMA LeastNumber ==
    ASSUME NEW T, T \subseteq Nat, T # {}
    PROVE  \E m \in T : \A k \in T : ~ (k < m)
<1> DEFINE R == {ss \in Nat \X Nat : ss[1] < ss[2]}
<1>1. IsWellFoundedOn(R, Nat)
  BY NatLessThanWellFounded DEF OpToRel
<1>2. \A x, y \in Nat : y < x => <<y, x>> \in R
  OBVIOUS
<1> HIDE DEF R
<1>3. \E x \in T : \A y \in T : ~ (<<y, x>> \in R)
  BY <1>1, WFMin
<1> QED BY <1>2, <1>3

LEMMA SetInduction ==
    ASSUME NEW T, 0 \in T, \A n \in Nat : n \in T => n + 1 \in T
    PROVE  Nat \subseteq T
<1> DEFINE U == Nat \ T
<1> SUFFICES ASSUME U # {} PROVE FALSE
  OBVIOUS
<1>1. U \subseteq Nat
  OBVIOUS
<1>2. PICK m \in U : \A k \in U : ~ (k < m)
  BY <1>1, LeastNumber
<1>3. m \in Nat /\ m # 0 /\ m - 1 \in Nat /\ m - 1 < m
  BY <1>2
<1>4. m - 1 \in T
  BY <1>2, <1>3
<1>5. (m - 1) + 1 = m
  BY <1>3
<1>6. m \in T
  BY <1>3, <1>4, <1>5
<1> QED BY <1>6

Iterates(g, V, c, step, n) ==
    g \in [0..n -> V] /\ g[0] = c /\ \A i \in 1..n : g[i] = step[i][g[i - 1]]

LEMMA Iteration ==
    ASSUME NEW V, NEW c \in V, NEW N \in Nat, NEW step \in [1..N -> [V -> V]]
    PROVE  \E g : Iterates(g, V, c, step, N)
<1> DEFINE T == {n \in Nat : n <= N => \E g : Iterates(g, V, c, step, n)}
<1>1. 0 \in T
  <2>1. Iterates([i \in 0..0 |-> c], V, c, step, 0)
    BY DEF Iterates
  <2> QED BY <2>1
<1>2. ASSUME NEW n \in Nat, n \in T PROVE n + 1 \in T
  <2> SUFFICES ASSUME n + 1 <= N PROVE \E g : Iterates(g, V, c, step, n + 1)
    OBVIOUS
  <2>1. PICK g : Iterates(g, V, c, step, n)
    BY <1>2
  <2> DEFINE v == step[n + 1][g[n]]
             h == [i \in 0..(n + 1) |-> IF i <= n THEN g[i] ELSE v]
  <2>2. v \in V
    <3>1. g[n] \in V /\ n + 1 \in 1..N
      BY <2>1 DEF Iterates
    <3> QED BY <3>1
  <2>3. h \in [0..(n + 1) -> V] /\ h[0] = c
    <3> HIDE DEF v
    <3> QED BY <2>1, <2>2 DEF Iterates
  <2>4. ASSUME NEW i \in 1..(n + 1) PROVE h[i] = step[i][h[i - 1]]
    <3>1. i - 1 \in 0..n /\ h[i - 1] = g[i - 1]
      OBVIOUS
    <3>2. CASE i <= n
      BY <2>1, <3>1, <3>2 DEF Iterates
    <3>3. CASE i = n + 1
      BY <3>1, <3>3
    <3> QED BY <3>2, <3>3
  <2>5. Iterates(h, V, c, step, n + 1)
    BY <2>3, <2>4 DEF Iterates
  <2> QED BY <2>5
<1>3. N \in T
  <2> HIDE DEF T
  <2> QED BY <1>1, <1>2, SetInduction
<1> QED BY <1>3

-------------------------------------------------------------------------------
(* Cuts.  The members of seqs are consecutive pieces of a sequence, each   *)
(* with an element at least; f says where they end.                        *)

CutAt(seqs, units, f) ==
    /\ f \in [0..Len(seqs) -> 0..Len(units)]
    /\ \A i \in 1..Len(seqs) : /\ f[i - 1] < f[i]
                               /\ seqs[i] = SubSeq(units, f[i - 1] + 1, f[i])

\* seqs are the pieces of units after the first from of them, up to the last to.
Cut(seqs, units, from, to) ==
    \E f : CutAt(seqs, units, f) /\ f[0] = from /\ f[Len(seqs)] = to

LEMMA CutEmpty ==
    ASSUME NEW S, NEW units \in Seq(S), NEW from \in 0..Len(units)
    PROVE  Cut(<<>>, units, from, from)
<1>1. CutAt(<<>>, units, [i \in 0..0 |-> from])
  BY DEF CutAt
<1> QED BY <1>1 DEF Cut

LEMMA CutOne ==
    ASSUME NEW S, NEW units \in Seq(S),
           NEW from \in 0..Len(units), NEW to \in 0..Len(units), from < to
    PROVE  Cut(<<SubSeq(units, from + 1, to)>>, units, from, to)
<1> DEFINE f == [i \in 0..1 |-> IF i = 0 THEN from ELSE to]
           s == SubSeq(units, from + 1, to)
<1>1. CutAt(<<s>>, units, f)
  <2>1. Len(<<s>>) = 1 /\ <<s>>[1] = s
    OBVIOUS
  <2>2. f \in [0..1 -> 0..Len(units)] /\ f[0] = from /\ f[1] = to
    OBVIOUS
  <2> HIDE DEF f
  <2> QED BY <2>1, <2>2 DEF CutAt
<1>2. f[0] = from /\ f[Len(<<s>>)] = to
  OBVIOUS
<1> QED BY <1>1, <1>2 DEF Cut

LEMMA CutConcat ==
    ASSUME NEW S, NEW units \in Seq(S), NEW A, NEW B,
           NEW s \in Seq(A), NEW t \in Seq(B),
           NEW a, NEW b, NEW c, Cut(s, units, a, b), Cut(t, units, b, c)
    PROVE  Cut(s \o t, units, a, c)
<1>1. PICK f : CutAt(s, units, f) /\ f[0] = a /\ f[Len(s)] = b
  BY DEF Cut
<1>2. PICK g : CutAt(t, units, g) /\ g[0] = b /\ g[Len(t)] = c
  BY DEF Cut
<1> DEFINE m == Len(s)
           n == Len(t)
           h == [i \in 0..(m + n) |-> IF i <= m THEN f[i] ELSE g[i - m]]
<1>3. m \in Nat /\ n \in Nat /\ Len(s \o t) = m + n
  OBVIOUS
<1>4. /\ \A i \in 0..m : h[i] = f[i]
      /\ \A i \in 0..n : h[m + i] = g[i]
  <2>1. ASSUME NEW i \in 0..n PROVE h[m + i] = g[i]
    <3>1. m + i \in 0..(m + n) /\ (m + i) - m = i
      BY <1>3
    <3>2. CASE i = 0
      BY <1>1, <1>2, <1>3, <3>1, <3>2
    <3>3. CASE i # 0
      <4>1. ~(m + i <= m)
        BY <1>3, <3>3
      <4> QED BY <3>1, <4>1
    <3> QED BY <3>2, <3>3
  <2>2. \A i \in 0..m : h[i] = f[i]
    BY <1>3
  <2> QED BY <2>1, <2>2
<1>5. h \in [0..(m + n) -> 0..Len(units)]
  BY <1>1, <1>2, <1>3 DEF CutAt
<1> HIDE DEF h
<1>6. ASSUME NEW i \in 1..(m + n)
      PROVE  h[i - 1] < h[i] /\ (s \o t)[i] = SubSeq(units, h[i - 1] + 1, h[i])
  <2>1. CASE i <= m
    <3>1. h[i] = f[i] /\ h[i - 1] = f[i - 1] /\ (s \o t)[i] = s[i] /\ i \in 1..m
      BY <1>3, <1>4, <2>1
    <3> QED BY <1>1, <3>1 DEF CutAt
  <2>2. CASE i > m
    <3>1. PICK k \in 1..n : i = m + k
      <4>1. i - m \in 1..n /\ i = m + (i - m)
        BY <1>3, <2>2
      <4> QED BY <4>1
    <3>2. h[i] = g[k] /\ h[i - 1] = g[k - 1] /\ (s \o t)[i] = t[k]
      <4>1. k - 1 \in 0..n /\ i - 1 = m + (k - 1)
        BY <1>3, <3>1
      <4> QED BY <1>3, <1>4, <3>1, <4>1
    <3> QED BY <1>2, <3>1, <3>2 DEF CutAt
  <2> QED BY <1>3, <2>1, <2>2
<1>7. CutAt(s \o t, units, h)
  BY <1>3, <1>5, <1>6 DEF CutAt
<1>8. h[0] = a /\ h[Len(s \o t)] = c
  BY <1>1, <1>2, <1>3, <1>4
<1> QED BY <1>7, <1>8 DEF Cut

\* The first pieces, and the others.
LEMMA CutSplit ==
    ASSUME NEW S, NEW units \in Seq(S), NEW A, NEW s \in Seq(A),
           NEW a, NEW c, Cut(s, units, a, c), NEW k \in 0..Len(s)
    PROVE  \E b \in 0..Len(units) :
              /\ Cut(SubSeq(s, 1, k), units, a, b)
              /\ Cut(SubSeq(s, k + 1, Len(s)), units, b, c)
              /\ k < Len(s) => b < c
<1>1. PICK f : CutAt(s, units, f) /\ f[0] = a /\ f[Len(s)] = c
  BY DEF Cut
<1> DEFINE n == Len(s)
           b == f[k]
           s1 == SubSeq(s, 1, k)
           s2 == SubSeq(s, k + 1, n)
           g == [i \in 0..k |-> f[i]]
           h == [i \in 0..(n - k) |-> f[k + i]]
<1>2. n \in Nat /\ k \in Nat /\ k <= n /\ Len(s1) = k /\ Len(s2) = n - k
  OBVIOUS
<1>3. b \in 0..Len(units)
  BY <1>1 DEF CutAt
<1>4. CutAt(s1, units, g)
  <2>1. g \in [0..k -> 0..Len(units)]
    BY <1>1, <1>2 DEF CutAt
  <2>2. ASSUME NEW i \in 1..k
        PROVE  g[i - 1] < g[i] /\ s1[i] = SubSeq(units, g[i - 1] + 1, g[i])
    <3>1. g[i] = f[i] /\ g[i - 1] = f[i - 1] /\ s1[i] = s[i] /\ i \in 1..n
      BY <1>2
    <3> QED BY <1>1, <3>1 DEF CutAt
  <2> HIDE DEF g
  <2> QED BY <1>2, <2>1, <2>2 DEF CutAt
<1>5. CutAt(s2, units, h)
  <2>1. h \in [0..(n - k) -> 0..Len(units)]
    BY <1>1, <1>2 DEF CutAt
  <2>2. ASSUME NEW i \in 1..(n - k)
        PROVE  h[i - 1] < h[i] /\ s2[i] = SubSeq(units, h[i - 1] + 1, h[i])
    <3>1. h[i] = f[k + i] /\ h[i - 1] = f[(k + i) - 1] /\ s2[i] = s[k + i]
          /\ k + i \in 1..n
      BY <1>2
    <3> QED BY <1>1, <3>1 DEF CutAt
  <2> HIDE DEF h
  <2> QED BY <1>2, <2>1, <2>2 DEF CutAt
<1>6. g[0] = a /\ g[k] = b /\ h[0] = b /\ h[n - k] = c
  BY <1>1, <1>2
<1>7. Cut(s1, units, a, b) /\ Cut(s2, units, b, c)
  BY <1>2, <1>4, <1>5, <1>6 DEF Cut
<1>8. k < n => b < c
  <2> SUFFICES ASSUME k < n PROVE b < f[n]
    BY <1>1
  <2> DEFINE T == {m \in Nat : k + 1 + m <= n => b < f[k + 1 + m]}
  <2>1. 0 \in T
    <3>1. k + 1 \in 1..n /\ (k + 1) - 1 = k
      BY <1>2
    <3>2. f[(k + 1) - 1] < f[k + 1]
      BY <1>1, <3>1 DEF CutAt
    <3> QED BY <3>1, <3>2
  <2>2. ASSUME NEW m \in Nat, m \in T PROVE m + 1 \in T
    <3> SUFFICES ASSUME k + 1 + (m + 1) <= n PROVE b < f[k + 1 + (m + 1)]
      OBVIOUS
    <3>1. PICK i \in 1..n : i = k + 1 + (m + 1) /\ i - 1 = k + 1 + m
      BY <1>2
    <3>2. f[i - 1] < f[i] /\ f[i] \in Nat /\ f[i - 1] \in Nat
      <4>1. i \in 0..n /\ i - 1 \in 0..n
        BY <1>2, <3>1
      <4>2. f[i - 1] < f[i]
        BY <1>1, <3>1 DEF CutAt
      <4>3. f[i] \in 0..Len(units) /\ f[i - 1] \in 0..Len(units)
        BY <1>1, <4>1 DEF CutAt
      <4> QED BY <4>2, <4>3
    <3>3. b < f[i - 1] /\ b \in Nat
      BY <1>2, <1>3, <2>2, <3>1
    <3> HIDE DEF b
    <3>4. b < f[i]
      BY <3>2, <3>3
    <3> QED BY <3>1, <3>4
  <2>3. n - k - 1 \in T
    <3>1. n - k - 1 \in Nat
      BY <1>2
    <3> HIDE DEF T
    <3> QED BY <2>1, <2>2, <3>1, SetInduction
  <2> QED BY <1>2, <2>3
<1> QED BY <1>2, <1>3, <1>7, <1>8

\* The first piece and the rest.
LEMMA CutHead ==
    ASSUME NEW S, NEW units \in Seq(S), NEW A, NEW s \in Seq(A), s # <<>>,
           NEW a, NEW c, Cut(s, units, a, c)
    PROVE  \E b \in 0..Len(units) :
              /\ a \in 0..Len(units) /\ a < b
              /\ Head(s) = SubSeq(units, a + 1, b)
              /\ Cut(Tail(s), units, b, c)
<1>1. PICK f : CutAt(s, units, f) /\ f[0] = a /\ f[Len(s)] = c
  BY DEF Cut
<1>2. 1 \in 1..Len(s) /\ Len(s) \in Nat
  OBVIOUS
<1>3. /\ a \in 0..Len(units) /\ f[1] \in 0..Len(units) /\ a < f[1]
      /\ s[1] = SubSeq(units, a + 1, f[1])
  BY <1>1, <1>2 DEF CutAt
<1> DEFINE n == Len(s) - 1
           g == [i \in 0..n |-> f[1 + i]]
<1>4. Len(Tail(s)) = n /\ n \in Nat /\ n + 1 = Len(s)
  BY <1>2
<1>5. CutAt(Tail(s), units, g)
  <2>1. g \in [0..n -> 0..Len(units)]
    BY <1>1, <1>4 DEF CutAt
  <2>2. ASSUME NEW i \in 1..n
        PROVE  g[i - 1] < g[i] /\ Tail(s)[i] = SubSeq(units, g[i - 1] + 1, g[i])
    <3>1. /\ g[i] = f[1 + i] /\ g[i - 1] = f[(1 + i) - 1] /\ 1 + i \in 1..Len(s)
          /\ Tail(s)[i] = s[1 + i]
      BY <1>4
    <3> QED BY <1>1, <3>1 DEF CutAt
  <2> HIDE DEF g
  <2> QED BY <1>4, <2>1, <2>2 DEF CutAt
<1>6. g[0] = f[1] /\ g[n] = c
  BY <1>1, <1>4
<1>7. Cut(Tail(s), units, f[1], c)
  BY <1>4, <1>5, <1>6 DEF Cut
<1> QED BY <1>3, <1>7

\* A cut of a piece is a cut of the whole.
LEMMA CutNested ==
    ASSUME NEW S, NEW units \in Seq(S), NEW A, NEW s \in Seq(A),
           NEW a \in 0..Len(units), NEW b \in 0..Len(units), a <= b,
           NEW x, NEW y, Cut(s, SubSeq(units, a + 1, b), x, y)
    PROVE  Cut(s, units, a + x, a + y)
<1> DEFINE piece == SubSeq(units, a + 1, b)
           n == Len(s)
<1>1. PICK f : CutAt(s, piece, f) /\ f[0] = x /\ f[n] = y
  BY DEF Cut
<1>2. piece \in Seq(S) /\ Len(piece) = b - a /\ n \in Nat
  OBVIOUS
<1> DEFINE g == [i \in 0..n |-> a + f[i]]
<1>3. \A i \in 0..n : f[i] \in 0..(b - a)
  BY <1>1, <1>2 DEF CutAt
<1>4. g \in [0..n -> 0..Len(units)]
  BY <1>2, <1>3
<1>5. ASSUME NEW i \in 1..n
      PROVE  g[i - 1] < g[i] /\ s[i] = SubSeq(units, g[i - 1] + 1, g[i])
  <2>1. i - 1 \in 0..n /\ i \in 0..n
    BY <1>2
  <2>2. PICK p, q \in 0..(b - a) : p = f[i - 1] /\ q = f[i] /\ p < q
    BY <1>1, <1>3, <2>1 DEF CutAt
  <2>3. s[i] = SubSeq(piece, p + 1, q)
    BY <1>1, <2>2 DEF CutAt
  <2>4. SubSeq(piece, p + 1, q) = SubSeq(units, a + p + 1, a + q)
    OBVIOUS
  <2>5. g[i - 1] = a + p /\ g[i] = a + q
    BY <2>1, <2>2
  <2> HIDE DEF g, piece
  <2>6. a + p < a + q
    BY <2>2
  <2> QED BY <2>3, <2>4, <2>5, <2>6
<1>6. CutAt(s, units, g)
  <2> HIDE DEF g
  <2> QED BY <1>2, <1>4, <1>5 DEF CutAt
<1>7. g[0] = a + x /\ g[n] = a + y
  BY <1>1, <1>2
<1> QED BY <1>6, <1>7 DEF Cut

\* What a cut is made of.
LEMMA CutType ==
    ASSUME NEW S, NEW units \in Seq(S), NEW A, NEW s \in Seq(A),
           NEW a, NEW b, Cut(s, units, a, b)
    PROVE  /\ s \in Seq(Seq(S))
           /\ a \in 0..Len(units) /\ b \in 0..Len(units)
           /\ \A i \in 1..Len(s) : s[i] # <<>>
<1>1. PICK f : CutAt(s, units, f) /\ f[0] = a /\ f[Len(s)] = b
  BY DEF Cut
<1>2. ASSUME NEW i \in 1..Len(s) PROVE s[i] \in Seq(S) /\ s[i] # <<>>
  <2>1. PICK p, q \in 0..Len(units) : p < q /\ s[i] = SubSeq(units, p + 1, q)
    <3>1. i - 1 \in 0..Len(s) /\ i \in 0..Len(s)
      OBVIOUS
    <3> QED BY <1>1, <3>1 DEF CutAt
  <2>2. SubSeq(units, p + 1, q) \in Seq(S) /\ Len(SubSeq(units, p + 1, q)) = q - p
    BY <2>1
  <2> QED BY <2>1, <2>2
<1>3. s \in [1..Len(s) -> Seq(S)] /\ Len(s) \in Nat
  BY <1>2
<1>4. s \in Seq(Seq(S))
  BY <1>3
<1>5. a \in 0..Len(units) /\ b \in 0..Len(units)
  BY <1>1, <1>3 DEF CutAt
<1> QED BY <1>2, <1>4, <1>5

LEMMA CutOrdered ==
    ASSUME NEW S, NEW units \in Seq(S), NEW A, NEW s \in Seq(A),
           NEW a, NEW b, Cut(s, units, a, b)
    PROVE  a <= b
<1> DEFINE n == Len(s)
<1>1. PICK f : CutAt(s, units, f) /\ f[0] = a /\ f[n] = b
  BY DEF Cut
<1>2. n \in Nat /\ a \in 0..Len(units)
  BY <1>1 DEF CutAt
<1> DEFINE T == {m \in Nat : m <= n => a <= f[m]}
<1>3. 0 \in T
  BY <1>1, <1>2
<1>4. ASSUME NEW m \in Nat, m \in T PROVE m + 1 \in T
  <2> SUFFICES ASSUME m + 1 <= n PROVE a <= f[m + 1]
    OBVIOUS
  <2>1. PICK k \in 1..n : k = m + 1 /\ k - 1 = m /\ k - 1 \in 0..n /\ k \in 0..n
    BY <1>2
  <2>2. PICK p, q \in 0..Len(units) : p = f[k - 1] /\ q = f[k]
    BY <1>1, <2>1 DEF CutAt
  <2>3. f[k - 1] < f[k]
    BY <1>1 DEF CutAt
  <2>4. a <= p
    BY <1>2, <1>4, <2>1, <2>2
  <2> QED BY <1>2, <2>1, <2>2, <2>3, <2>4
<1>5. n \in T
  <2> HIDE DEF T
  <2> QED BY <1>2, <1>3, <1>4, SetInduction
<1> QED BY <1>1, <1>2, <1>5

LEMMA CutAtOrdered ==
    ASSUME NEW s, NEW units, NEW f, CutAt(s, units, f), Len(s) \in Nat, Len(units) \in Nat,
           NEW i \in 0..Len(s), NEW j \in 0..Len(s), i <= j
    PROVE  f[i] \in Nat /\ f[j] \in Nat /\ f[i] <= f[j]
<1> DEFINE n == Len(s)
           T == {m \in Nat : i <= m /\ m <= n => f[i] <= f[m]}
<1>1. \A m \in 0..n : f[m] \in Nat
  BY DEF CutAt
<1>2. 0 \in T
  BY <1>1
<1>3. ASSUME NEW m \in Nat, m \in T PROVE m + 1 \in T
  <2> SUFFICES ASSUME i <= m + 1, m + 1 <= n PROVE f[i] <= f[m + 1]
    OBVIOUS
  <2>1. PICK k \in 1..n : k = m + 1 /\ k - 1 = m /\ k - 1 \in 0..n /\ k \in 0..n
    OBVIOUS
  <2>2. PICK a, b \in Nat : a = f[m] /\ b = f[k]
    BY <1>1, <2>1
  <2>3. a < b
    <3>1. f[k - 1] < f[k]
      BY DEF CutAt
    <3> QED BY <2>1, <2>2, <3>1
  <2>4. CASE i = k
    BY <1>1, <2>1, <2>4
  <2>5. CASE i # k
    <3>1. i <= m
      BY <2>1, <2>5
    <3>2. PICK c \in Nat : c = f[i]
      BY <1>1
    <3>3. c <= a
      BY <1>3, <2>1, <2>2, <3>1, <3>2
    <3> QED BY <2>1, <2>2, <2>3, <3>2, <3>3
  <2> QED BY <2>4, <2>5
<1>4. j \in T
  <2> HIDE DEF T
  <2> QED BY <1>2, <1>3, SetInduction
<1> QED BY <1>1, <1>4

\* The elements of a piece, in the whole.
LEMMA CutAtPiece ==
    ASSUME NEW S, NEW units \in Seq(S), NEW s, NEW f, CutAt(s, units, f), Len(s) \in Nat,
           NEW i \in 1..Len(s)
    PROVE  /\ f[i - 1] \in 0..Len(units) /\ f[i] \in 0..Len(units) /\ f[i - 1] < f[i]
           /\ Len(s[i]) = f[i] - f[i - 1]
           /\ \A k \in 1..(f[i] - f[i - 1]) : s[i][k] = units[f[i - 1] + k]
<1>1. i - 1 \in 0..Len(s) /\ i \in 0..Len(s)
  OBVIOUS
<1>2. PICK a, b : a = f[i - 1] /\ b = f[i]
  OBVIOUS
<1>3. a \in 0..Len(units) /\ b \in 0..Len(units) /\ a < b /\ s[i] = SubSeq(units, a + 1, b)
  BY <1>1, <1>2 DEF CutAt
<1>4. /\ Len(SubSeq(units, a + 1, b)) = b - a
      /\ \A k \in 1..(b - a) : SubSeq(units, a + 1, b)[k] = units[a + k]
  BY <1>3
<1> QED BY <1>2, <1>3, <1>4

LEMMA SequenceFacts ==
    ASSUME NEW A, NEW s \in Seq(A), NEW x \in A, NEW k \in 0..Len(s)
    PROVE  /\ SubSeq(s, 1, k) \in Seq(A) /\ Len(SubSeq(s, 1, k)) = k
           /\ <<x>> \in Seq(A) /\ Len(<<x>>) = 1 /\ <<x>>[1] = x
           /\ Append(s, x) = s \o <<x>> /\ Append(s, x) \in Seq(A)
OBVIOUS

LEMMA ConcatFacts ==
    ASSUME NEW A, NEW s \in Seq(A), NEW t \in Seq(A)
    PROVE  /\ s \o t \in Seq(A) /\ Len(s \o t) = Len(s) + Len(t)
           /\ \A i \in 1..(Len(s) + Len(t)) :
                 (s \o t)[i] = IF i <= Len(s) THEN s[i] ELSE t[i - Len(s)]
OBVIOUS

LEMMA AdjacentPieces ==
    ASSUME NEW S, NEW units \in Seq(S),
           NEW a \in 0..Len(units), NEW b \in 0..Len(units), NEW c \in 0..Len(units),
           a <= b, b <= c
    PROVE  SubSeq(units, a + 1, b) \o SubSeq(units, b + 1, c) = SubSeq(units, a + 1, c)
OBVIOUS

\* The pieces of a cut make up what they were cut from (FlattenSeq).
LEMMA FlattenCut ==
    ASSUME NEW S, NEW units \in Seq(S), NEW A, NEW s \in Seq(A),
           NEW a, NEW b, Cut(s, units, a, b)
    PROVE  FlattenSeq(s) = SubSeq(units, a + 1, b)
<1> DEFINE n == Len(s)
<1>1. PICK f : CutAt(s, units, f) /\ f[0] = a /\ f[n] = b
  BY DEF Cut
<1>2. n \in Nat
  OBVIOUS
<1>3. CASE n = 0
  <2>1. a = b /\ s = <<>> /\ a \in 0..Len(units)
    BY <1>1, <1>2, <1>3 DEF CutAt
  <2>2. FlattenSeq(s) = <<>>
    BY <2>1 DEF FlattenSeq
  <2>3. SubSeq(units, a + 1, b) = <<>>
    BY <2>1
  <2> QED BY <2>2, <2>3
<1>4. CASE n # 0
  <2> DEFINE Is(h) == h = [i \in 1..n |-> IF i = 1 THEN s[i] ELSE h[i - 1] \o s[i]]
             F == CHOOSE h : Is(h)
             G == [i \in 1..n |-> SubSeq(units, a + 1, f[i])]
  <2>1. FlattenSeq(s) = F[n]
    BY <1>4 DEF FlattenSeq
  <2>2. ASSUME NEW i \in 1..n
        PROVE  /\ i - 1 \in 0..n /\ f[i - 1] \in 0..Len(units) /\ f[i] \in 0..Len(units)
               /\ f[i - 1] < f[i]
               /\ s[i] = SubSeq(units, f[i - 1] + 1, f[i])
    <3>1. i - 1 \in 0..n /\ i \in 0..n
      BY <1>2
    <3>2. f[i - 1] \in 0..Len(units) /\ f[i] \in 0..Len(units)
      BY <1>1, <3>1 DEF CutAt
    <3>3. f[i - 1] < f[i] /\ s[i] = SubSeq(units, f[i - 1] + 1, f[i])
      BY <1>1 DEF CutAt
    <3> QED BY <3>1, <3>2, <3>3
  <2>3. a \in 0..Len(units)
    BY <1>1, <1>2 DEF CutAt
  \* Where the pieces end, nothing is lost so far.
  <2>4. ASSUME NEW i \in 2..n
        PROVE  /\ i - 1 \in 1..n
               /\ a <= f[i - 1]
               /\ SubSeq(units, a + 1, f[i - 1]) \o s[i] = SubSeq(units, a + 1, f[i])
    <3> DEFINE T == {m \in Nat : m <= n => a <= f[m]}
    <3>1. 0 \in T
      BY <1>1, <2>3
    <3>2. ASSUME NEW m \in Nat, m \in T PROVE m + 1 \in T
      <4> SUFFICES ASSUME m + 1 <= n PROVE a <= f[m + 1]
        OBVIOUS
      <4>1. PICK k \in 1..n : k = m + 1 /\ k - 1 = m
        BY <1>2
      <4>2. PICK p, q \in Nat : p = f[k - 1] /\ q = f[k] /\ p < q
        BY <2>2, <4>1
      <4>3. a <= p
        BY <3>2, <4>1, <4>2
      <4> QED BY <2>3, <4>1, <4>2, <4>3
    <3>3. i - 1 \in Nat /\ i - 1 <= n /\ i \in 1..n
      BY <1>2
    <3>4. i - 1 \in T
      <4> HIDE DEF T
      <4> QED BY <3>1, <3>2, <3>3, SetInduction
    <3>5. a <= f[i - 1]
      BY <3>3, <3>4
    <3>6. PICK p, q \in 0..Len(units) : p = f[i - 1] /\ q = f[i] /\ p < q
      BY <2>2, <3>3
    <3>7. s[i] = SubSeq(units, p + 1, q)
      BY <2>2, <3>3, <3>6
    <3>8. a <= p /\ p <= q
      BY <3>5, <3>6
    <3>9. SubSeq(units, a + 1, p) \o SubSeq(units, p + 1, q) = SubSeq(units, a + 1, q)
      BY <2>3, <3>8, AdjacentPieces
    <3>10. SubSeq(units, a + 1, f[i - 1]) \o s[i] = SubSeq(units, a + 1, f[i])
      BY <3>6, <3>7, <3>9
    <3>11. i - 1 \in 1..n
      BY <1>2
    <3> QED BY <3>5, <3>10, <3>11
  <2>5. Is(G)
    <3>1. ASSUME NEW i \in 1..n PROVE G[i] = IF i = 1 THEN s[i] ELSE G[i - 1] \o s[i]
      <4>1. CASE i = 1
        <5>1. i - 1 = 0 /\ f[i - 1] = a
          BY <1>1, <4>1
        <5>2. s[i] = SubSeq(units, a + 1, f[i])
          BY <2>2, <5>1
        <5> QED BY <4>1, <5>2
      <4>2. CASE i # 1
        <5>1. i \in 2..n
          BY <4>2
        <5>2. G[i - 1] = SubSeq(units, a + 1, f[i - 1])
          BY <2>4, <5>1
        <5> QED BY <2>4, <4>2, <5>1, <5>2
      <4> QED BY <4>1, <4>2
    <3> QED BY <3>1
  <2>6. Is(F)
    <3> HIDE DEF G, Is
    <3> QED BY <2>5
  <2> HIDE DEF F
  <2> DEFINE T == {m \in Nat : m + 1 <= n => F[m + 1] = SubSeq(units, a + 1, f[m + 1])}
  <2>7. 0 \in T
    <3>1. 1 \in 1..n
      BY <1>2, <1>4
    <3>2. F[1] = s[1]
      <4> QED BY <2>6, <3>1
    <3>3. s[1] = SubSeq(units, a + 1, f[1])
      <4>1. PICK i \in 1..n : i = 1 /\ i - 1 = 0
        BY <3>1
      <4> QED BY <1>1, <2>2, <4>1
    <3> QED BY <3>2, <3>3
  <2>8. ASSUME NEW m \in Nat, m \in T PROVE m + 1 \in T
    <3> SUFFICES ASSUME m + 1 + 1 <= n PROVE F[m + 1 + 1] = SubSeq(units, a + 1, f[m + 1 + 1])
      OBVIOUS
    <3>1. PICK i \in 2..n : i = m + 1 + 1 /\ i - 1 = m + 1
      BY <1>2
    <3>2. F[i] = F[i - 1] \o s[i]
      <4>1. i \in 1..n /\ i # 1
        OBVIOUS
      <4> QED BY <2>6, <4>1
    <3>3. F[i - 1] = SubSeq(units, a + 1, f[i - 1])
      <4>1. m + 1 <= n
        BY <1>2, <3>1
      <4> QED BY <2>8, <3>1, <4>1
    <3> QED BY <2>4, <3>1, <3>2, <3>3
  <2>9. n - 1 \in T
    <3>1. n - 1 \in Nat
      BY <1>2, <1>4
    <3> HIDE DEF T
    <3> QED BY <2>7, <2>8, <3>1, SetInduction
  <2>10. F[n] = SubSeq(units, a + 1, f[n])
    <3>1. (n - 1) + 1 = n
      BY <1>2
    <3> QED BY <1>2, <2>9, <3>1
  <2> QED BY <1>1, <2>1, <2>10
<1> QED BY <1>3, <1>4

-------------------------------------------------------------------------------
(* Flattening, step by step: g[i] is made up of the first i sequences.     *)

Grows(g, seqs, S) ==
    /\ g \in [0..Len(seqs) -> Seq(S)]
    /\ g[0] = <<>>
    /\ \A i \in 1..Len(seqs) : g[i] = g[i - 1] \o seqs[i]

LEMMA FlattenGrows ==
    ASSUME NEW S, NEW seqs \in Seq(Seq(S))
    PROVE  \E g : Grows(g, seqs, S) /\ FlattenSeq(seqs) = g[Len(seqs)]
<1> DEFINE n == Len(seqs)
           step == [i \in 1..n |-> [x \in Seq(S) |-> x \o seqs[i]]]
<1>1. n \in Nat
  OBVIOUS
<1>2. PICK g : Iterates(g, Seq(S), <<>>, step, n)
  <2>1. step \in [1..n -> [Seq(S) -> Seq(S)]] /\ <<>> \in Seq(S)
    OBVIOUS
  <2> HIDE DEF step, n
  <2> QED BY <1>1, <2>1, Iteration
<1>3. Grows(g, seqs, S)
  <2>1. g \in [0..n -> Seq(S)] /\ g[0] = <<>>
    BY <1>2 DEF Iterates
  <2>2. ASSUME NEW i \in 1..n PROVE g[i] = g[i - 1] \o seqs[i]
    <3>1. i - 1 \in 0..n
      BY <1>1
    <3>2. PICK x \in Seq(S) : x = g[i - 1]
      BY <2>1, <3>1
    <3>3. g[i] = step[i][g[i - 1]]
      BY <1>2 DEF Iterates
    <3>4. step[i][x] = x \o seqs[i]
      BY <3>2
    <3> QED BY <3>2, <3>3, <3>4
  <2> QED BY <2>1, <2>2 DEF Grows
<1> HIDE DEF step
<1>4. CASE n = 0
  <2>1. seqs = <<>>
    BY <1>4
  <2>2. FlattenSeq(seqs) = <<>>
    BY <2>1 DEF FlattenSeq
  <2> QED BY <1>3, <1>4, <2>2 DEF Grows
<1>5. CASE n # 0
  <2> DEFINE Is(h) == h = [i \in 1..n |-> IF i = 1 THEN seqs[i] ELSE h[i - 1] \o seqs[i]]
             F == CHOOSE h : Is(h)
             G == [i \in 1..n |-> g[i]]
  <2>1. FlattenSeq(seqs) = F[n]
    BY <1>5 DEF FlattenSeq
  <2>2. g[1] = seqs[1]
    <3>1. PICK i \in 1..n : i = 1 /\ i - 1 = 0
      BY <1>1, <1>5
    <3>2. PICK x \in Seq(S) : x = seqs[i]
      OBVIOUS
    <3>3. g[i] = g[i - 1] \o seqs[i] /\ g[0] = <<>>
      BY <1>3 DEF Grows
    <3>4. g[i] = <<>> \o x
      BY <3>1, <3>2, <3>3
    <3> QED BY <3>1, <3>2, <3>4
  <2>3. Is(G)
    <3>1. ASSUME NEW i \in 1..n PROVE G[i] = IF i = 1 THEN seqs[i] ELSE G[i - 1] \o seqs[i]
      <4>1. CASE i = 1
        BY <2>2, <4>1
      <4>2. CASE i # 1
        <5>1. i - 1 \in 1..n
          BY <1>1, <4>2
        <5>2. g[i] = g[i - 1] \o seqs[i]
          BY <1>3 DEF Grows
        <5> QED BY <4>2, <5>1, <5>2
      <4> QED BY <4>1, <4>2
    <3> QED BY <3>1
  <2>4. Is(F)
    <3> HIDE DEF G, Is
    <3> QED BY <2>3
  <2> HIDE DEF F
  <2> DEFINE T == {m \in Nat : m + 1 <= n => F[m + 1] = g[m + 1]}
  <2>5. 0 \in T
    <3>1. 1 \in 1..n
      BY <1>1, <1>5
    <3>2. F[1] = seqs[1]
      BY <2>4, <3>1
    <3> QED BY <2>2, <3>2
  <2>6. ASSUME NEW m \in Nat, m \in T PROVE m + 1 \in T
    <3> SUFFICES ASSUME m + 1 + 1 <= n PROVE F[m + 1 + 1] = g[m + 1 + 1]
      OBVIOUS
    <3>1. PICK i \in 1..n : i = m + 1 + 1 /\ i - 1 = m + 1 /\ i # 1
      BY <1>1
    <3>2. F[i] = F[i - 1] \o seqs[i]
      BY <2>4, <3>1
    <3>3. F[i - 1] = g[i - 1]
      <4>1. m + 1 <= n
        BY <1>1, <3>1
      <4> QED BY <2>6, <3>1, <4>1
    <3>4. g[i] = g[i - 1] \o seqs[i]
      BY <1>3 DEF Grows
    <3> QED BY <3>1, <3>2, <3>3, <3>4
  <2>7. n - 1 \in T
    <3>1. n - 1 \in Nat
      BY <1>1, <1>5
    <3> HIDE DEF T
    <3> QED BY <2>5, <2>6, <3>1, SetInduction
  <2>8. F[n] = g[n]
    <3>1. (n - 1) + 1 = n
      BY <1>1
    <3> QED BY <1>1, <2>7, <3>1
  <2> QED BY <1>3, <2>1, <2>8
<1> QED BY <1>4, <1>5

LEMMA FlattenType ==
    ASSUME NEW S, NEW seqs \in Seq(Seq(S))
    PROVE  FlattenSeq(seqs) \in Seq(S)
<1>1. PICK g : Grows(g, seqs, S) /\ FlattenSeq(seqs) = g[Len(seqs)]
  BY FlattenGrows
<1>2. Len(seqs) \in 0..Len(seqs)
  OBVIOUS
<1> QED BY <1>1, <1>2 DEF Grows

-------------------------------------------------------------------------------
(* Units.                                                                  *)

LEMMA PartsBounds ==
    ASSUME NEW words \in Nat, NEW budget \in Nat \ {0}
    PROVE  /\ Parts(words, budget) \in Nat
           /\ \A i \in 1..Parts(words, budget) : (i - 1) * budget < words
<1> DEFINE q == (words + budget - 1) \div budget
           r == (words + budget - 1) % budget
<1>1. words + budget - 1 \in Nat
  OBVIOUS
<1>2. q \in Int /\ r \in Int /\ words + budget - 1 = budget * q + r /\ 0 <= r /\ r < budget
  BY <1>1
<1>3. q >= 0
  BY <1>1
<1> HIDE DEF q, r
<1>4. ASSUME NEW i \in 1..q PROVE (i - 1) * budget < words
  BY <1>2
<1> QED BY <1>2, <1>3, <1>4 DEF Parts, q

LEMMA SplitType ==
    ASSUME NEW page \in Nat, NEW words \in Nat, NEW budget \in Nat \ {0}
    PROVE  SplitPage(page, words, budget) \in Seq(UnitSet)
<1> DEFINE n == Parts(words, budget)
<1>1. n \in Nat
  BY PartsBounds
<1>2. ASSUME NEW i \in 1..n
      PROVE  Unit(page, i, Smaller(budget, words - (i - 1) * budget)) \in UnitSet
  <2>1. (i - 1) * budget < words
    BY PartsBounds
  <2>2. PICK x \in Int : x = (i - 1) * budget
    BY <1>1
  <2>3. Smaller(budget, words - x) \in Nat
    BY <2>1, <2>2 DEF Smaller
  <2> QED BY <2>2, <2>3 DEF Unit, UnitSet
<1> HIDE DEF n
<1> QED BY <1>1, <1>2 DEF SplitPage, n

LEMMA UnitsType ==
    ASSUME NEW pages \in Seq(Nat), NEW budget \in Nat \ {0}
    PROVE  UnitsOf(pages, budget) \in Seq(UnitSet)
<1> DEFINE split == [p \in 1..Len(pages) |-> SplitPage(p, pages[p], budget)]
<1>1. ASSUME NEW p \in 1..Len(pages) PROVE SplitPage(p, pages[p], budget) \in Seq(UnitSet)
  <2>1. p \in Nat /\ pages[p] \in Nat
    OBVIOUS
  <2> QED BY <2>1, SplitType
<1>2. split \in Seq(Seq(UnitSet))
  BY <1>1
<1> HIDE DEF split
<1> QED BY <1>2, FlattenType DEF UnitsOf, split

-------------------------------------------------------------------------------
(* Chunks.                                                                 *)

\* A unit is added to the chunks of the n units before it.
LEMMA WithUnitCut ==
    ASSUME NEW S, NEW units \in Seq(S), NEW chunks \in Seq(Seq(S)), NEW n \in Nat,
           n + 1 <= Len(units), Cut(chunks, units, 0, n)
    PROVE  /\ Cut(Append(chunks, <<units[n + 1]>>), units, 0, n + 1)
           /\ chunks # <<>> =>
                Cut(Append(Front(chunks), Append(Last(chunks), units[n + 1])),
                    units, 0, n + 1)
<1> DEFINE u == units[n + 1]
           m == Len(chunks)
<1>1. PICK f : CutAt(chunks, units, f) /\ f[0] = 0 /\ f[m] = n
  BY DEF Cut
<1>2. m \in Nat /\ u \in S /\ n \in 0..Len(units) /\ n + 1 \in 0..Len(units)
  OBVIOUS
<1>3. <<u>> = SubSeq(units, n + 1, n + 1)
  OBVIOUS
<1>4. Cut(Append(chunks, <<u>>), units, 0, n + 1)
  <2>1. Cut(<<SubSeq(units, n + 1, n + 1)>>, units, n, n + 1)
    <3>1. n < n + 1
      OBVIOUS
    <3> QED BY <1>2, <3>1, CutOne
  <2>2. Cut(<<<<u>>>>, units, n, n + 1)
    BY <1>3, <2>1
  <2>3. <<<<u>>>> \in Seq(Seq(S)) /\ Append(chunks, <<u>>) = chunks \o <<<<u>>>>
    <3>1. <<u>> \in Seq(S)
      BY <1>2
    <3>2. 0 \in 0..m
      BY <1>2
    <3> QED BY <3>1, <3>2, SequenceFacts
  <2>4. Cut(chunks \o <<<<u>>>>, units, 0, n + 1)
    BY <2>2, <2>3, CutConcat
  <2> QED BY <2>3, <2>4
<1>5. ASSUME chunks # <<>>
      PROVE  Cut(Append(Front(chunks), Append(Last(chunks), u)), units, 0, n + 1)
  <2>1. m \in 1..m /\ m - 1 \in 0..m /\ m \in 0..m
    BY <1>2, <1>5
  <2>2. PICK p \in 0..Len(units) : p = f[m - 1]
    BY <1>1, <2>1 DEF CutAt
  <2>3. p < n /\ chunks[m] = SubSeq(units, p + 1, n)
    BY <1>1, <2>1, <2>2 DEF CutAt
  <2>4. Front(chunks) = SubSeq(chunks, 1, m - 1) /\ Last(chunks) = chunks[m]
    BY DEF Front, Last
  <2> DEFINE front == SubSeq(chunks, 1, m - 1)
             last  == SubSeq(units, p + 1, n + 1)
  <2>5. Append(chunks[m], u) = last
    BY <1>2, <2>3
  <2>6. Cut(front, units, 0, p)
    <3> DEFINE g == [i \in 0..(m - 1) |-> f[i]]
    <3>1. front \in Seq(Seq(S)) /\ Len(front) = m - 1
      <4>1. <<>> \in Seq(S)
        OBVIOUS
      <4>2. m - 1 \in 0..Len(chunks)
        BY <2>1
      <4>3. front \in Seq(Seq(S))
        BY <4>1, <4>2, SequenceFacts
      <4>4. PICK k \in 0..Len(chunks) : k = m - 1
        BY <4>2
      <4>5. Len(SubSeq(chunks, 1, k)) = k
        OBVIOUS
      <4> QED BY <4>3, <4>4, <4>5
    <3>2. g \in [0..(m - 1) -> 0..Len(units)]
      BY <1>1, <2>1 DEF CutAt
    <3>3. ASSUME NEW i \in 1..(m - 1)
          PROVE  g[i - 1] < g[i] /\ front[i] = SubSeq(units, g[i - 1] + 1, g[i])
      <4>1. i \in 1..m /\ g[i] = f[i] /\ g[i - 1] = f[i - 1] /\ front[i] = chunks[i]
        BY <2>1
      <4> QED BY <1>1, <4>1 DEF CutAt
    <3>4. g[0] = 0 /\ g[m - 1] = p
      BY <1>1, <2>1, <2>2
    <3> HIDE DEF g, front
    <3>5. CutAt(front, units, g)
      BY <3>1, <3>2, <3>3 DEF CutAt
    <3> QED BY <3>1, <3>4, <3>5 DEF Cut
  <2>7. Cut(<<last>>, units, p, n + 1)
    <3>1. p < n + 1
      BY <2>3
    <3> QED BY <1>2, <3>1, CutOne
  <2>8. /\ front \in Seq(Seq(S)) /\ <<last>> \in Seq(Seq(S))
        /\ Append(front, last) = front \o <<last>>
    <3>1. last \in Seq(S)
      BY <1>2, <2>2, <2>3
    <3>2. front \in Seq(Seq(S))
      BY <2>1, <3>1, SequenceFacts
    <3>3. 0 \in 0..Len(front)
      BY <3>2
    <3> HIDE DEF front, last
    <3> QED BY <3>1, <3>2, <3>3, SequenceFacts
  <2>9. Cut(front \o <<last>>, units, 0, n + 1)
    BY <2>6, <2>7, <2>8, CutConcat
  <2>10. Append(Front(chunks), Append(Last(chunks), u)) = front \o <<last>>
    BY <2>4, <2>5, <2>8
  <2> QED BY <2>9, <2>10
<1> QED BY <1>4, <1>5

\* buildTextChunks, for any units and any range: the chunks are the units, cut
\* into consecutive non-empty pieces; no unit is lost, repeated or moved,
\* whatever the words of the units and the bounds of the range are.
THEOREM ChunksAreCut ==
    ASSUME NEW S, NEW units \in Seq(S), NEW r
    PROVE  /\ ChunksOf(units, r) \in Seq(Seq(S))
           /\ Cut(ChunksOf(units, r), units, 0, Len(units))
<1> DEFINE N == Len(units)
           with(n) == [chunks \in Seq(Seq(Range(units))) |->
                         IF chunks = <<>> \/ Closes(Last(chunks), units[n], r)
                         THEN Append(chunks, <<units[n]>>)
                         ELSE Append(Front(chunks), Append(Last(chunks), units[n]))]
           Is(h) == h = [n \in 0..N |-> IF n = 0 THEN <<>> ELSE with(n)[h[n - 1]]]
           packed == CHOOSE h : Is(h)
<1>1. ChunksOf(units, r) = packed[N]
  BY DEF ChunksOf
<1> DEFINE R == Range(units)
           V == Seq(Seq(R))
<1>2. N \in Nat /\ units \in Seq(R) /\ \A n \in 1..N : units[n] \in R
  <2>1. \A n \in 1..N : units[n] \in R
    BY DEF Range
  <2> HIDE DEF R
  <2> QED BY <2>1
<1>3. ASSUME NEW c \in V, NEW n
      PROVE  with(n)[c] = IF c = <<>> \/ Closes(Last(c), units[n], r)
                          THEN Append(c, <<units[n]>>)
                          ELSE Append(Front(c), Append(Last(c), units[n]))
  OBVIOUS
<1>4. ASSUME NEW c \in V, NEW n \in 1..N PROVE with(n)[c] \in V
  <2> DEFINE u == units[n]
  <2>0. u \in R
    BY <1>2
  <2> HIDE DEF u
  <2>1. Append(c, <<u>>) \in V
    <3>1. <<u>> \in Seq(R)
      BY <2>0
    <3> QED BY <3>1
  <2>2. c # <<>> => Append(Front(c), Append(Last(c), u)) \in V
    <3> SUFFICES ASSUME c # <<>> PROVE Append(Front(c), Append(Last(c), u)) \in V
      OBVIOUS
    <3>1. Len(c) \in 1..Len(c) /\ Len(c) - 1 \in 0..Len(c)
      OBVIOUS
    <3>2. Last(c) \in Seq(R)
      BY <3>1 DEF Last
    <3>3. Append(Last(c), u) \in Seq(R)
      BY <2>0, <3>2
    <3>4. Front(c) \in Seq(Seq(R))
      BY <3>1, <3>2, SequenceFacts DEF Front
    <3> QED BY <3>3, <3>4
  <2> HIDE DEF with, V, R
  <2> QED BY <1>3, <2>1, <2>2 DEF u
<1> HIDE DEF with, V, R
<1>5. Is(packed)
  <2> DEFINE step == [i \in 1..N |-> [c \in V |-> with(i)[c]]]
  <2>1. step \in [1..N -> [V -> V]]
    BY <1>4
  <2>2. N \in Nat /\ <<>> \in V
    BY <1>2 DEF V
  <2>3. PICK g : Iterates(g, V, <<>>, step, N)
    <3> HIDE DEF step, N, Is, packed
    <3> QED BY <2>1, <2>2, Iteration
  <2>4. ASSUME NEW i \in 1..N PROVE g[i] = with(i)[g[i - 1]]
    <3>1. g[i - 1] \in V
      BY <2>2, <2>3 DEF Iterates
    <3> QED BY <2>3, <3>1 DEF Iterates
  <2>5. g = [n \in 0..N |-> IF n = 0 THEN <<>> ELSE with(n)[g[n - 1]]]
    <3>1. ASSUME NEW n \in 0..N
          PROVE  g[n] = IF n = 0 THEN <<>> ELSE with(n)[g[n - 1]]
      <4>1. n # 0 => n \in 1..N
        OBVIOUS
      <4> QED BY <2>3, <2>4, <4>1 DEF Iterates
    <3>2. g \in [0..N -> V]
      BY <2>3 DEF Iterates
    <3> QED BY <3>1, <3>2
  <2>6. Is(g)
    BY <2>5
  <2> HIDE DEF Is
  <2> QED BY <2>6
<1> HIDE DEF packed
<1> DEFINE T == {n \in Nat : n <= N => packed[n] \in V /\ Cut(packed[n], units, 0, n)}
<1>6. 0 \in T
  <2>1. packed[0] = <<>>
    BY <1>2, <1>5
  <2>2. Cut(<<>>, units, 0, 0)
    BY <1>2, CutEmpty
  <2>3. <<>> \in V
    BY DEF V
  <2> QED BY <2>1, <2>2, <2>3
<1>7. ASSUME NEW n \in Nat, n \in T PROVE n + 1 \in T
  <2> SUFFICES ASSUME n + 1 <= N
               PROVE  packed[n + 1] \in V /\ Cut(packed[n + 1], units, 0, n + 1)
    OBVIOUS
  <2> DEFINE c == packed[n]
             u == units[n + 1]
  <2>1. n <= N /\ n + 1 \in 1..N /\ n + 1 \in 0..N /\ n + 1 # 0 /\ (n + 1) - 1 = n
    BY <1>2
  <2>2. c \in V /\ Cut(c, units, 0, n) /\ u \in R
    BY <1>2, <1>7, <2>1
  <2>3. packed[n + 1] = with(n + 1)[c]
    BY <1>5, <2>1
  <2>4. /\ Cut(Append(c, <<u>>), units, 0, n + 1)
        /\ c # <<>> => Cut(Append(Front(c), Append(Last(c), u)), units, 0, n + 1)
    BY <1>2, <2>1, <2>2, WithUnitCut DEF V
  <2> HIDE DEF c
  <2>5. Cut(with(n + 1)[c], units, 0, n + 1)
    BY <1>3, <2>2, <2>4
  <2> QED BY <1>4, <2>2, <2>3, <2>5
<1>8. N \in T
  <2> HIDE DEF T
  <2> QED BY <1>2, <1>6, <1>7, SetInduction
<1>9. packed[N] \in Seq(Seq(R)) /\ Cut(packed[N], units, 0, N)
  BY <1>2, <1>8 DEF V
<1>10. packed[N] \in Seq(Seq(S))
  BY <1>9, CutType
<1> QED BY <1>1, <1>9, <1>10

-------------------------------------------------------------------------------
(* Batches.                                                                *)

\* What is left of units when the first m are dealt with (remainingUnits).
After(units, m) == SubSeq(units, m + 1, Len(units))

LEMMA AfterFacts ==
    ASSUME NEW S, NEW units \in Seq(S), NEW m \in 0..Len(units)
    PROVE  /\ After(units, m) \in Seq(S)
           /\ Len(After(units, m)) = Len(units) - m
           /\ After(units, 0) = units
           /\ After(units, m) = <<>> => m = Len(units)
BY DEF After

LEMMA AfterAfter ==
    ASSUME NEW S, NEW units \in Seq(S), NEW m \in 0..Len(units),
           NEW b \in 0..Len(units), m <= b
    PROVE  After(After(units, m), b - m) = After(units, b)
BY DEF After

\* A batch that goes on where the last one ended leaves what follows it
\* (consumedUnits).
LEMMA AfterBatch ==
    ASSUME NEW S, NEW units \in Seq(S), NEW A, NEW batch \in Seq(A),
           NEW m, NEW b, Cut(batch, units, m, b)
    PROVE  /\ m \in 0..Len(units) /\ b \in 0..Len(units) /\ m <= b
           /\ FlattenSeq(batch) = SubSeq(units, m + 1, b)
           /\ After(After(units, m), Len(FlattenSeq(batch))) = After(units, b)
<1>1. m \in 0..Len(units) /\ b \in 0..Len(units)
  BY CutType
<1>2. m <= b
  BY CutOrdered
<1>3. FlattenSeq(batch) = SubSeq(units, m + 1, b)
  BY FlattenCut
<1>4. Len(SubSeq(units, m + 1, b)) = b - m
  BY <1>1, <1>2
<1> QED BY <1>1, <1>2, <1>3, <1>4, AfterAfter

\* The first k chunks of what is left go on where the last batch ended.
LEMMA BatchIsNext ==
    ASSUME NEW S, NEW units \in Seq(S), NEW m \in 0..Len(units), NEW r,
           NEW k \in 0..Len(ChunksOf(After(units, m), r)), NEW batch,
           batch = SubSeq(ChunksOf(After(units, m), r), 1, k)
    PROVE  batch \in Seq(Seq(S)) /\ \E b : Cut(batch, units, m, b)
<1> DEFINE rest == After(units, m)
<1>1. rest \in Seq(S) /\ Len(units) \in 0..Len(units) /\ m <= Len(units)
  BY AfterFacts
<1>2. ChunksOf(rest, r) \in Seq(Seq(S)) /\ Cut(ChunksOf(rest, r), rest, 0, Len(rest))
  BY <1>1, ChunksAreCut
<1>3. PICK b \in 0..Len(rest) : Cut(batch, rest, 0, b)
  BY <1>1, <1>2, CutSplit
<1>4. batch \in Seq(Seq(S))
  <2>1. <<>> \in Seq(S)
    OBVIOUS
  <2> QED BY <1>2, <2>1, SequenceFacts
<1>5. Cut(batch, units, m, m + b)
  <2>1. m + 0 = m
    OBVIOUS
  <2>2. Cut(batch, units, m + 0, m + b)
    BY <1>1, <1>3, <1>4, CutNested DEF After
  <2> QED BY <2>1, <2>2
<1> QED BY <1>4, <1>5

\* Something is chunked, and a chunk takes something.
LEMMA CutAdvances ==
    ASSUME NEW S, NEW units \in Seq(S), NEW A, NEW s \in Seq(A), NEW a, NEW b,
           Cut(s, units, a, b)
    PROVE  s # <<>> <=> a < b
<1>1. PICK f : CutAt(s, units, f) /\ f[0] = a /\ f[Len(s)] = b
  BY DEF Cut
<1>2. Len(s) \in Nat /\ Len(units) \in Nat
  OBVIOUS
<1>3. CASE s = <<>>
  <2>1. Len(s) = 0 /\ f[0] \in Nat
    BY <1>1, <1>3 DEF CutAt
  <2> QED BY <1>1, <1>3, <2>1
<1>4. CASE s # <<>>
  <2>1. 1 \in 1..Len(s) /\ 1 \in 0..Len(s) /\ Len(s) \in 0..Len(s) /\ 1 <= Len(s) /\ 1 - 1 = 0
    BY <1>2, <1>4
  <2>2. f[1 - 1] < f[1] /\ f[0] \in 0..Len(units)
    BY <1>1, <2>1 DEF CutAt
  <2>3. PICK p, q, r : p = f[0] /\ q = f[1] /\ r = f[Len(s)]
    OBVIOUS
  <2>4. q \in Nat /\ r \in Nat /\ q <= r
    BY <1>1, <1>2, <2>1, <2>3, CutAtOrdered
  <2>5. p \in Nat /\ p < q
    BY <2>1, <2>2, <2>3
  <2> QED BY <1>1, <1>4, <2>3, <2>4, <2>5
<1> QED BY <1>3, <1>4

LEMMA SomeChunk ==
    ASSUME NEW S, NEW units \in Seq(S), units # <<>>, NEW r
    PROVE  Len(ChunksOf(units, r)) \in Nat \ {0}
<1>1. PICK chunks \in Seq(Seq(S)) :
         chunks = ChunksOf(units, r) /\ Cut(chunks, units, 0, Len(units))
  BY ChunksAreCut
<1>2. Len(units) \in Nat /\ 0 < Len(units)
  OBVIOUS
<1>3. chunks # <<>>
  BY <1>1, <1>2, CutAdvances
<1> QED BY <1>1, <1>3

-------------------------------------------------------------------------------
(* Pages.  The units of page p are those after the e[p - 1]-th, up to the  *)
(* e[p]-th, and they are numbered from one.                                *)

PageEnds(e, units, n) ==
    /\ e \in [0..n -> Nat] /\ e[0] = 0 /\ e[n] = Len(units)
    /\ \A p \in 1..n :
          /\ e[p - 1] <= e[p] /\ e[p] <= Len(units)
          /\ \A k \in (e[p - 1] + 1)..e[p] :
                units[k].page = p /\ units[k].part = k - e[p - 1]

LEMMA SplitParts ==
    ASSUME NEW page \in Nat, NEW words \in Nat, NEW budget \in Nat \ {0}
    PROVE  \A i \in 1..Len(SplitPage(page, words, budget)) :
              /\ SplitPage(page, words, budget)[i].page = page
              /\ SplitPage(page, words, budget)[i].part = i
<1>1. Parts(words, budget) \in Nat
  BY PartsBounds
<1> QED BY <1>1 DEF SplitPage, Unit

LEMMA UnitsByPage ==
    ASSUME NEW pages \in Seq(Nat), NEW budget \in Nat \ {0}
    PROVE  \E e : PageEnds(e, UnitsOf(pages, budget), Len(pages))
<1> DEFINE n == Len(pages)
           split == [p \in 1..n |-> SplitPage(p, pages[p], budget)]
           units == UnitsOf(pages, budget)
<1>1. n \in Nat
  OBVIOUS
<1>2. ASSUME NEW p \in 1..n PROVE SplitPage(p, pages[p], budget) \in Seq(UnitSet)
  <2>1. p \in Nat /\ pages[p] \in Nat
    OBVIOUS
  <2> QED BY <2>1, SplitType
<1>3. split \in Seq(Seq(UnitSet)) /\ Len(split) = n /\ \A p \in 1..n : split[p] = SplitPage(p, pages[p], budget)
  BY <1>1, <1>2
<1>4. ASSUME NEW p \in 1..n, NEW i \in 1..Len(split[p])
      PROVE  split[p][i].page = p /\ split[p][i].part = i
  <2>1. p \in Nat /\ pages[p] \in Nat
    OBVIOUS
  <2>2. \A j \in 1..Len(SplitPage(p, pages[p], budget)) :
           /\ SplitPage(p, pages[p], budget)[j].page = p
           /\ SplitPage(p, pages[p], budget)[j].part = j
    BY <2>1, SplitParts
  <2>3. split[p] = SplitPage(p, pages[p], budget)
    BY <1>3
  <2> HIDE DEF split
  <2> QED BY <2>2, <2>3
<1>5. units = FlattenSeq(split)
  BY DEF UnitsOf
<1> HIDE DEF split, units
<1>6. PICK g : Grows(g, split, UnitSet) /\ FlattenSeq(split) = g[n]
  BY <1>3, FlattenGrows
<1>7. g \in [0..n -> Seq(UnitSet)] /\ g[0] = <<>> /\ \A p \in 1..n : g[p] = g[p - 1] \o split[p]
  BY <1>3, <1>6 DEF Grows
<1> DEFINE e == [p \in 0..n |-> Len(g[p])]
<1>8. e \in [0..n -> Nat] /\ e[0] = 0
  BY <1>1, <1>7
<1>9. ASSUME NEW p \in 1..n
      PROVE  /\ p - 1 \in 0..n /\ p \in 0..n /\ e[p - 1] \in Nat /\ e[p] \in Nat
             /\ e[p - 1] <= e[p]
             /\ \A k \in 1..e[p] : g[p][k] = IF k <= e[p - 1] THEN g[p - 1][k]
                                             ELSE split[p][k - e[p - 1]]
             /\ \A k \in (e[p - 1] + 1)..e[p] :
                   g[p][k].page = p /\ g[p][k].part = k - e[p - 1]
  <2>1. p - 1 \in 0..n /\ p \in 0..n
    BY <1>1
  <2>0. g[p - 1] \in Seq(UnitSet) /\ split[p] \in Seq(UnitSet)
    <3>1. split[p] = SplitPage(p, pages[p], budget)
      BY <1>3
    <3> QED BY <1>2, <1>7, <2>1, <3>1
  <2>2. PICK x \in Seq(UnitSet), y \in Seq(UnitSet) : x = g[p - 1] /\ y = split[p]
    BY <2>0
  <2>3. g[p] = x \o y
    BY <1>7, <2>2
  <2>4. e[p - 1] = Len(x) /\ e[p] = Len(x) + Len(y)
    <3>1. e[p - 1] = Len(g[p - 1]) /\ e[p] = Len(g[p])
      BY <2>1
    <3> HIDE DEF e
    <3>2. Len(x \o y) = Len(x) + Len(y)
      OBVIOUS
    <3> QED BY <2>2, <2>3, <3>1, <3>2
  <2>5. \A k \in 1..(Len(x) + Len(y)) : (x \o y)[k] = IF k <= Len(x) THEN x[k] ELSE y[k - Len(x)]
    BY ConcatFacts
  <2>6. \A k \in (Len(x) + 1)..(Len(x) + Len(y)) :
           (x \o y)[k].page = p /\ (x \o y)[k].part = k - Len(x)
    <3> TAKE k \in (Len(x) + 1)..(Len(x) + Len(y))
    <3>1. k - Len(x) \in 1..Len(y) /\ k \in 1..(Len(x) + Len(y)) /\ ~ (k <= Len(x))
      OBVIOUS
    <3>2. y[k - Len(x)].page = p /\ y[k - Len(x)].part = k - Len(x)
      BY <1>4, <2>2, <3>1
    <3> QED BY <2>5, <3>1, <3>2
  <2> HIDE DEF e
  <2>7. PICK a, b, z : a = e[p - 1] /\ b = e[p] /\ z = g[p]
    OBVIOUS
  <2>8. /\ a = Len(x) /\ b = Len(x) + Len(y) /\ z = x \o y
        /\ a \in Nat /\ b \in Nat /\ a <= b
    BY <2>3, <2>4, <2>7
  <2>9. \A k \in 1..b : z[k] = IF k <= a THEN x[k] ELSE y[k - a]
    BY <2>5, <2>8
  <2>10. \A k \in (a + 1)..b : z[k].page = p /\ z[k].part = k - a
    BY <2>6, <2>8
  <2> QED BY <2>1, <2>2, <2>7, <2>8, <2>9, <2>10
<1> HIDE DEF e
<1> DEFINE Right(m) == \A p \in 1..m :
                          /\ e[p] <= e[m]
                          /\ \A k \in (e[p - 1] + 1)..e[p] :
                                g[m][k].page = p /\ g[m][k].part = k - e[p - 1]
           T == {m \in Nat : m <= n => Right(m)}
<1>10. 0 \in T
  OBVIOUS
<1>11. ASSUME NEW m \in Nat, m \in T PROVE m + 1 \in T
  <2> SUFFICES ASSUME m + 1 <= n, NEW p \in 1..(m + 1)
               PROVE  /\ e[p] <= e[m + 1]
                      /\ \A k \in (e[p - 1] + 1)..e[p] :
                            g[m + 1][k].page = p /\ g[m + 1][k].part = k - e[p - 1]
    OBVIOUS
  <2>1. PICK q \in 1..n : q = m + 1 /\ q - 1 = m
    BY <1>1
  <2>2. CASE p = q
    BY <1>9, <2>1, <2>2
  <2>3. CASE p # q
    <3>1. p \in 1..m /\ p \in 1..n /\ m <= n
      BY <1>1, <2>1, <2>3
    <3>2. PICK a, b, c, d \in Nat : a = e[p - 1] /\ b = e[p] /\ c = e[q - 1] /\ d = e[q]
      BY <1>9, <3>1
    <3>3. Right(m)
      BY <1>11, <3>1
    <3>4. e[p] <= e[m] /\ \A k \in (e[p - 1] + 1)..e[p] :
                              g[m][k].page = p /\ g[m][k].part = k - e[p - 1]
      BY <3>1, <3>3
    <3>5. b <= c /\ \A k \in (a + 1)..b : g[m][k].page = p /\ g[m][k].part = k - a
      BY <2>1, <3>2, <3>4
    <3>6. c <= d /\ \A k \in 1..d : g[q][k] = IF k <= c THEN g[q - 1][k] ELSE split[q][k - c]
      BY <1>9, <3>2
    <3>7. \A k \in (a + 1)..b : k \in 1..d /\ k <= c
      BY <3>5, <3>6
    <3>8. \A k \in (a + 1)..b : g[q][k] = g[m][k]
      BY <2>1, <3>6, <3>7
    <3>9. b <= d
      BY <3>5, <3>6
    <3>10. ASSUME NEW k \in (a + 1)..b
           PROVE  g[q][k].page = p /\ g[q][k].part = k - a
      <4>1. g[q][k] = g[m][k]
        BY <3>8
      <4>2. g[m][k].page = p /\ g[m][k].part = k - a
        BY <3>5
      <4> QED BY <4>1, <4>2
    <3> QED BY <2>1, <3>2, <3>9, <3>10
  <2> QED BY <2>2, <2>3
<1>12. n \in T
  <2> HIDE DEF T
  <2> QED BY <1>1, <1>10, <1>11, SetInduction
<1>13. units = g[n] /\ e[n] = Len(units)
  BY <1>1, <1>5, <1>6 DEF e
<1>14. PageEnds(e, units, n)
  BY <1>8, <1>9, <1>12, <1>13 DEF PageEnds
<1> QED BY <1>14 DEF units

\* Every unit is among those of a page.
LEMMA PageIn ==
    ASSUME NEW units, NEW n \in Nat, NEW e, PageEnds(e, units, n), NEW k \in 1..Len(units)
    PROVE  \E q \in 1..n : e[q - 1] < k /\ k <= e[q]
<1>1. e \in [0..n -> Nat] /\ e[0] = 0 /\ e[n] = Len(units)
  BY DEF PageEnds
<1> DEFINE T == {m \in 0..n : k <= e[m]}
<1>2. T \subseteq Nat /\ n \in T
  BY <1>1
<1>3. T # {}
  BY <1>2
<1>4. PICK q \in T : \A m \in T : ~ (m < q)
  <2> HIDE DEF T
  <2> QED BY <1>2, <1>3, LeastNumber
<1>5. q \in 0..n /\ k <= e[q] /\ q # 0
  BY <1>1, <1>4
<1>6. q \in 1..n /\ q - 1 \in 0..n /\ q - 1 < q
  BY <1>5
<1>7. ~ (k <= e[q - 1])
  BY <1>4, <1>6
<1>8. e[q - 1] \in Nat
  BY <1>1, <1>6
<1> QED BY <1>5, <1>6, <1>7, <1>8

\* A unit is of page p when it is one of those.
LEMMA PageOf ==
    ASSUME NEW S, NEW units \in Seq(S), NEW n \in Nat, NEW e, PageEnds(e, units, n),
           NEW p \in 1..n, NEW k \in 1..Len(units)
    PROVE  /\ e[p - 1] \in Nat /\ e[p] \in Nat /\ e[p - 1] <= e[p] /\ e[p] <= Len(units)
           /\ units[k].page = p <=> e[p - 1] < k /\ k <= e[p]
           /\ units[k].page = p => units[k].part = k - e[p - 1]
<1>1. /\ e \in [0..n -> Nat] /\ e[0] = 0 /\ e[n] = Len(units)
      /\ \A q \in 1..n :
            /\ e[q - 1] <= e[q] /\ e[q] <= Len(units)
            /\ \A j \in (e[q - 1] + 1)..e[q] :
                  units[j].page = q /\ units[j].part = j - e[q - 1]
  BY DEF PageEnds
<1>2. ASSUME NEW q \in 1..n
      PROVE  e[q - 1] \in Nat /\ e[q] \in Nat /\ e[q - 1] <= e[q] /\ e[q] <= Len(units)
  <2>1. q - 1 \in 0..n /\ q \in 0..n
    OBVIOUS
  <2> QED BY <1>1, <2>1
<1>3. ASSUME NEW q \in 1..n, e[q - 1] < k, k <= e[q]
      PROVE  units[k].page = q /\ units[k].part = k - e[q - 1]
  <2>1. PICK a, b : a = e[q - 1] /\ b = e[q]
    OBVIOUS
  <2>2. a \in Nat /\ b \in Nat /\ a < k /\ k <= b
    BY <1>2, <1>3, <2>1
  <2>3. k \in (a + 1)..b
    BY <2>2
  <2> QED BY <1>1, <2>1, <2>3
<1>4. \E q \in 1..n : e[q - 1] < k /\ k <= e[q]
  BY PageIn
<1>5. PICK q \in 1..n : e[q - 1] < k /\ k <= e[q]
  BY <1>4
<1>6. units[k].page = q /\ units[k].part = k - e[q - 1]
  BY <1>3, <1>5
<1>7. units[k].page = p => p = q
  BY <1>6
<1>8. e[p - 1] < k /\ k <= e[p] => units[k].page = p
  BY <1>3
<1> QED BY <1>2, <1>5, <1>6, <1>7, <1>8

\* A translation stands for its units: as many, with their pages and numbers.
Stands(pieces, units) ==
    /\ Len(pieces) = Len(units)
    /\ \A k \in 1..Len(units) :
          pieces[k].page = units[k].page /\ pieces[k].part = units[k].part

LEMMA StandsConcat ==
    ASSUME NEW A, NEW S, NEW r \in Seq(A), NEW s \in Seq(A),
           NEW u \in Seq(S), NEW v \in Seq(S), Stands(r, u), Stands(s, v)
    PROVE  Stands(r \o s, u \o v)
<1>1. Len(r) = Len(u) /\ Len(s) = Len(v) /\ Len(u) \in Nat /\ Len(v) \in Nat
  BY DEF Stands
<1>2. Len(r \o s) = Len(u \o v) /\ Len(u \o v) = Len(u) + Len(v)
  BY <1>1
<1>3. ASSUME NEW k \in 1..(Len(u) + Len(v))
      PROVE  (r \o s)[k].page = (u \o v)[k].page /\ (r \o s)[k].part = (u \o v)[k].part
  <2>1. /\ (r \o s)[k] = IF k <= Len(r) THEN r[k] ELSE s[k - Len(r)]
        /\ (u \o v)[k] = IF k <= Len(u) THEN u[k] ELSE v[k - Len(u)]
    BY <1>1, ConcatFacts
  <2>2. CASE k <= Len(u)
    <3>1. k \in 1..Len(u)
      BY <1>1, <2>2
    <3> QED BY <1>1, <2>1, <2>2, <3>1 DEF Stands
  <2>3. CASE ~ (k <= Len(u))
    <3>1. k - Len(u) \in 1..Len(v)
      BY <1>1, <2>3
    <3> QED BY <1>1, <2>1, <2>3, <3>1 DEF Stands
  <2> QED BY <2>2, <2>3
<1> QED BY <1>2, <1>3 DEF Stands

LEMMA StandsFlat ==
    ASSUME NEW A, NEW S, NEW outs \in Seq(Seq(A)), NEW chunks \in Seq(Seq(S)),
           Len(outs) = Len(chunks),
           \A i \in 1..Len(chunks) : Stands(outs[i], chunks[i])
    PROVE  Stands(FlattenSeq(outs), FlattenSeq(chunks))
<1> DEFINE n == Len(chunks)
<1>1. n \in Nat /\ Len(outs) = n
  OBVIOUS
<1>2. PICK g : Grows(g, outs, A) /\ FlattenSeq(outs) = g[Len(outs)]
  BY FlattenGrows
<1>3. PICK h : Grows(h, chunks, S) /\ FlattenSeq(chunks) = h[Len(chunks)]
  BY FlattenGrows
<1>4. /\ g \in [0..n -> Seq(A)] /\ g[0] = <<>>
      /\ \A i \in 1..n : g[i] = g[i - 1] \o outs[i]
  BY <1>1, <1>2 DEF Grows
<1>5. /\ h \in [0..n -> Seq(S)] /\ h[0] = <<>>
      /\ \A i \in 1..n : h[i] = h[i - 1] \o chunks[i]
  BY <1>3 DEF Grows
<1> DEFINE T == {m \in Nat : m <= n => Stands(g[m], h[m])}
<1>6. 0 \in T
  <2>1. Stands(<<>>, <<>>)
    BY DEF Stands
  <2> QED BY <1>4, <1>5, <2>1
<1>7. ASSUME NEW m \in Nat, m \in T PROVE m + 1 \in T
  <2> SUFFICES ASSUME m + 1 <= n PROVE Stands(g[m + 1], h[m + 1])
    OBVIOUS
  <2>1. PICK i \in 1..n : i = m + 1 /\ i - 1 = m /\ m \in 0..n
    BY <1>1
  <2>2. PICK r \in Seq(A) : r = g[m]
    BY <1>4, <2>1
  <2>3. PICK u \in Seq(S) : u = h[m]
    BY <1>5, <2>1
  <2>4. PICK s \in Seq(A) : s = outs[i]
    BY <1>1
  <2>5. PICK v \in Seq(S) : v = chunks[i]
    BY <1>1
  <2>6. Stands(r, u)
    BY <1>1, <1>7, <2>1, <2>2, <2>3
  <2>7. Stands(s, v)
    BY <2>4, <2>5
  <2>8. g[i] = r \o s /\ h[i] = u \o v
    BY <1>4, <1>5, <2>1, <2>2, <2>3, <2>4, <2>5
  <2> QED BY <2>1, <2>6, <2>7, <2>8, StandsConcat
<1>8. n \in T
  <2> HIDE DEF T
  <2> QED BY <1>1, <1>6, <1>7, SetInduction
<1> QED BY <1>1, <1>2, <1>3, <1>8

\* So a translation has the pages of its units.
LEMMA StandsPages ==
    ASSUME NEW pieces, NEW units, NEW n \in Nat, NEW e, Len(units) \in Nat,
           PageEnds(e, units, n), Stands(pieces, units)
    PROVE  PageEnds(e, pieces, n)
<1>1. e \in [0..n -> Nat] /\ e[0] = 0 /\ e[n] = Len(pieces)
  BY DEF PageEnds, Stands
<1>2. ASSUME NEW p \in 1..n
      PROVE  /\ e[p - 1] <= e[p] /\ e[p] <= Len(pieces)
             /\ \A k \in (e[p - 1] + 1)..e[p] :
                   pieces[k].page = p /\ pieces[k].part = k - e[p - 1]
  <2>1. /\ e[p - 1] <= e[p] /\ e[p] <= Len(units) /\ Len(pieces) = Len(units)
        /\ \A k \in (e[p - 1] + 1)..e[p] :
              units[k].page = p /\ units[k].part = k - e[p - 1]
    BY DEF PageEnds, Stands
  <2>2. p - 1 \in 0..n /\ p \in 0..n
    OBVIOUS
  <2>3. e[p - 1] \in Nat /\ e[p] \in Nat
    BY <1>1, <2>2
  <2>4. ASSUME NEW k \in (e[p - 1] + 1)..e[p]
        PROVE  pieces[k].page = p /\ pieces[k].part = k - e[p - 1]
    <3>1. k \in 1..Len(units)
      BY <2>1, <2>3
    <3>2. pieces[k].page = units[k].page /\ pieces[k].part = units[k].part
      BY <3>1 DEF Stands
    <3> QED BY <2>1, <3>2
  <2> QED BY <2>1, <2>4
<1> QED BY <1>1, <1>2 DEF PageEnds

===============================================================================
