--------------------------- MODULE BuilderProofs ---------------------------
(***************************************************************************)
(* Proofs about builds of every tree.  Files read back as they were        *)
(* scanned, in whole and in every range; threads encode alike; releases    *)
(* are local; nothing idle is stored; and what a build fails over.         *)
(*   FlattenSeq, Grouped, Ends and the chunkers are recursive or choose;   *)
(* what they compute is shown first, by induction on positions.            *)
(***************************************************************************)
EXTENDS BuiltArchive, Extrema, SequenceTheorems

-----------------------------------------------------------------------------
(* Recursive functions and the contents that parts make up.                *)

\* f starts at base and takes a step from each number to the next.
Iterates(f, n, base, step) == f[0] = base /\ \A i \in 1..n : f[i] = step[<<f[i - 1], i>>]

\* A function that starts at base and takes a step from each number to the next.
LEMMA Iterated ==
    ASSUME NEW n \in Nat, NEW S, NEW base \in S, NEW step \in [S \X (1..n) -> S]
    PROVE  \E f \in [0..n -> S] : Iterates(f, n, base, step)
<1> DEFINE G == {k \in 0..n : \E f \in [0..k -> S] :
                     f[0] = base /\ \A i \in 1..k : f[i] = step[<<f[i - 1], i>>]}
<1>1. ASSUME NEW k \in 0..n, \A j \in 0..n : j < k => j \in G
      PROVE  k \in G
  <2>1. CASE k = 0
    <3> DEFINE f == [i \in 0..k |-> base]
    <3>1. f \in [0..k -> S] /\ f[0] = base
      BY <2>1
    <3>2. 1..k = {}
      BY <2>1
    <3> QED BY <3>1, <3>2
  <2>2. CASE k # 0
    <3>1. k - 1 \in 0..n /\ k - 1 < k /\ k \in 1..n
      BY <2>2
    <3>2. PICK f \in [0..(k - 1) -> S] :
              f[0] = base /\ \A i \in 1..(k - 1) : f[i] = step[<<f[i - 1], i>>]
      BY <1>1, <3>1
    <3> DEFINE g == [i \in 0..k |-> IF i = k THEN step[<<f[k - 1], k>>] ELSE f[i]]
    <3>3. f[k - 1] \in S /\ step[<<f[k - 1], k>>] \in S
      BY <3>1
    <3>4. g \in [0..k -> S] /\ g[0] = base
      BY <2>2, <3>1, <3>2, <3>3
    <3>5. ASSUME NEW i \in 1..k PROVE g[i] = step[<<g[i - 1], i>>]
      <4>1. i - 1 \in 0..k /\ i - 1 # k /\ g[i - 1] = f[i - 1]
        BY <3>1
      <4>2. CASE i = k
        BY <4>1, <4>2
      <4>3. CASE i # k
        <5>1. i \in 1..(k - 1) /\ g[i] = f[i]
          BY <4>3, <3>1
        <5> QED BY <3>2, <4>1, <5>1
      <4> QED BY <4>2, <4>3
    <3> QED BY <3>4, <3>5
  <2> QED BY <2>1, <2>2
<1>2. \A k \in 0..n : k \in G
  <2> HIDE DEF G
  <2> QED BY <1>1, Climb
<1>3. n \in 0..n
  OBVIOUS
<1> QED BY <1>2, <1>3 DEF Iterates

\* g holds what the parts make up, from the first to each.
Flattens(parts, g) ==
    /\ g[0] = << >>
    /\ \A i \in 1..Len(parts) : g[i] = g[i - 1] \o parts[i]
    /\ FlattenSeq(parts) = g[Len(parts)]

\* The recursion of FlattenSeq has a solution on every sequence of sequences.
LEMMA FlattenExists ==
    ASSUME NEW S, NEW parts \in Seq(Seq(S))
    PROVE  \E g \in [0..Len(parts) -> Seq(S)] : Flattens(parts, g)
<1> DEFINE n == Len(parts)
           step == [x \in Seq(S) \X (1..n) |-> x[1] \o parts[x[2]]]
<1>0. n \in Nat /\ \A i \in 1..n : parts[i] \in Seq(S)
  OBVIOUS
<1>1. PICK g \in [0..n -> Seq(S)] : g[0] = << >> /\ \A i \in 1..n : g[i] = step[<<g[i - 1], i>>]
  <2> DEFINE none == << >>
             T == Seq(S)
  <2>1. step \in [T \X (1..n) -> T] /\ none \in T
    BY <1>0
  <2>0. n \in Nat
    BY <1>0
  <2> HIDE DEF step, n, none, T
  <2>2. \E g \in [0..n -> T] : Iterates(g, n, none, step)
    BY <2>0, <2>1, Iterated
  <2> QED BY <2>2 DEF none, T, Iterates
<1>2. ASSUME NEW i \in 1..n PROVE g[i] = g[i - 1] \o parts[i] /\ g[i - 1] \in Seq(S)
  <2>1. i - 1 \in 0..n
    BY <1>0
  <2> QED BY <1>1, <2>1
<1>3. CASE n = 0
  <2>1. parts = << >>
    BY <1>3
  <2>2. FlattenSeq(parts) = << >>
    BY <2>1 DEF FlattenSeq
  <2> QED BY <1>1, <1>2, <1>3, <2>2 DEF Flattens
<1>4. CASE n # 0
  <2> DEFINE Body(h) == [i \in 1..n |-> IF i = 1 THEN parts[i] ELSE h[i - 1] \o parts[i]]
             f0 == [i \in 1..n |-> g[i]]
             f == CHOOSE h : h = Body(h)
  <2>1. ASSUME NEW i \in 1..n PROVE f0[i] = IF i = 1 THEN parts[i] ELSE f0[i - 1] \o parts[i]
    <3>1. CASE i = 1
      <4>1. << >> \o parts[1] = parts[1]
        BY <1>0, <3>1
      <4>2. g[i] = g[i - 1] \o parts[i]
        BY <1>2
      <4>3. i - 1 = 0
        BY <3>1
      <4>4. g[1] = parts[1]
        BY <1>1, <3>1, <4>1, <4>2, <4>3
      <4> QED BY <3>1, <4>4
    <3>2. CASE i # 1
      <4>1. i - 1 \in 1..n
        BY <3>2, <1>0
      <4> QED BY <3>2, <4>1, <1>2
    <3> QED BY <3>1, <3>2
  <2>2. f0 = Body(f0)
    BY <2>1
  <2>3. f = Body(f)
    <3> HIDE DEF Body, f0
    <3> QED BY <2>2
  <2>4. \A i \in 1..n : f[i] = IF i = 1 THEN parts[i] ELSE f[i - 1] \o parts[i]
    <3> HIDE DEF f
    <3> QED BY <2>3
  <2>5. FlattenSeq(parts) = f[n]
    BY <1>4 DEF FlattenSeq
  <2> HIDE DEF f
  <2> DEFINE H == {k \in 0..n : k = 0 \/ f[k] = g[k]}
  <2>6. ASSUME NEW k \in 0..n, \A j \in 0..n : j < k => j \in H PROVE k \in H
    <3>1. CASE k = 0
      BY <3>1
    <3>2. CASE k = 1
      <4>1. f[1] = parts[1] /\ 1 \in 1..n
        BY <2>4, <3>2
      <4>2. k \in 1..n /\ parts[k] \in Seq(S)
        BY <1>0, <3>2, <4>1
      <4>3. g[k] = g[k - 1] \o parts[k]
        BY <1>2, <4>2
      <4>4. << >> \o parts[k] = parts[k]
        BY <4>2
      <4>5. k - 1 = 0
        BY <3>2
      <4> QED BY <1>1, <3>2, <4>1, <4>3, <4>4, <4>5
    <3>3. CASE k \notin {0, 1}
      <4>1. k - 1 \in 0..n /\ k - 1 < k /\ k - 1 # 0 /\ k \in 1..n
        BY <3>3
      <4>2. f[k - 1] = g[k - 1]
        BY <2>6, <4>1
      <4>3. f[k] = f[k - 1] \o parts[k]
        BY <2>4, <3>3, <4>1
      <4> QED BY <4>1, <4>2, <4>3, <1>2
    <3> QED BY <3>1, <3>2, <3>3
  <2>7. \A k \in 0..n : k \in H
    <3> HIDE DEF H
    <3> QED BY <2>6, <1>0, Climb
  <2>8. f[n] = g[n]
    BY <2>7, <1>0, <1>4
  <2> QED BY <1>1, <1>2, <2>5, <2>8 DEF Flattens
<1> QED BY <1>3, <1>4

-----------------------------------------------------------------------------
(* Cuts of a content, and what parts make up.                              *)

\* c[a:b] has b - a elements, those of c from a on.
LEMMA CutIs ==
    ASSUME NEW S, NEW c \in Seq(S), NEW a \in Nat, NEW b \in Nat, a <= b, b <= Len(c)
    PROVE  /\ Cut(c, a, b) \in Seq(S)
           /\ Len(Cut(c, a, b)) = b - a
           /\ \A i \in 1..(b - a) : Cut(c, a, b)[i] = c[a + i]
<1>1. \A i \in (a + 1)..b : c[i] \in S
  OBVIOUS
<1>2. /\ SubSeq(c, a + 1, b) \in Seq(S)
      /\ Len(SubSeq(c, a + 1, b)) = IF a + 1 <= b THEN b - (a + 1) + 1 ELSE 0
      /\ \A i \in 1..(b - (a + 1) + 1) : SubSeq(c, a + 1, b)[i] = c[(a + 1) + i - 1]
  BY <1>1, SubSeqProperties
<1>3. ASSUME NEW i \in 1..(b - a) PROVE SubSeq(c, a + 1, b)[i] = c[a + i]
  <2>1. i \in 1..(b - (a + 1) + 1) /\ (a + 1) + i - 1 = a + i
    OBVIOUS
  <2> QED BY <1>2, <2>1
<1> QED BY <1>2, <1>3 DEF Cut

\* The same, fact by fact.
LEMMA CutSize ==
    ASSUME NEW S, NEW c \in Seq(S), NEW a \in Nat, NEW b \in Nat, a <= b, b <= Len(c)
    PROVE  Cut(c, a, b) \in Seq(S) /\ Len(Cut(c, a, b)) = b - a
BY CutIs

\* c[a:b][i] is c[a + i].
LEMMA CutAt ==
    ASSUME NEW S, NEW c \in Seq(S), NEW a \in Nat, NEW b \in Nat, a <= b, b <= Len(c),
           NEW i \in 1..(b - a)
    PROVE  Cut(c, a, b)[i] = c[a + i]
BY CutIs

\* c[a:b] is empty when b is not after a.
LEMMA CutNothing ==
    ASSUME NEW c, NEW a \in Nat, NEW b \in Nat, b <= a
    PROVE  Cut(c, a, b) = << >>
BY SubSeqEmpty DEF Cut

\* c[0:len(c)] is c.
LEMMA CutAll ==
    ASSUME NEW S, NEW c \in Seq(S)
    PROVE  Cut(c, 0, Len(c)) = c
BY SubSeqFull DEF Cut

\* A slice of a slice is a slice.
LEMMA CutOfCut ==
    ASSUME NEW S, NEW c \in Seq(S), NEW a \in Nat, NEW b \in Nat, a <= b, b <= Len(c),
           NEW i \in Nat, NEW j \in Nat, i <= j, j <= b - a
    PROVE  Cut(Cut(c, a, b), i, j) = Cut(c, a + i, a + j)
<1> DEFINE d == Cut(c, a, b)
           l == Cut(d, i, j)
           r == Cut(c, a + i, a + j)
<1>1. d \in Seq(S) /\ Len(d) = b - a /\ \A k \in 1..(b - a) : d[k] = c[a + k]
  BY CutIs
<1> HIDE DEF d
<1>2. l \in Seq(S) /\ Len(l) = j - i /\ \A k \in 1..(j - i) : l[k] = d[i + k]
  <2>1. d \in Seq(S) /\ j <= Len(d)
    BY <1>1
  <2> QED BY <2>1, CutIs
<1>3. r \in Seq(S) /\ Len(r) = (a + j) - (a + i)
      /\ \A k \in 1..((a + j) - (a + i)) : r[k] = c[(a + i) + k]
  <2>1. a + i \in Nat /\ a + j \in Nat /\ a + i <= a + j /\ a + j <= Len(c)
    OBVIOUS
  <2> QED BY <2>1, CutIs
<1> HIDE DEF l, r
<1>4. Len(l) = Len(r)
  BY <1>2, <1>3
<1>5. ASSUME NEW k \in 1..Len(l) PROVE l[k] = r[k]
  <2>1. k \in 1..(j - i) /\ i + k \in 1..(b - a) /\ k \in 1..((a + j) - (a + i))
    BY <1>2
  <2>2. a + (i + k) = (a + i) + k
    BY <2>1
  <2> QED BY <1>1, <1>2, <1>3, <2>1, <2>2
<1>6. l = r
  BY <1>2, <1>3, <1>4, <1>5, SeqEqual
<1> QED BY <1>6 DEF l, r, d

\* Two slices that meet are one.
LEMMA CutsJoin ==
    ASSUME NEW S, NEW c \in Seq(S), NEW x \in Nat, NEW y \in Nat, NEW z \in Nat,
           x <= y, y <= z, z <= Len(c)
    PROVE  Cut(c, x, y) \o Cut(c, y, z) = Cut(c, x, z)
<1> DEFINE l == Cut(c, x, y) \o Cut(c, y, z)
           r == Cut(c, x, z)
           p == Cut(c, x, y)
           q == Cut(c, y, z)
<1>0. x <= z /\ y <= Len(c)
  OBVIOUS
<1>1. p \in Seq(S) /\ Len(p) = y - x /\ \A k \in 1..(y - x) : p[k] = c[x + k]
  BY <1>0, CutIs
<1>2. q \in Seq(S) /\ Len(q) = z - y /\ \A k \in 1..(z - y) : q[k] = c[y + k]
  BY CutIs
<1>3. r \in Seq(S) /\ Len(r) = z - x /\ \A k \in 1..(z - x) : r[k] = c[x + k]
  BY <1>0, CutIs
<1> HIDE DEF p, q
<1>4. p \o q \in Seq(S) /\ Len(p \o q) = Len(p) + Len(q)
      /\ \A k \in 1..(Len(p) + Len(q)) : (p \o q)[k] = IF k <= Len(p) THEN p[k] ELSE q[k - Len(p)]
  BY <1>1, <1>2, ConcatProperties
<1> DEFINE m == p \o q
<1> HIDE DEF m, r
<1>5. Len(m) = Len(r) /\ Len(m) = z - x
  BY <1>1, <1>2, <1>3, <1>4 DEF m
<1>6. ASSUME NEW k \in 1..Len(m) PROVE m[k] = r[k]
  <2>1. k \in 1..(Len(p) + Len(q)) /\ k \in 1..(z - x)
    BY <1>1, <1>2, <1>5
  <2>2. CASE k <= y - x
    <3>1. k \in 1..(y - x) /\ m[k] = p[k]
      BY <1>1, <1>4, <2>1, <2>2 DEF m
    <3> QED BY <1>1, <1>3, <2>1, <3>1
  <2>3. CASE ~(k <= y - x)
    <3>1. k - (y - x) \in 1..(z - y) /\ y + (k - (y - x)) = x + k
      BY <2>1, <2>3
    <3>2. m[k] = q[k - (y - x)]
      BY <1>1, <1>4, <2>1, <2>3 DEF m
    <3> QED BY <1>2, <1>3, <2>1, <3>1, <3>2
  <2> QED BY <2>2, <2>3
<1>7. m = r
  <2>1. m \in Seq(S) /\ r \in Seq(S)
    BY <1>3, <1>4 DEF m
  <2> QED BY <2>1, <1>5, <1>6, SeqEqual
<1> QED BY <1>7 DEF m, p, q, r

\* What the first k of the parts make up.
Upto(parts, k) == FlattenSeq(SubSeq(parts, 1, k))

\* What the first k of the parts flatten to follows that recursion.
LEMMA Flattened ==
    ASSUME NEW S, NEW parts \in Seq(Seq(S))
    PROVE  \E g \in [0..Len(parts) -> Seq(S)] :
              Flattens(parts, g) /\ \A k \in 0..Len(parts) : Upto(parts, k) = g[k]
<1>1. PICK g \in [0..Len(parts) -> Seq(S)] : Flattens(parts, g)
  BY FlattenExists
<1>2. Len(parts) \in Nat
  OBVIOUS
<1>3. ASSUME NEW k \in 0..Len(parts) PROVE Upto(parts, k) = g[k]
  <2> DEFINE s == SubSeq(parts, 1, k)
  <2>1. s \in Seq(Seq(S)) /\ Len(s) = k /\ \A i \in 1..k : s[i] = parts[i]
    <3>1. \A i \in 1..k : parts[i] \in Seq(S)
      BY <1>2
    <3>2. /\ s \in Seq(Seq(S)) /\ Len(s) = IF 1 <= k THEN k - 1 + 1 ELSE 0
          /\ \A i \in 1..(k - 1 + 1) : s[i] = parts[1 + i - 1]
      BY <3>1, SubSeqProperties
    <3>3. k - 1 + 1 = k /\ \A i \in 1..k : 1 + i - 1 = i
      OBVIOUS
    <3> HIDE DEF s
    <3> QED BY <3>2, <3>3
  <2> HIDE DEF s
  <2>2. PICK h \in [0..Len(s) -> Seq(S)] : Flattens(s, h)
    BY <2>1, FlattenExists
  <2>3. /\ h[0] = << >> /\ FlattenSeq(s) = h[k]
        /\ \A i \in 1..k : h[i] = h[i - 1] \o s[i]
    BY <2>1, <2>2 DEF Flattens
  <2>4. /\ g[0] = << >>
        /\ \A i \in 1..Len(parts) : g[i] = g[i - 1] \o parts[i]
    BY <1>1 DEF Flattens
  <2> DEFINE G == {j \in 0..k : h[j] = g[j]}
  <2>5. ASSUME NEW j \in 0..k, \A i \in 0..k : i < j => i \in G PROVE j \in G
    <3>1. CASE j = 0
      BY <2>3, <2>4, <3>1
    <3>2. CASE j # 0
      <4>1. j - 1 \in 0..k /\ j - 1 < j /\ j \in 1..k /\ j \in 1..Len(parts)
        BY <1>2, <3>2
      <4>2. h[j - 1] = g[j - 1]
        BY <2>5, <4>1
      <4>3. h[j] = h[j - 1] \o s[j]
        BY <2>3, <4>1
      <4>4. g[j] = g[j - 1] \o parts[j]
        BY <2>4, <4>1
      <4>5. s[j] = parts[j]
        BY <2>1, <4>1
      <4> QED BY <4>2, <4>3, <4>4, <4>5
    <3> QED BY <3>1, <3>2
  <2>6. \A j \in 0..k : j \in G
    <3>1. k \in Nat
      OBVIOUS
    <3> HIDE DEF G
    <3> QED BY <2>5, <3>1, Climb
  <2>7. h[k] = g[k]
    BY <2>6
  <2> QED BY <2>3, <2>7 DEF Upto, s
<1> QED BY <1>1, <1>3

\* Each part is appended to what the ones before it flatten to.
LEMMA UptoIs ==
    ASSUME NEW S, NEW parts \in Seq(Seq(S))
    PROVE  /\ Upto(parts, 0) = << >>
           /\ Upto(parts, Len(parts)) = FlattenSeq(parts)
           /\ \A k \in 0..Len(parts) : Upto(parts, k) \in Seq(S)
           /\ \A k \in 1..Len(parts) : Upto(parts, k) = Upto(parts, k - 1) \o parts[k]
<1>1. PICK g \in [0..Len(parts) -> Seq(S)] :
          Flattens(parts, g) /\ \A k \in 0..Len(parts) : Upto(parts, k) = g[k]
  BY Flattened
<1>2. Len(parts) \in Nat
  OBVIOUS
<1>3. ASSUME NEW k \in 1..Len(parts) PROVE Upto(parts, k) = Upto(parts, k - 1) \o parts[k]
  <2>1. k \in 0..Len(parts) /\ k - 1 \in 0..Len(parts)
    BY <1>2
  <2>2. g[k] = g[k - 1] \o parts[k]
    BY <1>1 DEF Flattens
  <2> QED BY <1>1, <2>1, <2>2
<1>4. Upto(parts, 0) = << >> /\ Upto(parts, Len(parts)) = FlattenSeq(parts)
  BY <1>1, <1>2 DEF Flattens
<1>5. \A k \in 0..Len(parts) : Upto(parts, k) \in Seq(S)
  BY <1>1
<1> QED BY <1>3, <1>4, <1>5

\* Sequences over S flatten to a sequence over S.
LEMMA FlattenType ==
    ASSUME NEW S, NEW parts \in Seq(Seq(S))
    PROVE  FlattenSeq(parts) \in Seq(S)
<1>1. Len(parts) \in 0..Len(parts)
  OBVIOUS
<1> QED BY <1>1, UptoIs

\* What the first parts make up starts what more of them make up.
LEMMA UptoStarts ==
    ASSUME NEW S, NEW parts \in Seq(Seq(S))
    PROVE  \A k \in 0..Len(parts) : \A j \in 0..k :
              /\ Len(Upto(parts, j)) <= Len(Upto(parts, k))
              /\ \A x \in 1..Len(Upto(parts, j)) : Upto(parts, k)[x] = Upto(parts, j)[x]
<1> DEFINE n == Len(parts)
           U(k) == Upto(parts, k)
           G == {k \in 0..n : \A j \in 0..k : /\ Len(U(j)) <= Len(U(k))
                                             /\ \A x \in 1..Len(U(j)) : U(k)[x] = U(j)[x]}
<1>0. n \in Nat /\ \A i \in 1..n : parts[i] \in Seq(S)
  OBVIOUS
<1>1. /\ \A k \in 0..n : U(k) \in Seq(S)
      /\ \A k \in 1..n : U(k) = U(k - 1) \o parts[k]
  BY UptoIs
<1> HIDE DEF U
<1>2. ASSUME NEW k \in 0..n, \A i \in 0..n : i < k => i \in G PROVE k \in G
  <2>1. SUFFICES ASSUME NEW j \in 0..k
                 PROVE  Len(U(j)) <= Len(U(k)) /\ \A x \in 1..Len(U(j)) : U(k)[x] = U(j)[x]
    OBVIOUS
  <2>2. j \in 0..n /\ U(j) \in Seq(S) /\ Len(U(j)) \in Nat
    BY <1>0, <1>1
  <2>3. CASE j = k
    BY <2>2, <2>3
  <2>4. CASE j # k
    <3>1. k - 1 \in 0..n /\ k - 1 < k /\ k \in 1..n /\ j \in 0..(k - 1)
      BY <2>4
    <3>2. Len(U(j)) <= Len(U(k - 1)) /\ \A x \in 1..Len(U(j)) : U(k - 1)[x] = U(j)[x]
      BY <1>2, <3>1
    <3>3. U(k) = U(k - 1) \o parts[k] /\ U(k - 1) \in Seq(S) /\ parts[k] \in Seq(S)
      BY <1>0, <1>1, <3>1
    <3>4. /\ Len(U(k)) = Len(U(k - 1)) + Len(parts[k])
          /\ \A x \in 1..Len(U(k - 1)) + Len(parts[k]) :
                U(k)[x] = IF x <= Len(U(k - 1)) THEN U(k - 1)[x] ELSE parts[k][x - Len(U(k - 1))]
      <4> DEFINE p == U(k - 1)
                 q == parts[k]
      <4>1. p \in Seq(S) /\ q \in Seq(S) /\ U(k) = p \o q
        BY <3>3
      <4> HIDE DEF p, q
      <4>2. /\ Len(p \o q) = Len(p) + Len(q)
            /\ \A x \in 1..Len(p) + Len(q) :
                  (p \o q)[x] = IF x <= Len(p) THEN p[x] ELSE q[x - Len(p)]
        BY <4>1, ConcatProperties
      <4>3. /\ Len(U(k)) = Len(p) + Len(q)
            /\ \A x \in 1..Len(p) + Len(q) :
                  U(k)[x] = IF x <= Len(p) THEN p[x] ELSE q[x - Len(p)]
        BY <4>1, <4>2
      <4> QED BY <4>3 DEF p, q
    <3>5. Len(U(k - 1)) \in Nat /\ Len(parts[k]) \in Nat
      BY <3>3
    <3> DEFINE a == Len(U(j))
               b == Len(U(k - 1))
               d == Len(parts[k])
    <3>8. a \in Nat /\ b \in Nat /\ d \in Nat /\ a <= b /\ Len(U(k)) = b + d
      BY <2>2, <3>2, <3>4, <3>5
    <3>6. ASSUME NEW x \in 1..Len(U(j)) PROVE U(k)[x] = U(j)[x]
      <4>1. x \in Nat /\ x >= 1 /\ x <= Len(U(j))
        BY <2>2
      <4>2. x <= Len(U(k - 1))
        BY <2>2, <3>2, <3>5, <4>1
      <4>3. x \in 1..b + d
        <5>1. x \in Nat /\ x >= 1 /\ x <= b
          BY <4>1, <4>2
        <5> HIDE DEF b, d
        <5> QED BY <3>8, <5>1
      <4>4. U(k)[x] = U(k - 1)[x]
        BY <3>4, <4>2, <4>3
      <4> QED BY <3>2, <4>4
    <3>7. Len(U(j)) <= Len(U(k))
      <4> HIDE DEF b, d
      <4> QED BY <3>8
    <3> QED BY <3>6, <3>7
  <2> QED BY <2>3, <2>4
<1>3. \A k \in 0..n : k \in G
  <2> HIDE DEF G
  <2> QED BY <1>0, <1>2, Climb
<1> QED BY <1>3 DEF U

\* Offsets start at 0, grow by the length of each part and end at the length of the whole.
LEMMA Offsets ==
    ASSUME NEW S, NEW parts \in Seq(Seq(S))
    PROVE  /\ \A i \in 1..(Len(parts) + 1) :
                 Offset(parts, i) \in Nat /\ Offset(parts, i) <= Len(FlattenSeq(parts))
           /\ Offset(parts, 1) = 0
           /\ Offset(parts, Len(parts) + 1) = Len(FlattenSeq(parts))
           /\ \A i \in 1..Len(parts) : Offset(parts, i + 1) = Offset(parts, i) + Len(parts[i])
<1> DEFINE n == Len(parts)
<1>0. n \in Nat /\ \A i \in 1..n : parts[i] \in Seq(S)
  OBVIOUS
<1>1. ASSUME NEW i PROVE Offset(parts, i) = Len(Upto(parts, i - 1))
  BY DEF Offset, Upto
<1>2. ASSUME NEW i \in 1..(n + 1)
      PROVE Offset(parts, i) \in Nat /\ Offset(parts, i) <= Len(FlattenSeq(parts))
  <2>1. i - 1 \in 0..n /\ n \in 0..n
    BY <1>0
  <2>2. Upto(parts, i - 1) \in Seq(S) /\ Upto(parts, n) = FlattenSeq(parts)
    BY <2>1, UptoIs
  <2>3. Len(Upto(parts, i - 1)) <= Len(Upto(parts, n))
    BY <2>1, UptoStarts
  <2> QED BY <1>1, <2>2, <2>3
<1>3. Offset(parts, 1) = 0
  <2>1. Upto(parts, 0) = << >>
    BY UptoIs
  <2>2. Offset(parts, 1) = Len(Upto(parts, 1 - 1)) /\ 1 - 1 = 0
    BY <1>1
  <2> QED BY <2>1, <2>2
<1>4. Offset(parts, n + 1) = Len(FlattenSeq(parts))
  <2>1. Upto(parts, n) = FlattenSeq(parts)
    BY UptoIs
  <2>2. n + 1 - 1 = n
    BY <1>0
  <2>3. Offset(parts, n + 1) = Len(Upto(parts, n + 1 - 1))
    BY <1>1
  <2> QED BY <2>1, <2>2, <2>3
<1>5. ASSUME NEW i \in 1..n PROVE Offset(parts, i + 1) = Offset(parts, i) + Len(parts[i])
  <2>1. i - 1 \in 0..n /\ i + 1 - 1 = i
    BY <1>0
  <2>2. Upto(parts, i) = Upto(parts, i - 1) \o parts[i] /\ Upto(parts, i - 1) \in Seq(S)
    BY <2>1, UptoIs
  <2>3. Len(Upto(parts, i)) = Len(Upto(parts, i - 1)) + Len(parts[i])
    BY <1>0, <2>2, ConcatProperties
  <2>4. Offset(parts, i + 1) = Len(Upto(parts, i + 1 - 1))
    BY <1>1
  <2>5. Offset(parts, i) = Len(Upto(parts, i - 1))
    BY <1>1
  <2> QED BY <2>1, <2>3, <2>4, <2>5
<1> QED BY <1>2, <1>3, <1>4, <1>5

\* A part is found at its offset.
LEMMA PartInWhole ==
    ASSUME NEW S, NEW parts \in Seq(Seq(S)), NEW i \in 1..Len(parts)
    PROVE  /\ Offset(parts, i) \in Nat
           /\ Offset(parts, i) + Len(parts[i]) <= Len(FlattenSeq(parts))
           /\ Cut(FlattenSeq(parts), Offset(parts, i), Offset(parts, i) + Len(parts[i])) = parts[i]
<1> DEFINE n == Len(parts)
           W == FlattenSeq(parts)
           o == Offset(parts, i)
           l == Len(parts[i])
<1>0. n \in Nat /\ parts[i] \in Seq(S) /\ l \in Nat /\ W \in Seq(S) /\ Len(W) \in Nat
  BY FlattenType
<1>1. o \in Nat /\ o + l <= Len(W)
  <2>1. i \in 1..(n + 1) /\ i + 1 \in 1..(n + 1)
    BY <1>0
  <2>2. Offset(parts, i + 1) <= Len(W) /\ Offset(parts, i + 1) = o + l /\ o \in Nat
    BY <2>1, Offsets
  <2> QED BY <2>2
<1>2. ASSUME NEW x \in 1..l PROVE W[o + x] = parts[i][x]
  <2>1. i \in 0..n /\ i - 1 \in 0..n /\ n \in 0..n /\ i \in 0..n
    BY <1>0
  <2>2. Upto(parts, i) = Upto(parts, i - 1) \o parts[i] /\ Upto(parts, i - 1) \in Seq(S)
        /\ Upto(parts, n) = W
    BY <2>1, UptoIs
  <2>3. o = Len(Upto(parts, i - 1))
    BY DEF Offset, Upto
  <2>4. /\ Len(Upto(parts, i)) = o + l
        /\ \A y \in 1..(o + l) : Upto(parts, i)[y] =
              IF y <= o THEN Upto(parts, i - 1)[y] ELSE parts[i][y - o]
    <3> HIDE DEF o, l
    <3>1. /\ Len(Upto(parts, i - 1) \o parts[i]) = Len(Upto(parts, i - 1)) + Len(parts[i])
          /\ \A y \in 1..Len(Upto(parts, i - 1)) + Len(parts[i]) :
                (Upto(parts, i - 1) \o parts[i])[y] =
                    IF y <= Len(Upto(parts, i - 1)) THEN Upto(parts, i - 1)[y]
                    ELSE parts[i][y - Len(Upto(parts, i - 1))]
      BY <1>0, <2>2, ConcatProperties
    <3> QED BY <2>2, <2>3, <3>1 DEF l
  <2> HIDE DEF o, l
  <2>5. o + x \in 1..(o + l) /\ ~(o + x <= o) /\ (o + x) - o = x
    BY <1>0, <1>1
  <2>6. Upto(parts, i)[o + x] = parts[i][x]
    BY <2>4, <2>5
  <2>7. Upto(parts, n)[o + x] = Upto(parts, i)[o + x]
    <3>1. \A j \in 0..n : \A y \in 1..Len(Upto(parts, j)) : Upto(parts, n)[y] = Upto(parts, j)[y]
      BY <2>1, UptoStarts
    <3>2. o + x \in 1..Len(Upto(parts, i))
      BY <2>4, <2>5
    <3> QED BY <2>1, <3>1, <3>2
  <2> QED BY <2>2, <2>6, <2>7
<1> DEFINE d == Cut(W, o, o + l)
<1>3. d \in Seq(S) /\ Len(d) = l /\ \A x \in 1..l : d[x] = W[o + x]
  <2> DEFINE e == o + l
  <2> HIDE DEF W, o, l
  <2>1. e \in Nat /\ o <= e /\ e - o = l /\ e <= Len(W)
    BY <1>0, <1>1
  <2> HIDE DEF e
  <2>2. /\ Cut(W, o, e) \in Seq(S) /\ Len(Cut(W, o, e)) = e - o
        /\ \A x \in 1..(e - o) : Cut(W, o, e)[x] = W[o + x]
    <3>1. W \in Seq(S)
      BY <1>0
    <3>2. o \in Nat
      BY <1>1
    <3> QED BY <2>1, <3>1, <3>2, CutIs
  <2>3. Cut(W, o, e) = d
    BY DEF e
  <2> HIDE DEF d
  <2> QED BY <2>1, <2>2, <2>3
<1>4. d = parts[i]
  <2> HIDE DEF d, W, o
  <2>1. Len(d) = Len(parts[i]) /\ \A x \in 1..Len(d) : d[x] = parts[i][x]
    BY <1>2, <1>3
  <2> QED BY <1>0, <1>3, <2>1, SeqEqual
<1> QED BY <1>1, <1>4

\* Adjacent cuts of a content make up the cut from the first to the last.
Tiles(parts, c, at) ==
    /\ \A i \in 0..Len(parts) : at[i] \in 0..Len(c)
    /\ \A i \in 1..Len(parts) : at[i - 1] <= at[i] /\ parts[i] = Cut(c, at[i - 1], at[i])

\* Slices of c that follow each other make up the slice from the first to the last.
LEMMA TilesMakeUp ==
    ASSUME NEW S, NEW c \in Seq(S), NEW parts, Len(parts) \in Nat, DOMAIN parts = 1..Len(parts),
           parts = [i \in 1..Len(parts) |-> parts[i]], NEW at, Tiles(parts, c, at)
    PROVE  /\ parts \in Seq(Seq(S))
           /\ at[0] <= at[Len(parts)]
           /\ FlattenSeq(parts) = Cut(c, at[0], at[Len(parts)])
           /\ \A i \in 1..Len(parts) : Offset(parts, i) = at[i - 1] - at[0]
<1> DEFINE n == Len(parts)
<1>0. /\ Len(c) \in Nat
      /\ \A i \in 0..n : at[i] \in Nat /\ at[i] <= Len(c)
      /\ \A i \in 1..n : at[i - 1] <= at[i] /\ parts[i] = Cut(c, at[i - 1], at[i])
  BY DEF Tiles
<1>1. ASSUME NEW i \in 1..n PROVE parts[i] \in Seq(S)
  <2>1. i - 1 \in 0..n /\ i \in 0..n
    OBVIOUS
  <2> QED BY <1>0, <2>1, CutIs
<1>2. parts \in Seq(Seq(S))
  <2> DEFINE T == Seq(S)
  <2>1. \A i \in 1..n : parts[i] \in T
    BY <1>1
  <2> HIDE DEF T
  <2>2. parts \in [1..n -> T]
    BY <2>1
  <2>3. parts \in Seq(T)
    BY <2>2, SeqDef
  <2> QED BY <2>3 DEF T
<1> DEFINE G == {k \in 0..n : at[0] <= at[k] /\ Upto(parts, k) = Cut(c, at[0], at[k])}
<1>3. ASSUME NEW k \in 0..n, \A i \in 0..n : i < k => i \in G PROVE k \in G
  <2>1. CASE k = 0
    <3>1. at[0] \in Nat
      BY <1>0, <2>1
    <3>2. Cut(c, at[0], at[0]) = << >> /\ at[0] <= at[0]
      BY <3>1, CutNothing
    <3>3. Upto(parts, 0) = << >>
      BY <1>2, UptoIs
    <3> QED BY <2>1, <3>2, <3>3
  <2>2. CASE k # 0
    <3>1. k - 1 \in 0..n /\ k - 1 < k /\ k \in 1..n /\ 0 \in 0..n
      BY <2>2
    <3>2. at[0] <= at[k - 1] /\ Upto(parts, k - 1) = Cut(c, at[0], at[k - 1])
      BY <1>3, <3>1
    <3>3. Upto(parts, k) = Upto(parts, k - 1) \o parts[k]
      BY <1>2, <3>1, UptoIs
    <3>4. at[k - 1] <= at[k] /\ parts[k] = Cut(c, at[k - 1], at[k])
          /\ at[0] \in Nat /\ at[k - 1] \in Nat /\ at[k] \in Nat /\ at[k] <= Len(c)
      BY <1>0, <3>1
    <3>5. Cut(c, at[0], at[k - 1]) \o Cut(c, at[k - 1], at[k]) = Cut(c, at[0], at[k])
      BY <3>2, <3>4, CutsJoin
    <3>6. at[0] <= at[k]
      BY <3>2, <3>4
    <3> QED BY <3>2, <3>3, <3>4, <3>5, <3>6
  <2> QED BY <2>1, <2>2
<1>4. \A k \in 0..n : k \in G
  <2> HIDE DEF G
  <2> QED BY <1>3, Climb
<1>5. ASSUME NEW i \in 1..n PROVE Offset(parts, i) = at[i - 1] - at[0]
  <2>1. i - 1 \in 0..n /\ 0 \in 0..n
    OBVIOUS
  <2>2. Upto(parts, i - 1) = Cut(c, at[0], at[i - 1]) /\ at[0] <= at[i - 1]
    BY <1>4, <2>1
  <2>3. Len(Cut(c, at[0], at[i - 1])) = at[i - 1] - at[0]
    BY <1>0, <2>1, <2>2, CutIs
  <2> QED BY <2>2, <2>3 DEF Offset, Upto
<1>6. n \in 0..n
  OBVIOUS
<1>7. Upto(parts, n) = FlattenSeq(parts)
  BY <1>2, UptoIs
<1> QED BY <1>2, <1>4, <1>5, <1>6, <1>7

\* What the parts make up holds their elements and no others.
LEMMA FlattenRange ==
    ASSUME NEW S, NEW parts \in Seq(Seq(S)), NEW x
    PROVE  x \in ToSet(FlattenSeq(parts)) <=> \E i \in 1..Len(parts) : x \in ToSet(parts[i])
<1> DEFINE n == Len(parts)
<1>0. n \in Nat /\ \A i \in 1..n : parts[i] \in Seq(S)
  OBVIOUS
<1>a. ASSUME NEW s \in Seq(S) PROVE ToSet(s) = Range(s)
  BY DEF ToSet, Range
<1> DEFINE G == {k \in 0..n : x \in Range(Upto(parts, k)) <=> \E i \in 1..k : x \in Range(parts[i])}
<1>1. ASSUME NEW k \in 0..n, \A i \in 0..n : i < k => i \in G PROVE k \in G
  <2>1. CASE k = 0
    <3>1. Upto(parts, 0) = << >>
      BY UptoIs
    <3>3. 1..k = {}
      BY <2>1
    <3>2. Range(<< >>) = {}
      BY DEF Range
    <3> QED BY <2>1, <3>1, <3>2, <3>3
  <2>2. CASE k # 0
    <3>1. k - 1 \in 0..n /\ k - 1 < k /\ k \in 1..n
      BY <2>2
    <3>2. Upto(parts, k) = Upto(parts, k - 1) \o parts[k] /\ Upto(parts, k - 1) \in Seq(S)
      BY <3>1, UptoIs
    <3>3. Range(Upto(parts, k)) = Range(Upto(parts, k - 1)) \cup Range(parts[k])
      BY <1>0, <3>1, <3>2, RangeConcatenation
    <3>4. x \in Range(Upto(parts, k - 1)) <=> \E i \in 1..(k - 1) : x \in Range(parts[i])
      BY <1>1, <3>1
    <3>5. 1..k = (1..(k - 1)) \cup {k}
      BY <3>1
    <3> QED BY <3>3, <3>4, <3>5
  <2> QED BY <2>1, <2>2
<1>2. \A k \in 0..n : k \in G
  <2> HIDE DEF G
  <2> QED BY <1>0, <1>1, Climb
<1>8. n \in 0..n
  BY <1>0
<1>3. Upto(parts, n) = FlattenSeq(parts)
  BY UptoIs
<1>4. x \in Range(FlattenSeq(parts)) <=> \E i \in 1..n : x \in Range(parts[i])
  BY <1>2, <1>3, <1>8
<1>5. FlattenSeq(parts) \in Seq(S)
  BY FlattenType
<1>6. \A i \in 1..n : ToSet(parts[i]) = Range(parts[i])
  BY <1>0, <1>a
<1>7. ToSet(FlattenSeq(parts)) = Range(FlattenSeq(parts))
  BY <1>5, <1>a
<1> QED BY <1>4, <1>6, <1>7

\* Chunks of one size, and chunks cut anywhere, make up what was cut.
ChunksOf(parts, c) ==
    /\ parts \in Seq(Content) /\ FlattenSeq(parts) = c
    /\ \A i \in 1..Len(parts) : \E a, b \in 0..Len(c) : parts[i] = Cut(c, a, b)

\* Slices that follow each other from the start of c to its end are its chunks.
LEMMA TilesAreChunks ==
    ASSUME NEW c \in Content, NEW n \in Nat, NEW parts, DOMAIN parts = 1..n,
           parts = [i \in 1..n |-> parts[i]], NEW at, at[0] = 0, at[n] = Len(c),
           \A i \in 0..n : at[i] \in 0..Len(c),
           \A i \in 1..n : at[i - 1] <= at[i] /\ parts[i] = Cut(c, at[i - 1], at[i])
    PROVE  ChunksOf(parts, c)
<1>1. Len(parts) = n
  OBVIOUS
<1>2. Tiles(parts, c, at)
  BY <1>1 DEF Tiles
<1>3. c \in Seq(Nat)
  BY DEF Content
<1>4. parts \in Seq(Seq(Nat)) /\ FlattenSeq(parts) = Cut(c, at[0], at[n])
  BY <1>1, <1>2, <1>3, TilesMakeUp
<1>5. Cut(c, 0, Len(c)) = c
  BY <1>3, CutAll
<1>6. ASSUME NEW i \in 1..n PROVE \E a, b \in 0..Len(c) : parts[i] = Cut(c, a, b)
  <2>1. i - 1 \in 0..n /\ i \in 0..n
    OBVIOUS
  <2> QED BY <2>1
<1> QED BY <1>1, <1>4, <1>5, <1>6 DEF ChunksOf, Content

\* Cutting every Chunk bytes gives chunks of the content (codec.py:88).
LEMMA FixedChunks ==
    ASSUME NEW c \in Content
    PROVE  ChunksOf(Fixed(c), c)
<1> DEFINE l == Len(c)
           n == (l + Chunk - 1) \div Chunk
           at == [k \in 0..n |-> Smaller(k * Chunk, l)]
<1>0. Chunk \in Nat /\ Chunk # 0 /\ l \in Nat
  BY BuilderAssumption DEF Content
<1>1. n \in Nat /\ n * Chunk >= l
  <2>1. Chunk * n >= l
    BY <1>0, SMT
  <2>2. n \in Int
    BY <1>0, SMT
  <2>3. n >= 0
    BY <1>0, SMT
  <2> HIDE DEF n
  <2> QED BY <1>0, <2>1, <2>2, <2>3, SMT
<1>2. Fixed(c) = [k \in 1..n |-> Cut(c, (k - 1) * Chunk, Smaller(k * Chunk, l))]
  BY DEF Fixed
<1> HIDE DEF n, l
<1>3. at[0] = 0
  BY <1>0, <1>1, SMT DEF Smaller
<1>4. at[n] = l
  BY <1>0, <1>1, SMT DEF Smaller
<1>5. ASSUME NEW k \in 0..n PROVE at[k] \in 0..l
  <2>1. k * Chunk \in Nat
    BY <1>0, <1>1, SMT
  <2> QED BY <1>0, <2>1 DEF Smaller
<1>6. ASSUME NEW k \in 1..n
      PROVE  at[k - 1] <= at[k]
             /\ Cut(c, (k - 1) * Chunk, Smaller(k * Chunk, l)) = Cut(c, at[k - 1], at[k])
  <2>1. (k - 1) * Chunk \in Nat /\ k * Chunk \in Nat /\ (k - 1) * Chunk <= k * Chunk
    BY <1>0, <1>1, SMT
  <2>2. at[k] = Smaller(k * Chunk, l) /\ at[k - 1] = Smaller((k - 1) * Chunk, l)
    BY <1>1
  <2>3. CASE (k - 1) * Chunk < l
    BY <1>0, <2>1, <2>2, <2>3 DEF Smaller
  <2>4. CASE ~((k - 1) * Chunk < l)
    <3>1. at[k - 1] = l /\ at[k] = l
      BY <1>0, <2>1, <2>2, <2>4 DEF Smaller
    <3>2. Cut(c, l, l) = << >>
      BY <1>0, CutNothing
    <3>3. Cut(c, (k - 1) * Chunk, l) = << >>
      BY <1>0, <2>1, <2>4, CutNothing
    <3>4. Smaller(k * Chunk, l) = l
      BY <2>2, <3>1
    <3> QED BY <1>0, <3>1, <3>2, <3>3, <3>4
  <2> QED BY <1>0, <2>3, <2>4
<1> DEFINE parts == Fixed(c)
<1>7. DOMAIN parts = 1..n /\ parts = [i \in 1..n |-> parts[i]]
      /\ \A k \in 1..n : parts[k] = Cut(c, (k - 1) * Chunk, Smaller(k * Chunk, l))
  BY <1>2
<1> HIDE DEF parts, at
<1>8. at[n] = Len(c) /\ \A k \in 0..n : at[k] \in 0..Len(c)
  BY <1>4, <1>5 DEF l
<1>9. \A i \in 1..n : at[i - 1] <= at[i] /\ parts[i] = Cut(c, at[i - 1], at[i])
  BY <1>6, <1>7
<1>10. ChunksOf(parts, c)
  BY <1>1, <1>3, <1>7, <1>8, <1>9, TilesAreChunks
<1> QED BY <1>10 DEF parts

\* So does every way the chunker may cut (codec.py:79-98).
LEMMA CdcChunksMakeUp ==
    ASSUME NEW c \in Content, NEW parts \in CdcChunks(c)
    PROVE  ChunksOf(parts, c)
<1>1. CASE parts = Fixed(c)
  BY <1>1, FixedChunks
<1>2. CASE parts # Fixed(c)
  <2> DEFINE N == 1..Len(c)
  <2>1. PICK at \in N \X N : /\ at[1] < at[2] /\ at[2] < Len(c)
                             /\ parts = <<Cut(c, 0, at[1]), Cut(c, at[1], at[2]),
                                            Cut(c, at[2], Len(c))>>
    BY <1>2 DEF CdcChunks
  <2>2. at[1] \in N /\ at[2] \in N /\ Len(c) \in Nat
    BY DEF Content
  <2> DEFINE to == [k \in 0..3 |-> IF k = 0 THEN 0 ELSE IF k = 1 THEN at[1]
                                    ELSE IF k = 2 THEN at[2] ELSE Len(c)]
  <2>3. DOMAIN parts = 1..3 /\ parts = [i \in 1..3 |-> parts[i]]
    BY <2>1
  <2>4. to[0] = 0 /\ to[3] = Len(c) /\ to[1] = at[1] /\ to[2] = at[2]
    OBVIOUS
  <2>5. \A i \in 0..3 : to[i] \in 0..Len(c)
    BY <2>1, <2>2
  <2>6. parts[1] = Cut(c, to[0], to[1]) /\ parts[2] = Cut(c, to[1], to[2])
        /\ parts[3] = Cut(c, to[2], to[3])
    BY <2>1, <2>4
  <2>7. ASSUME NEW i \in 1..3 PROVE to[i - 1] <= to[i] /\ parts[i] = Cut(c, to[i - 1], to[i])
    <3>1. i = 1 \/ i = 2 \/ i = 3
      OBVIOUS
    <3>2. to[0] <= to[1] /\ to[1] <= to[2] /\ to[2] <= to[3]
      BY <2>1, <2>2, <2>4
    <3> HIDE DEF to
    <3> QED BY <2>6, <3>1, <3>2
  <2> HIDE DEF to
  <2> QED BY <2>3, <2>4, <2>5, <2>7, TilesAreChunks
<1> QED BY <1>1, <1>2

\* Ends are running sums of the lengths.
LEMMA EndsAre ==
    ASSUME NEW lens \in Seq(Nat)
    PROVE  /\ Ends(lens) \in [0..Len(lens) -> Nat]
           /\ Ends(lens)[0] = 0
           /\ \A i \in 1..Len(lens) : Ends(lens)[i] = Ends(lens)[i - 1] + lens[i]
<1> DEFINE n == Len(lens)
           step == [x \in Nat \X (1..n) |-> x[1] + lens[x[2]]]
           Body(h) == [i \in 0..n |-> IF i = 0 THEN 0 ELSE h[i - 1] + lens[i]]
           f == CHOOSE h : h = Body(h)
<1>0. n \in Nat /\ \A i \in 1..n : lens[i] \in Nat
  OBVIOUS
<1>1. PICK g \in [0..n -> Nat] : Iterates(g, n, 0, step)
  <2>1. step \in [Nat \X (1..n) -> Nat] /\ 0 \in Nat
    BY <1>0
  <2> HIDE DEF step, n
  <2> QED BY <1>0, <2>1, Iterated
<1>2. ASSUME NEW i \in 1..n PROVE g[i] = g[i - 1] + lens[i]
  <2>1. i - 1 \in 0..n
    BY <1>0
  <2>2. g[i] = step[<<g[i - 1], i>>] /\ g[i - 1] \in Nat
    BY <1>1, <2>1 DEF Iterates
  <2> QED BY <2>2
<1>3. g = Body(g)
  <2>1. g[0] = 0
    BY <1>1 DEF Iterates
  <2>2. \A i \in 0..n : g[i] = IF i = 0 THEN 0 ELSE g[i - 1] + lens[i]
    BY <1>0, <1>2, <2>1
  <2> QED BY <2>2
<1>4. f = Body(f)
  <2> HIDE DEF Body
  <2> QED BY <1>3
<1>5. Ends(lens) = f
  BY DEF Ends
<1>6. f[0] = 0 /\ \A i \in 1..n : f[i] = f[i - 1] + lens[i]
  <2> HIDE DEF f
  <2>1. \A i \in 0..n : f[i] = IF i = 0 THEN 0 ELSE f[i - 1] + lens[i]
    BY <1>4
  <2> QED BY <1>0, <2>1
<1>7. DOMAIN f = 0..n /\ f = [i \in 0..n |-> f[i]]
  <2> HIDE DEF f
  <2>1. f = [i \in 0..n |-> IF i = 0 THEN 0 ELSE f[i - 1] + lens[i]]
    BY <1>4
  <2> QED BY <2>1
<1> HIDE DEF f
<1> DEFINE G == {k \in 0..n : f[k] \in Nat}
<1>8. ASSUME NEW k \in 0..n, \A j \in 0..n : j < k => j \in G PROVE k \in G
  <2>1. CASE k = 0
    BY <1>6, <2>1
  <2>2. CASE k # 0
    <3>1. k - 1 \in 0..n /\ k - 1 < k /\ k \in 1..n
      BY <2>2
    <3>2. f[k - 1] \in Nat
      BY <1>8, <3>1
    <3> QED BY <1>0, <1>6, <3>1, <3>2
  <2> QED BY <2>1, <2>2
<1>9. \A k \in 0..n : f[k] \in Nat
  <2>1. \A k \in 0..n : k \in G
    <3> HIDE DEF G
    <3> QED BY <1>0, <1>8, Climb
  <2> QED BY <2>1
<1>10. f \in [0..n -> Nat]
  BY <1>7, <1>9
<1> QED BY <1>5, <1>6, <1>10

\* Segments end where those after them start.
LEMMA EndsOfParts ==
    ASSUME NEW S, NEW parts \in Seq(Seq(S)), NEW lens \in Seq(Nat), Len(lens) = Len(parts),
           \A i \in 1..Len(parts) : lens[i] = Len(parts[i])
    PROVE  \A i \in 0..Len(parts) : Ends(lens)[i] = Offset(parts, i + 1)
<1> DEFINE n == Len(parts)
           G == {k \in 0..n : Ends(lens)[k] = Offset(parts, k + 1)}
<1>0. n \in Nat
  OBVIOUS
<1>1. Ends(lens)[0] = 0 /\ \A i \in 1..n : Ends(lens)[i] = Ends(lens)[i - 1] + lens[i]
  BY EndsAre
<1>2. Offset(parts, 1) = 0
  BY Offsets
<1>3. \A i \in 1..n : Offset(parts, i + 1) = Offset(parts, i) + Len(parts[i])
  BY Offsets
<1>4. ASSUME NEW k \in 0..n, \A j \in 0..n : j < k => j \in G PROVE k \in G
  <2>1. CASE k = 0
    BY <1>1, <1>2, <2>1
  <2>2. CASE k # 0
    <3>1. k - 1 \in 0..n /\ k - 1 < k /\ k \in 1..n /\ (k - 1) + 1 = k
      BY <2>2
    <3>2. Ends(lens)[k - 1] = Offset(parts, k)
      BY <1>4, <3>1
    <3> QED BY <1>1, <1>3, <3>1, <3>2
  <2> QED BY <2>1, <2>2
<1>5. \A k \in 0..n : k \in G
  <2> HIDE DEF G
  <2> QED BY <1>0, <1>4, Climb
<1> QED BY <1>5

\* What the parts of a content hold of a range makes up that range of it.
LEMMA ClipsMakeUp ==
    ASSUME NEW S, NEW parts \in Seq(Seq(S)), NEW start \in Nat, NEW end \in Nat,
           start <= end, end <= Len(FlattenSeq(parts))
    PROVE  FlattenSeq([i \in 1..Len(parts) |-> Clip(parts[i], Offset(parts, i), start, end)])
               = Cut(FlattenSeq(parts), start, end)
<1> DEFINE n == Len(parts)
           W == FlattenSeq(parts)
           off(i) == Offset(parts, i)
           clips == [i \in 1..n |-> Clip(parts[i], off(i), start, end)]
           at == [i \in 0..n |-> Larger(start, Smaller(end, off(i + 1)))]
<1>0. n \in Nat /\ W \in Seq(S) /\ Len(W) \in Nat /\ \A i \in 1..n : parts[i] \in Seq(S)
  BY FlattenType
<1>1. \A i \in 1..(n + 1) : off(i) \in Nat /\ off(i) <= Len(W)
  BY Offsets
<1>2. off(1) = 0
  BY Offsets
<1>3. off(n + 1) = Len(W)
  BY Offsets
<1>4. \A i \in 1..n : off(i + 1) = off(i) + Len(parts[i])
  BY Offsets
<1>5. \A i \in 1..n : Cut(W, off(i), off(i) + Len(parts[i])) = parts[i]
  BY PartInWhole
<1> HIDE DEF W, off
<1>6. ASSUME NEW i \in 0..n PROVE at[i] \in Nat /\ at[i] <= end /\ at[i] >= start
  <2>1. off(i + 1) \in Nat
    BY <1>0, <1>1
  <2> QED BY <2>1 DEF Larger, Smaller
<1>7. at[0] = start
  <2>1. off(0 + 1) = 0
    BY <1>2
  <2>2. 0 \in 0..n
    BY <1>0
  <2> QED BY <2>1, <2>2 DEF Larger, Smaller
<1>8. at[n] = end
  <2>1. n \in 0..n
    BY <1>0
  <2>2. at[n] = Larger(start, Smaller(end, Len(W)))
    BY <1>3, <2>1
  <2>3. end <= Len(W)
    BY DEF W
  <2> HIDE DEF at
  <2> QED BY <1>0, <2>2, <2>3 DEF Larger, Smaller
<1>9. ASSUME NEW i \in 1..n PROVE at[i - 1] <= at[i] /\ clips[i] = Cut(W, at[i - 1], at[i])
  <2> DEFINE o == off(i)
             l == Len(parts[i])
             e == o + l
  <2>1. o \in Nat /\ l \in Nat /\ e \in Nat /\ e <= Len(W) /\ off(i + 1) = e
        /\ parts[i] = Cut(W, o, e) /\ o <= e
    <3>1. i \in 1..(n + 1) /\ i + 1 \in 1..(n + 1)
      BY <1>0
    <3>2. o \in Nat /\ l \in Nat /\ off(i + 1) \in Nat /\ off(i + 1) <= Len(W)
      BY <1>0, <1>1, <3>1
    <3> QED BY <1>4, <1>5, <3>2
  <2>2. at[i] = Larger(start, Smaller(end, e)) /\ at[i - 1] = Larger(start, Smaller(end, o))
    <3>1. i - 1 \in 0..n /\ i \in 0..n /\ (i - 1) + 1 = i
      BY <1>0
    <3>2. at[i - 1] = Larger(start, Smaller(end, off((i - 1) + 1)))
      BY <3>1
    <3>3. at[i] = Larger(start, Smaller(end, off(i + 1)))
      BY <3>1
    <3> HIDE DEF at
    <3> QED BY <2>1, <3>1, <3>2, <3>3
  <2>3. clips[i] = Clip(parts[i], o, start, end)
    OBVIOUS
  <2> HIDE DEF o, e, at, clips
  <2>4. CASE e > start /\ o < end
    <3> DEFINE a == Larger(start, o)
               b == Smaller(end, e)
    <3>1. a \in Nat /\ b \in Nat /\ o <= a /\ a <= b /\ b <= e /\ at[i - 1] = a /\ at[i] = b
      BY <2>1, <2>2, <2>4 DEF Larger, Smaller
    <3>2. clips[i] = Cut(parts[i], a - o, b - o)
      BY <2>3, <2>4 DEF Clip, e
    <3> HIDE DEF a, b
    <3>3. a - o \in Nat /\ b - o \in Nat /\ a - o <= b - o /\ b - o <= e - o
          /\ o + (a - o) = a /\ o + (b - o) = b
      BY <2>1, <3>1
    <3>4. Cut(Cut(W, o, e), a - o, b - o) = Cut(W, o + (a - o), o + (b - o))
      BY <1>0, <2>1, <3>3, CutOfCut
    <3> QED BY <2>1, <3>1, <3>2, <3>3, <3>4
  <2>5. CASE ~(e > start /\ o < end)
    <3>1. clips[i] = << >>
      BY <2>3, <2>5 DEF Clip, e
    <3>2. at[i - 1] = at[i] /\ at[i] \in Nat
      BY <2>1, <2>2, <2>5 DEF Larger, Smaller
    <3> QED BY <3>1, <3>2, CutNothing
  <2> QED BY <2>4, <2>5
<1>10. DOMAIN clips = 1..n /\ clips = [i \in 1..n |-> clips[i]] /\ Len(clips) = n
  BY <1>0
<1> HIDE DEF clips, at
<1>11. Tiles(clips, W, at)
  <2>1. ASSUME NEW i \in 0..n PROVE at[i] \in 0..Len(W)
    <3>1. end <= Len(W)
      BY DEF W
    <3> QED BY <1>0, <1>6, <3>1
  <2> QED BY <1>9, <1>10, <2>1 DEF Tiles
<1>12. FlattenSeq(clips) = Cut(W, at[0], at[n])
  BY <1>0, <1>10, <1>11, TilesMakeUp
<1> QED BY <1>7, <1>8, <1>12 DEF clips, W, off

-----------------------------------------------------------------------------
(* Order and groups.                                                       *)

\* The first part of a longer sequence of parts.
LEMMA FlattenAppend ==
    ASSUME NEW S, NEW parts \in Seq(Seq(S)), NEW x \in Seq(S)
    PROVE  FlattenSeq(Append(parts, x)) = FlattenSeq(parts) \o x
<1> DEFINE T == Seq(S)
           a == Append(parts, x)
           n == Len(parts)
<1>1. a \in Seq(T) /\ Len(a) = n + 1 /\ a[n + 1] = x /\ n \in Nat /\ \A i \in 1..n : a[i] = parts[i]
  <2>1. parts \in Seq(T) /\ x \in T
    OBVIOUS
  <2> HIDE DEF T
  <2> QED BY <2>1, AppendProperties
<1> HIDE DEF a
<1>2. SubSeq(a, 1, n) = parts
  <2> DEFINE s == SubSeq(a, 1, n)
  <2>1. \A i \in 1..n : a[i] \in T
    BY <1>1
  <2>2. parts \in Seq(T)
    OBVIOUS
  <2> HIDE DEF T
  <2>3. /\ s \in Seq(T) /\ Len(s) = IF 1 <= n THEN n - 1 + 1 ELSE 0
        /\ \A i \in 1..(n - 1 + 1) : s[i] = a[1 + i - 1]
    BY <1>1, <2>1, SubSeqProperties
  <2>4. n - 1 + 1 = n /\ \A i \in 1..n : 1 + i - 1 = i
    BY <1>1
  <2> HIDE DEF s
  <2>5. Len(s) = Len(parts) /\ \A i \in 1..Len(s) : s[i] = parts[i]
    BY <1>1, <2>3, <2>4
  <2> HIDE DEF n
  <2>6. s = parts
    BY <2>2, <2>3, <2>5, SeqEqual
  <2> QED BY <2>6 DEF s
<1>3. Upto(a, n + 1) = Upto(a, n) \o a[n + 1]
  <2>1. n + 1 \in 1..Len(a) /\ (n + 1) - 1 = n
    BY <1>1
  <2>2. \A k \in 1..Len(a) : Upto(a, k) = Upto(a, k - 1) \o a[k]
    BY <1>1, UptoIs
  <2>3. Upto(a, n + 1) = Upto(a, (n + 1) - 1) \o a[n + 1]
    BY <2>1, <2>2
  <2> QED BY <2>1, <2>3
<1>4. Upto(a, Len(a)) = FlattenSeq(a)
  BY <1>1, UptoIs
<1>5. Upto(a, n) = FlattenSeq(parts)
  BY <1>2 DEF Upto
<1> QED BY <1>1, <1>3, <1>4, <1>5 DEF a

\* All but the last part, and the last.
LEMMA FlattenFront ==
    ASSUME NEW S, NEW parts \in Seq(Seq(S)), parts # << >>
    PROVE  /\ Front(parts) \in Seq(Seq(S)) /\ Last(parts) \in Seq(S)
           /\ Len(Front(parts)) = Len(parts) - 1
           /\ \A i \in 1..(Len(parts) - 1) : Front(parts)[i] = parts[i]
           /\ Last(parts) = parts[Len(parts)]
           /\ FlattenSeq(parts) = FlattenSeq(Front(parts)) \o Last(parts)
<1> DEFINE n == Len(parts)
           T == Seq(S)
<1>1. n \in Nat /\ n # 0 /\ parts \in Seq(T)
  BY EmptySeq
<1>2. Front(parts) \in Seq(T) /\ Len(Front(parts)) = n - 1
      /\ \A i \in 1..(n - 1) : Front(parts)[i] = parts[i]
  <2>1. \A i \in 1..(n - 1) : parts[i] \in T
    BY <1>1
  <2> HIDE DEF T
  <2>2. /\ SubSeq(parts, 1, n - 1) \in Seq(T)
        /\ Len(SubSeq(parts, 1, n - 1)) = IF 1 <= n - 1 THEN (n - 1) - 1 + 1 ELSE 0
        /\ \A i \in 1..((n - 1) - 1 + 1) : SubSeq(parts, 1, n - 1)[i] = parts[1 + i - 1]
    BY <1>1, <2>1, SubSeqProperties
  <2>3. (n - 1) - 1 + 1 = n - 1 /\ \A i \in 1..(n - 1) : 1 + i - 1 = i
    BY <1>1
  <2> QED BY <1>1, <2>2, <2>3 DEF Front
<1>3. Last(parts) = parts[n] /\ parts[n] \in Seq(S)
  BY <1>1 DEF Last
<1>4. n \in 1..n
  BY <1>1
<1>5. Upto(parts, n) = Upto(parts, n - 1) \o parts[n]
  BY <1>4, UptoIs
<1>6. Upto(parts, n) = FlattenSeq(parts)
  BY UptoIs
<1>7. Upto(parts, n - 1) = FlattenSeq(Front(parts))
  BY DEF Upto, Front
<1> QED BY <1>2, <1>3, <1>5, <1>6, <1>7

\* The items in groups: in order, none empty, those of several items fit.
GroupsOf(gs, items, fits) ==
    /\ FlattenSeq(gs) = items
    /\ \A i \in 1..Len(gs) : gs[i] # << >> /\ (Len(gs[i]) > 1 => gs[i] \in fits)

\* One more item.
Joined(gs, x, fits) ==
    IF gs # << >> /\ Append(Last(gs), x) \in fits
    THEN Append(Front(gs), Append(Last(gs), x)) ELSE Append(gs, << x >>)

\* Adding one item to the groups leaves them groups.
LEMMA JoinedType ==
    ASSUME NEW S, NEW gs \in Seq(Seq(S)), NEW x \in S, NEW fits
    PROVE  Joined(gs, x, fits) \in Seq(Seq(S))
<1> DEFINE T == Seq(S)
<1>1. << x >> \in T
  OBVIOUS
<1>2. CASE gs # << >>
  <2>1. Front(gs) \in Seq(T) /\ Last(gs) \in T
    BY <1>2, FlattenFront
  <2>2. Append(Last(gs), x) \in T
    BY <2>1
  <2>3. gs \in Seq(T)
    OBVIOUS
  <2> HIDE DEF T
  <2>4. Joined(gs, x, fits) \in Seq(T)
    BY <1>1, <2>1, <2>2, <2>3 DEF Joined
  <2> QED BY <2>4 DEF T
<1>3. CASE gs = << >>
  BY <1>1, <1>3 DEF Joined
<1> QED BY <1>2, <1>3

\* If the groups divide the items, then with one more item they divide one more.
LEMMA JoinedGroups ==
    ASSUME NEW S, NEW gs \in Seq(Seq(S)), NEW items \in Seq(S), NEW x \in S, NEW fits,
           GroupsOf(gs, items, fits)
    PROVE  GroupsOf(Joined(gs, x, fits), Append(items, x), fits)
<1> DEFINE T == Seq(S)
<1>0. << x >> \in T /\ << x >> # << >> /\ Len(<< x >>) = 1 /\ Append(items, x) = items \o << x >>
  BY AppendIsConcat
<1>1. CASE gs # << >> /\ Append(Last(gs), x) \in fits
  <2> DEFINE f == Front(gs)
             l == Last(gs)
             m == Append(l, x)
             n == Len(f)
  <2>1. /\ f \in Seq(T) /\ l \in T
        /\ Len(f) = Len(gs) - 1 /\ \A i \in 1..(Len(gs) - 1) : f[i] = gs[i]
        /\ FlattenSeq(gs) = FlattenSeq(f) \o l
    BY <1>1, FlattenFront
  <2>2. m \in T /\ m # << >> /\ m = l \o << x >>
    BY <2>1, AppendProperties, AppendIsConcat
  <2>3. FlattenSeq(f) \in Seq(S)
    BY <2>1, FlattenType
  <2>4. (FlattenSeq(f) \o l) \o << x >> = FlattenSeq(f) \o (l \o << x >>)
    <3> DEFINE w == FlattenSeq(f)
               y == << x >>
    <3>1. w \in Seq(S) /\ l \in Seq(S) /\ y \in Seq(S)
      BY <1>0, <2>1, <2>3
    <3> HIDE DEF w, y, l
    <3>2. (w \o l) \o y = w \o (l \o y)
      BY <3>1
    <3> QED BY <3>2 DEF w, y
  <2>5. Joined(gs, x, fits) = Append(f, m)
    BY <1>1 DEF Joined
  <2> HIDE DEF f, l, m
  <2>6. FlattenSeq(Append(f, m)) = FlattenSeq(f) \o m
    BY <2>1, <2>2, FlattenAppend
  <2>7. FlattenSeq(Append(f, m)) = Append(items, x)
    BY <1>0, <2>1, <2>2, <2>4, <2>6 DEF GroupsOf
  <2>8. /\ Append(f, m) \in Seq(T) /\ Len(Append(f, m)) = n + 1 /\ n \in Nat
        /\ \A i \in 1..n : Append(f, m)[i] = f[i]
        /\ Append(f, m)[n + 1] = m
    <3>1. f \in Seq(T) /\ m \in T
      BY <2>1, <2>2
    <3> HIDE DEF T
    <3> QED BY <3>1, AppendProperties
  <2>9. m \in fits
    BY <1>1 DEF m, l
  <2>10. ASSUME NEW i \in 1..Len(Append(f, m))
         PROVE  /\ Append(f, m)[i] # << >>
                /\ Len(Append(f, m)[i]) > 1 => Append(f, m)[i] \in fits
    <3>1. i \in 1..(n + 1)
      BY <2>8
    <3>2. CASE i = n + 1
      BY <2>2, <2>8, <2>9, <3>2
    <3>3. CASE i # n + 1
      <4>1. i \in 1..n /\ Append(f, m)[i] = f[i]
        BY <2>8, <3>1, <3>3
      <4>2. i \in 1..(Len(gs) - 1) /\ i \in 1..Len(gs)
        BY <2>1, <4>1
      <4>3. f[i] = gs[i]
        BY <2>1, <4>2
      <4> QED BY <4>1, <4>2, <4>3 DEF GroupsOf
    <3> QED BY <3>2, <3>3
  <2> QED BY <2>5, <2>7, <2>10 DEF GroupsOf
<1>2. CASE ~(gs # << >> /\ Append(Last(gs), x) \in fits)
  <2> DEFINE m == << x >>
             n == Len(gs)
  <2>1. Joined(gs, x, fits) = Append(gs, m)
    BY <1>2 DEF Joined
  <2>2. m \in T /\ m # << >> /\ ~(Len(m) > 1)
    BY <1>0
  <2> HIDE DEF m
  <2>3. FlattenSeq(Append(gs, m)) = FlattenSeq(gs) \o m
    BY <2>2, FlattenAppend
  <2>4. FlattenSeq(Append(gs, m)) = Append(items, x)
    BY <1>0, <2>3 DEF GroupsOf, m
  <2>5. /\ Len(Append(gs, m)) = n + 1 /\ n \in Nat
        /\ \A i \in 1..n : Append(gs, m)[i] = gs[i]
        /\ Append(gs, m)[n + 1] = m
    <3>1. gs \in Seq(T) /\ m \in T
      BY <2>2
    <3> HIDE DEF T
    <3> QED BY <3>1, AppendProperties
  <2>6. ASSUME NEW i \in 1..Len(Append(gs, m))
        PROVE  /\ Append(gs, m)[i] # << >>
               /\ Len(Append(gs, m)[i]) > 1 => Append(gs, m)[i] \in fits
    <3>1. i \in 1..(n + 1)
      BY <2>5
    <3>2. CASE i = n + 1
      BY <2>2, <2>5, <3>2
    <3>3. CASE i # n + 1
      <4>1. i \in 1..n /\ Append(gs, m)[i] = gs[i]
        BY <2>5, <3>1, <3>3
      <4> QED BY <4>1 DEF GroupsOf
    <3> QED BY <3>2, <3>3
  <2> QED BY <2>1, <2>4, <2>6 DEF GroupsOf
<1> QED BY <1>1, <1>2

\* The first items and one more.
LEMMA Firsts ==
    ASSUME NEW S, NEW items \in Seq(S), NEW k \in 1..Len(items)
    PROVE  /\ SubSeq(items, 1, k - 1) \in Seq(S)
           /\ SubSeq(items, 1, k) = Append(SubSeq(items, 1, k - 1), items[k])
<1> DEFINE n == Len(items)
           a == SubSeq(items, 1, k - 1)
           b == SubSeq(items, 1, k)
           x == items[k]
<1>0. n \in Nat /\ x \in S /\ \A i \in 1..n : items[i] \in S
  OBVIOUS
<1>1. a \in Seq(S) /\ Len(a) = k - 1 /\ \A i \in 1..(k - 1) : a[i] = items[i]
  <2>1. \A i \in 1..(k - 1) : items[i] \in S
    BY <1>0
  <2>2. /\ a \in Seq(S) /\ Len(a) = IF 1 <= k - 1 THEN (k - 1) - 1 + 1 ELSE 0
        /\ \A i \in 1..((k - 1) - 1 + 1) : a[i] = items[1 + i - 1]
    BY <2>1, SubSeqProperties
  <2>3. (k - 1) - 1 + 1 = k - 1 /\ \A i \in 1..(k - 1) : 1 + i - 1 = i
    OBVIOUS
  <2> HIDE DEF a
  <2> QED BY <2>2, <2>3
<1>2. b \in Seq(S) /\ Len(b) = k /\ \A i \in 1..k : b[i] = items[i]
  <2>1. \A i \in 1..k : items[i] \in S
    BY <1>0
  <2>2. /\ b \in Seq(S) /\ Len(b) = IF 1 <= k THEN k - 1 + 1 ELSE 0
        /\ \A i \in 1..(k - 1 + 1) : b[i] = items[1 + i - 1]
    BY <2>1, SubSeqProperties
  <2>3. k - 1 + 1 = k /\ \A i \in 1..k : 1 + i - 1 = i
    OBVIOUS
  <2> HIDE DEF b
  <2> QED BY <2>2, <2>3
<1>3. Append(a, x) \in Seq(S) /\ Len(Append(a, x)) = (k - 1) + 1
      /\ (\A i \in 1..(k - 1) : Append(a, x)[i] = a[i]) /\ Append(a, x)[(k - 1) + 1] = x
  <2> HIDE DEF a, x
  <2> QED BY <1>0, <1>1, AppendProperties
<1> HIDE DEF a, b
<1> DEFINE c == Append(a, x)
<1> HIDE DEF c
<1>4. Len(b) = Len(c) /\ \A i \in 1..Len(b) : b[i] = c[i]
  <2>1. Len(b) = Len(c)
    BY <1>2, <1>3 DEF c
  <2>2. ASSUME NEW i \in 1..Len(b) PROVE b[i] = c[i]
    <3>1. i \in 1..k /\ (k - 1) + 1 = k
      BY <1>2
    <3>2. CASE i = k
      BY <1>2, <1>3, <3>1, <3>2 DEF c
    <3>3. CASE i # k
      <4>1. i \in 1..(k - 1)
        BY <3>1, <3>3
      <4> QED BY <1>1, <1>2, <1>3, <3>1, <4>1 DEF c
    <3> QED BY <3>2, <3>3
  <2> QED BY <2>1, <2>2
<1>5. c \in Seq(S) /\ b \in Seq(S)
  BY <1>2, <1>3 DEF c
<1>6. b = c
  BY <1>4, <1>5, SeqEqual
<1> QED BY <1>1, <1>6 DEF a, b, c

\* Greedy grouping divides the items, in their order, into groups that fit or are single.
LEMMA GroupedIs ==
    ASSUME NEW S, NEW items \in Seq(S), NEW fits
    PROVE  /\ Grouped(items, fits) \in Seq(Seq(S))
           /\ GroupsOf(Grouped(items, fits), items, fits)
<1> DEFINE n == Len(items)
           T == Seq(Seq(S))
           none == << >>
           step == [x \in T \X (1..n) |-> Joined(x[1], items[x[2]], fits)]
           Body(h) == [i \in 0..n |->
               IF i = 0 THEN << >>
               ELSE IF h[i - 1] # << >> /\ Append(Last(h[i - 1]), items[i]) \in fits
               THEN Append(Front(h[i - 1]), Append(Last(h[i - 1]), items[i]))
               ELSE Append(h[i - 1], << items[i] >>)]
           f == CHOOSE h : h = Body(h)
<1>0. n \in Nat /\ \A i \in 1..n : items[i] \in S
  OBVIOUS
<1>1. PICK g \in [0..n -> T] : Iterates(g, n, none, step)
  <2>1. \A gs \in T : \A i \in 1..n : Joined(gs, items[i], fits) \in T
    BY <1>0, JoinedType
  <2>2. none \in T
    OBVIOUS
  <2>3. step \in [T \X (1..n) -> T]
    <3> HIDE DEF T
    <3> QED BY <2>1
  <2> HIDE DEF step, n, T, none
  <2> QED BY <1>0, <2>2, <2>3, Iterated
<1>2. ASSUME NEW i \in 1..n PROVE g[i] = Joined(g[i - 1], items[i], fits)
  <2>1. i - 1 \in 0..n
    BY <1>0
  <2>2. g[i] = step[<<g[i - 1], i>>]
    BY <1>1 DEF Iterates
  <2>3. g[i - 1] \in T
    BY <1>1, <2>1
  <2> HIDE DEF T
  <2> QED BY <2>2, <2>3
<1>3. g = Body(g)
  <2>1. g[0] = << >>
    BY <1>1 DEF Iterates
  <2>2. ASSUME NEW i \in 0..n
        PROVE g[i] = IF i = 0 THEN << >>
               ELSE IF g[i - 1] # << >> /\ Append(Last(g[i - 1]), items[i]) \in fits
               THEN Append(Front(g[i - 1]), Append(Last(g[i - 1]), items[i]))
               ELSE Append(g[i - 1], << items[i] >>)
    <3>1. CASE i = 0
      BY <2>1, <3>1
    <3>2. CASE i # 0
      <4>1. i \in 1..n
        BY <3>2
      <4> HIDE DEF n
      <4> QED BY <4>1, <3>2, <1>2 DEF Joined
    <3> QED BY <3>1, <3>2
  <2>3. g \in [0..n -> T]
    BY <1>1
  <2> HIDE DEF T, n
  <2> QED BY <2>2, <2>3
<1>4. f = Body(f)
  <2> HIDE DEF Body
  <2> QED BY <1>3
<1>5. Grouped(items, fits) = f[n]
  BY DEF Grouped
<1>6. f[0] = << >> /\ \A i \in 1..n : f[i] = Joined(f[i - 1], items[i], fits)
  <2> HIDE DEF f
  <2>1. \A i \in 0..n : f[i] = Body(f)[i]
    BY <1>4
  <2>a. 0 \in 0..n
    BY <1>0
  <2> HIDE DEF n
  <2>b. f[0] = Body(f)[0]
    BY <2>1, <2>a
  <2>c. Body(f)[0] = << >>
    BY <2>a
  <2>2. f[0] = << >>
    BY <2>b, <2>c, Zenon
  <2>3. ASSUME NEW i \in 1..n PROVE f[i] = Joined(f[i - 1], items[i], fits)
    <3>1. i \in 0..n /\ i # 0
      BY <1>0
    <3> QED BY <2>1, <3>1 DEF Joined
  <2> QED BY <2>2, <2>3
<1> HIDE DEF f
<1> DEFINE G == {k \in 0..n : f[k] \in T /\ GroupsOf(f[k], SubSeq(items, 1, k), fits)}
<1>8. ASSUME NEW k \in 0..n, \A j \in 0..n : j < k => j \in G PROVE k \in G
  <2>1. CASE k = 0
    <3>1. SubSeq(items, 1, 0) = << >>
      BY SubSeqEmpty
    <3>2. GroupsOf(<< >>, << >>, fits)
      <4>1. FlattenSeq(<< >>) = << >>
        BY DEF FlattenSeq
      <4>2. 1..Len(<< >>) = {}
        OBVIOUS
      <4> QED BY <4>1, <4>2 DEF GroupsOf
    <3>3. << >> \in T
      OBVIOUS
    <3> QED BY <2>1, <1>6, <3>1, <3>2, <3>3
  <2>2. CASE k # 0
    <3>1. k - 1 \in 0..n /\ k - 1 < k /\ k \in 1..n
      BY <2>2
    <3>2. f[k - 1] \in T /\ GroupsOf(f[k - 1], SubSeq(items, 1, k - 1), fits)
      BY <1>8, <3>1
    <3>3. SubSeq(items, 1, k - 1) \in Seq(S)
          /\ SubSeq(items, 1, k) = Append(SubSeq(items, 1, k - 1), items[k])
      BY <3>1, Firsts
    <3>4. items[k] \in S /\ f[k] = Joined(f[k - 1], items[k], fits)
      BY <1>0, <1>6, <3>1
    <3> DEFINE gs == f[k - 1]
               s == SubSeq(items, 1, k - 1)
               x == items[k]
    <3>5. gs \in Seq(Seq(S)) /\ s \in Seq(S) /\ x \in S /\ GroupsOf(gs, s, fits)
      BY <3>2, <3>3, <3>4
    <3> HIDE DEF gs, s, x
    <3>6. Joined(gs, x, fits) \in T
      BY <3>5, JoinedType
    <3>7. GroupsOf(Joined(gs, x, fits), Append(s, x), fits)
      BY <3>5, JoinedGroups
    <3>8. f[k] \in T
      BY <3>4, <3>6 DEF gs, x
    <3>9. GroupsOf(f[k], SubSeq(items, 1, k), fits)
      BY <3>3, <3>4, <3>7 DEF gs, x, s
    <3> QED BY <3>8, <3>9
  <2> QED BY <2>1, <2>2
<1>9. \A k \in 0..n : k \in G
  <2> HIDE DEF G
  <2> QED BY <1>0, <1>8, Climb
<1>10. f[n] \in T /\ GroupsOf(f[n], SubSeq(items, 1, n), fits)
  BY <1>0, <1>9
<1>11. SubSeq(items, 1, n) = items
  BY SubSeqFull
<1> QED BY <1>5, <1>10, <1>11

\* The first n elements increase.
Increasing(s, n) == \A i, j \in 1..n : i < j => s[i] < s[j]

\* The elements of a set of naturals in order: each occurs once.
LEMMA InOrderIs ==
    ASSUME NEW n \in Nat, NEW S \in SUBSET (1..n)
    PROVE  /\ Cardinality(S) \in Nat
           /\ InOrder(S) \in Bijection(1..Cardinality(S), S)
           /\ Increasing(InOrder(S), Cardinality(S))
<1> DEFINE T(k) == S \cap (1..k)
           c(k) == Cardinality(T(k))
           G == {k \in 0..n : \E s \in [1..c(k) -> T(k)] : Increasing(s, c(k))}
<1>1. IsFiniteSet(S) /\ Cardinality(S) \in Nat
  <2>1. IsFiniteSet(1..n)
    BY FS_Interval
  <2>2. IsFiniteSet(S)
    BY <2>1, FS_Subset
  <2> QED BY <2>2, FS_CardinalityType
<1>2. ASSUME NEW k \in 0..n PROVE IsFiniteSet(T(k)) /\ c(k) \in Nat
  BY <1>1, FS_Intersection, FS_CardinalityType
<1>3. ASSUME NEW k \in 0..n, \A j \in 0..n : j < k => j \in G PROVE k \in G
  <2>1. CASE k = 0
    <3>1. T(k) = {}
      BY <2>1
    <3>2. c(k) = 0
      BY <3>1, FS_EmptySet
    <3> DEFINE s == [i \in 1..0 |-> 0]
    <3>3. s \in [1..0 -> {}]
      OBVIOUS
    <3>4. Increasing(s, 0)
      BY DEF Increasing
    <3> HIDE DEF s
    <3> QED BY <3>1, <3>2, <3>3, <3>4
  <2>2. CASE k # 0
    <3>1. k - 1 \in 0..n /\ k - 1 < k /\ k \in 1..n
      BY <2>2
    <3>2. PICK s \in [1..c(k - 1) -> T(k - 1)] : Increasing(s, c(k - 1))
      BY <1>3, <3>1
    <3>6. k \notin T(k - 1)
      BY <3>1
    <3>7. IsFiniteSet(T(k - 1)) /\ c(k - 1) \in Nat
      <4> HIDE DEF T, c
      <4> QED BY <1>2, <3>1
    <3>3. IsFiniteSet(T(k - 1)) /\ c(k - 1) \in Nat /\ k \notin T(k - 1)
      BY <3>6, <3>7
    <3>4. CASE k \notin S
      <4>1. T(k) = T(k - 1)
        BY <3>1, <3>4
      <4> QED BY <3>2, <4>1
    <3>5. CASE k \in S
      <4>1. T(k) = T(k - 1) \cup {k}
        BY <3>1, <3>5
      <4> DEFINE m == c(k - 1)
                 U == T(k - 1)
      <4>2. c(k) = m + 1
        <5>1. IsFiniteSet(U) /\ k \notin U /\ T(k) = U \cup {k}
          BY <3>3, <4>1
        <5> HIDE DEF U
        <5>2. Cardinality(U \cup {k}) = Cardinality(U) + 1
          BY <5>1, FS_AddElement
        <5> QED BY <5>1, <5>2 DEF U
      <4>3. m \in Nat /\ s \in [1..m -> U] /\ Increasing(s, m) /\ U \subseteq 1..(k - 1)
        BY <3>2, <3>3
      <4> HIDE DEF m, U
      <4> DEFINE r == [i \in 1..(m + 1) |-> IF i = m + 1 THEN k ELSE s[i]]
      <4>4. ASSUME NEW i \in 1..(m + 1)
            PROVE  r[i] \in U \cup {k} /\ (i # m + 1 => r[i] < k /\ i \in 1..m)
        <5>1. CASE i = m + 1
          BY <5>1
        <5>2. CASE i # m + 1
          <6>1. i \in 1..m
            BY <4>3, <5>2
          <6>2. s[i] \in U
            BY <4>3, <6>1
          <6>3. r[i] = s[i]
            BY <5>2
          <6>4. s[i] < k
            <7>1. s[i] \in 1..(k - 1)
              BY <4>3, <6>2
            <7> HIDE DEF r
            <7> QED BY <7>1, <3>1
          <6> QED BY <6>1, <6>2, <6>3, <6>4
        <5> QED BY <5>1, <5>2
      <4>5. r \in [1..c(k) -> T(k)]
        <5>1. r \in [1..(m + 1) -> U \cup {k}]
          BY <4>4
        <5>2. T(k) = U \cup {k}
          BY <4>1 DEF U
        <5> HIDE DEF r
        <5> QED BY <5>1, <5>2, <4>2
      <4>6. ASSUME NEW i \in 1..(m + 1), NEW j \in 1..(m + 1), i < j PROVE r[i] < r[j]
        <5>1. i # m + 1 /\ i \in 1..m /\ r[i] = s[i] /\ r[i] < k
          <6>1. i # m + 1
            BY <4>3, <4>6
          <6> QED BY <4>4, <6>1
        <5>2. CASE j = m + 1
          BY <5>1, <5>2
        <5>3. CASE j # m + 1
          <6>1. j \in 1..m /\ r[j] = s[j]
            BY <4>4, <5>3
          <6> QED BY <4>3, <4>6, <5>1, <6>1 DEF Increasing
        <5> QED BY <5>2, <5>3
      <4>7. Increasing(r, c(k))
        BY <4>2, <4>6 DEF Increasing
      <4> QED BY <4>5, <4>7
    <3> QED BY <3>4, <3>5
  <2> QED BY <2>1, <2>2
<1>4. \A k \in 0..n : k \in G
  <2> HIDE DEF G
  <2> QED BY <1>3, Climb
<1>5. T(n) = S
  OBVIOUS
<1> DEFINE m == Cardinality(S)
<1>6. \E s \in [1..m -> S] : Increasing(s, m)
  <2>1. \E s \in [1..c(n) -> T(n)] : Increasing(s, c(n))
    BY <1>4
  <2> QED BY <1>5, <2>1
<1>7. ASSUME NEW s \in [1..m -> S]
      PROVE  Increasing(s, m) <=> \A i, j \in DOMAIN s : i < j => s[i] < s[j]
  <2>1. DOMAIN s = 1..m
    OBVIOUS
  <2> HIDE DEF m
  <2> QED BY <2>1 DEF Increasing
<1> DEFINE o == InOrder(S)
<1>8. o \in [1..m -> S] /\ Increasing(o, m)
  <2>1. \E s \in [1..m -> S] : \A i, j \in DOMAIN s : i < j => s[i] < s[j]
    BY <1>6, <1>7
  <2>2. o \in [1..m -> S] /\ \A i, j \in DOMAIN o : i < j => o[i] < o[j]
    BY <2>1 DEF InOrder
  <2> HIDE DEF o
  <2> QED BY <1>7, <2>2
<1>9. o \in Injection(1..m, S)
  <2> HIDE DEF o, m
  <2>1. ASSUME NEW i \in 1..m, NEW j \in 1..m, o[i] = o[j] PROVE i = j
    <3>1. o[i] \in 1..n
      <4>1. o[i] \in S
        BY <1>8
      <4> QED BY <4>1
    <3> QED BY <1>8, <2>1, <3>1 DEF Increasing
  <2> QED BY <1>8, <2>1 DEF Injection, IsInjective
<1>10. o \in Surjection(1..m, S)
  <2>1. Cardinality(1..m) = m
    <3>1. m \in Int /\ m >= 0
      BY <1>1
    <3>2. Cardinality(1..m) = IF 1 > m THEN 0 ELSE m - 1 + 1
      <4> HIDE DEF m
      <4> QED BY <3>1, FS_Interval
    <3> HIDE DEF m
    <3> QED BY <3>1, <3>2
  <2> DEFINE D == 1..m
  <2>2. o \in Injection(D, S) /\ Cardinality(D) = Cardinality(S)
    BY <1>9, <2>1
  <2> HIDE DEF o, D, m
  <2>3. o \in Surjection(D, S)
    BY <1>1, <2>2, FS_Injection
  <2> QED BY <2>3 DEF D
<1> QED BY <1>1, <1>8, <1>9, <1>10 DEF Bijection

-----------------------------------------------------------------------------
(* What the rows of an archive store.                                      *)

\* A slice of a larger content.
SliceIs(r, c) ==
    /\ r.tag = "pack" /\ r.of \in Content /\ r.off \in Nat /\ r.len = Len(c)
    /\ r.off + r.len <= Len(r.of) /\ Cut(r.of, r.off, r.off + r.len) = c

\* What a row may store of an entry.
Stores(e, r) ==
    \/ /\ e.kind \in {"symlink", "file"} \/ (e.kind = "zip" /\ ~IsCohort)
       /\ r = [tag |-> "blob", of |-> e.bytes]
    \/ e.kind = "hardlink" /\ r = [tag |-> "link", to |-> e.to]
    \/ /\ e.kind = "file" /\ Len(e.bytes) > Large /\ r.tag = "cdc"
       /\ r = [tag |-> "cdc", parts |-> r.parts] /\ ChunksOf(r.parts, e.bytes)
    \/ /\ e.kind = "file" /\ e.extents # << >>
       /\ r = [tag |-> "sparse", extents |-> Extents(e)]
    \/ e.kind \in {"file", "zip"} /\ SliceIs(r, e.bytes)
    \/ e.kind = "zip" /\ ~IsCohort /\ e.gaps # << >> /\ r = [tag |-> "vzip"]

\* A row of the table stores what the entry it was made for holds.
RowsSound == \A p \in DOMAIN rows : p \in DOMAIN tree /\ Stores(tree[p], rows[p])

\* Every ZIP file that is stored in parts has its recipe.
RecipesSound ==
    /\ DOMAIN recipes = {p \in DOMAIN rows : rows[p].tag = "vzip"}
    /\ \A p \in DOMAIN recipes : recipes[p] = Recipe(tree[p])

\* After the scan every path has a row.
AllScanned == phase \notin {"scan", "failed"} => DOMAIN rows = DOMAIN tree

\* Micro-packs still to be written are sequences of contents.
GroupsTyped == groups \in Seq(Seq(Content))

\* What the rows, recipes and waiting packs always satisfy.
RowsInv == tree \in Trees /\ RowsSound /\ RecipesSound /\ AllScanned /\ GroupsTyped

\* At the end everything referred to was written.
AllWritten == Built => Refs \subseteq DOMAIN codec

\* What the scan can have found.
LEMMA TreeIs ==
    ASSUME tree \in Trees
    PROVE  /\ Scannable(tree) /\ Len(tree) \in Nat /\ DOMAIN tree = 1..Len(tree)
           /\ \A p \in DOMAIN tree : tree[p] \in Entry
<1>1. Scannable(tree)
  BY BuilderAssumption
<1>2. tree \in Seq(Entry)
  BY <1>1 DEF Scannable
<1> QED BY <1>1, <1>2

\* The fields of an entry.
LEMMA EntryIs ==
    ASSUME NEW e \in Entry
    PROVE  /\ e.kind \in {"file", "symlink", "hardlink", "zip"} /\ e.ext \in STRING
           /\ e.bytes \in Content /\ Len(e.bytes) \in Nat /\ e.to \in Nat
           /\ e.extents \in Seq(Nat \X Nat)
           /\ e.gaps \in Seq(Content)
           /\ e.members \in Seq([raw : Content, level : Nat, ext : STRING])
<1>1. e.bytes \in Seq(Nat)
  BY DEF Entry, Content
<1>2. Len(e.bytes) \in Nat
  BY <1>1
<1> QED BY <1>2 DEF Entry

\* The next path of the walk.
LEMMA HereIs ==
    ASSUME tree \in Trees, Walking
    PROVE  Here \in DOMAIN tree /\ Here \notin DOMAIN rows /\ Here \notin Deferred
<1> DEFINE T == DOMAIN tree \ (DOMAIN rows \cup Deferred)
<1>1. T # {} /\ T \in SUBSET (0..Len(tree)) /\ Len(tree) \in Nat
  BY TreeIs DEF Walking
<1>2. Min(T) \in T
  <2> HIDE DEF T
  <2> QED BY <1>1, MinIsSmallest
<1> QED BY <1>2 DEF Here

\* A step that leaves the tree and makes sound rows keeps them sound.
LEMMA RowsStep ==
    ASSUME tree' = tree, \A p \in DOMAIN rows' : p \in DOMAIN tree /\ Stores(tree[p], rows'[p])
    PROVE  RowsSound'
<1>1. ASSUME NEW p \in DOMAIN rows' PROVE p \in DOMAIN tree' /\ Stores(tree[p], rows[p])'
  <2>1. p \in DOMAIN tree /\ Stores(tree[p], rows'[p])
    OBVIOUS
  <2> QED BY <2>1 DEF Stores, IsCohort, Deferred
<1> QED BY <1>1 DEF RowsSound

\* The rows that hold a recipe stay the same rows.
LEMMA RecipesStep ==
    ASSUME tree' = tree, recipes' = recipes, RecipesSound,
           {p \in DOMAIN rows' : rows'[p].tag = "vzip"} = {p \in DOMAIN rows : rows[p].tag = "vzip"}
    PROVE  RecipesSound'
BY DEF RecipesSound

\* A step of the walk keeps RowsInv when the storage it notes is that of the entry.
LEMMA ScannedRow ==
    ASSUME RowsInv, Walking, NEW storage, NEW hint, Scanned(storage, hint),
           Stores(tree[Here], storage), storage.tag # "vzip"
    PROVE  RowsInv'
<1>1. tree' = tree /\ rows' = Put(rows, Here, storage) /\ recipes' = recipes /\ groups' = groups
      /\ phase' = phase
  BY DEF Scanned, scanVars, planVars
<1>2. Here \in DOMAIN tree /\ Here \notin DOMAIN rows
  BY HereIs DEF RowsInv
<1> DEFINE h == Here
<1>3. /\ DOMAIN rows' = DOMAIN rows \cup {h} /\ rows'[h] = storage
      /\ \A z \in DOMAIN rows : rows'[z] = rows[z]
  <2>1. rows' = Put(rows, h, storage) /\ h \notin DOMAIN rows
    BY <1>1, <1>2
  <2> HIDE DEF h
  <2> QED BY <2>1 DEF Put
<1>4. h \in DOMAIN tree /\ h \notin DOMAIN rows /\ Stores(tree[h], storage)
  BY <1>2
<1> HIDE DEF h
<1>5. RowsSound'
  <2>1. \A p \in DOMAIN rows' : p \in DOMAIN tree /\ Stores(tree[p], rows'[p])
    BY <1>3, <1>4 DEF RowsInv, RowsSound
  <2> QED BY <1>1, <2>1, RowsStep
<1>6. {p \in DOMAIN rows' : rows'[p].tag = "vzip"} = {p \in DOMAIN rows : rows[p].tag = "vzip"}
  BY <1>3
<1>7. RecipesSound'
  BY <1>1, <1>6, RecipesStep DEF RowsInv
<1>8. AllScanned' /\ GroupsTyped' /\ (tree \in Trees)'
  BY <1>1 DEF RowsInv, AllScanned, GroupsTyped, Walking
<1> QED BY <1>5, <1>7, <1>8 DEF RowsInv

\* The walk keeps RowsInv (builder.py:82-114).
LEMMA ScanRows ==
    ASSUME RowsInv, ScanSymlink \/ ScanHardlink \/ ScanSparse \/ ScanFile
    PROVE  RowsInv'
<1>0. tree \in Trees
  BY DEF RowsInv
<1>1. CASE ScanSymlink
  <2> DEFINE r == [tag |-> "blob", of |-> tree[Here].bytes]
  <2>1. Walking /\ tree[Here].kind = "symlink" /\ Scanned(r, ".symlink")
    BY <1>1 DEF ScanSymlink
  <2>2. Stores(tree[Here], r) /\ r.tag # "vzip"
    BY <2>1 DEF Stores
  <2> HIDE DEF r
  <2> QED BY <2>1, <2>2, ScannedRow
<1>2. CASE ScanHardlink
  <2> DEFINE r == [tag |-> "link", to |-> tree[Here].to]
  <2>1. Walking /\ tree[Here].kind = "hardlink" /\ Scanned(r, "")
    BY <1>2 DEF ScanHardlink
  <2>2. Stores(tree[Here], r) /\ r.tag # "vzip"
    BY <2>1 DEF Stores
  <2> HIDE DEF r
  <2> QED BY <2>1, <2>2, ScannedRow
<1>3. CASE ScanSparse
  <2> DEFINE r == [tag |-> "sparse", extents |-> Extents(tree[Here])]
  <2>1. /\ Walking /\ tree[Here].kind = "file" /\ tree[Here].extents # << >>
        /\ Scanned(r, tree[Here].ext)
    BY <1>3 DEF ScanSparse
  <2>2. Stores(tree[Here], r) /\ r.tag # "vzip"
    BY <2>1 DEF Stores
  <2> HIDE DEF r
  <2> QED BY <2>1, <2>2, ScannedRow
<1>4. CASE ScanFile
  <2> DEFINE c == tree[Here].bytes
             b == [tag |-> "blob", of |-> c]
             d(parts) == [tag |-> "cdc", parts |-> parts]
  <2>1. /\ Walking /\ tree[Here].kind = "file"
        /\ IF Len(c) > Large /\ tree[Here].ext # ".wav"
           THEN \E parts \in CdcChunks(c) : Scanned(d(parts), tree[Here].ext)
           ELSE Scanned(b, tree[Here].ext)
    BY <1>4 DEF ScanFile
  <2>2. c \in Content
    BY <1>0, <2>1, HereIs, TreeIs, EntryIs
  <2>3. CASE Len(c) > Large /\ tree[Here].ext # ".wav"
    <3>1. PICK parts \in CdcChunks(c) : Scanned(d(parts), tree[Here].ext)
      BY <2>1, <2>3
    <3>2. ChunksOf(parts, c)
      BY <2>2, CdcChunksMakeUp
    <3> DEFINE r == d(parts)
    <3>3. Stores(tree[Here], r) /\ r.tag # "vzip"
      BY <2>1, <2>3, <3>2 DEF Stores
    <3>4. Scanned(r, tree[Here].ext)
      BY <3>1
    <3> HIDE DEF r
    <3> QED BY <2>1, <3>3, <3>4, ScannedRow
  <2>4. CASE ~(Len(c) > Large /\ tree[Here].ext # ".wav")
    <3> DEFINE r == b
    <3>1. Stores(tree[Here], r) /\ r.tag # "vzip"
      BY <2>1 DEF Stores
    <3>2. Scanned(r, tree[Here].ext)
      BY <2>1, <2>4
    <3> HIDE DEF r
    <3> QED BY <2>1, <3>1, <3>2, ScannedRow
  <2> QED BY <2>3, <2>4
<1> QED BY <1>1, <1>2, <1>3, <1>4

\* When the scan ends every entry has its row.
LEMMA ScanDoneRows ==
    ASSUME RowsInv, ScanDone
    PROVE  RowsInv'
<1>1. tree' = tree /\ rows' = rows /\ recipes' = recipes /\ groups' = groups
      /\ DOMAIN rows = DOMAIN tree
  BY DEF ScanDone, scanVars, tableVars, planVars
<1>2. RowsSound'
  BY <1>1, RowsStep DEF RowsInv, RowsSound
<1>3. RecipesSound'
  BY <1>1, RecipesStep DEF RowsInv
<1> QED BY <1>1, <1>2, <1>3 DEF RowsInv, AllScanned, GroupsTyped

\* The slice noted for the i-th part is where that part lies in the whole.
LEMMA SliceOfIs ==
    ASSUME NEW parts \in Seq(Content), NEW i \in DOMAIN parts
    PROVE  SliceIs(SliceOf(parts, i), parts[i])
<1>1. parts \in Seq(Seq(Nat)) /\ i \in 1..Len(parts) /\ parts[i] \in Seq(Nat)
  BY DEF Content
<1> DEFINE o == Offset(parts, i)
           w == FlattenSeq(parts)
           l == Len(parts[i])
<1>2. o \in Nat /\ o + l <= Len(w) /\ Cut(w, o, o + l) = parts[i]
  BY <1>1, PartInWhole
<1>3. w \in Seq(Nat)
  BY <1>1, FlattenType
<1>4. SliceOf(parts, i) = [tag |-> "pack", of |-> w, off |-> o, len |-> l]
  BY DEF SliceOf
<1> HIDE DEF w, o
<1> QED BY <1>2, <1>3, <1>4 DEF SliceIs, Content

\* The index of an element holds it.
LEMMA IndexInIs ==
    ASSUME NEW s, NEW x \in ToSet(s)
    PROVE  IndexIn(s, x) \in DOMAIN s /\ s[IndexIn(s, x)] = x
BY DEF ToSet, IndexIn

\* ZIP files are entries, and hold their own bytes.
LEMMA DeferredIs ==
    ASSUME tree \in Trees
    PROVE  /\ Deferred \in SUBSET (1..Len(tree)) /\ Len(tree) \in Nat
           /\ \A p \in Deferred : /\ p \in DOMAIN tree /\ tree[p] \in Entry /\ tree[p].kind = "zip"
                                 /\ Bytes(p) = tree[p].bytes /\ Bytes(p) \in Content
<1>1. Deferred \in SUBSET (1..Len(tree)) /\ Len(tree) \in Nat
  BY TreeIs DEF Deferred
<1>2. ASSUME NEW p \in Deferred
      PROVE  /\ p \in DOMAIN tree /\ tree[p] \in Entry /\ tree[p].kind = "zip"
             /\ Bytes(p) = tree[p].bytes /\ Bytes(p) \in Content
  <2>1. p \in DOMAIN tree /\ tree[p].kind = "zip"
    BY DEF Deferred
  <2>2. tree[p] \in Entry
    BY <2>1, TreeIs
  <2> QED BY <2>1, <2>2, EntryIs DEF Bytes
<1> QED BY <1>1, <1>2

\* The ZIP files in order.
LEMMA PathsAre ==
    ASSUME tree \in Trees
    PROVE  /\ InOrder(Deferred) \in Seq(Deferred)
           /\ Len(InOrder(Deferred)) = Cardinality(Deferred) /\ Cardinality(Deferred) \in Nat
           /\ InOrder(Deferred) \in Bijection(1..Cardinality(Deferred), Deferred)
           /\ ToSet(InOrder(Deferred)) = Deferred
<1> DEFINE D == Deferred
           s == InOrder(D)
           m == Cardinality(D)
<1>1. D \in SUBSET (1..Len(tree)) /\ Len(tree) \in Nat
  BY DeferredIs
<1> HIDE DEF D
<1>2. m \in Nat /\ s \in Bijection(1..m, D)
  BY <1>1, InOrderIs
<1> HIDE DEF s, m
<1>3. s \in [1..m -> D] /\ \A p \in D : \E i \in 1..m : s[i] = p
  BY <1>2 DEF Bijection, Surjection
<1>4. s \in Seq(D) /\ Len(s) = m
  BY <1>2, <1>3, SeqDef
<1>5. ToSet(s) = D
  BY <1>3 DEF ToSet
<1> QED BY <1>2, <1>4, <1>5 DEF s, m, D

\* The contents of a sequence of ZIP files.
LEMMA BytesOfIs ==
    ASSUME tree \in Trees, NEW paths \in Seq(Deferred)
    PROVE  /\ BytesOf(paths) \in Seq(Content) /\ Len(BytesOf(paths)) = Len(paths)
           /\ DOMAIN BytesOf(paths) = DOMAIN paths
           /\ \A i \in DOMAIN paths : BytesOf(paths)[i] = tree[paths[i]].bytes
<1> DEFINE D == Deferred
           b == BytesOf(paths)
           n == Len(paths)
<1>1. \A p \in D : Bytes(p) = tree[p].bytes /\ Bytes(p) \in Content
  BY DeferredIs
<1> HIDE DEF D
<1>2. paths \in Seq(D)
  BY DEF D
<1>3. n \in Nat /\ DOMAIN paths = 1..n /\ \A i \in 1..n : paths[i] \in D
  BY <1>2
<1>4. b = [i \in 1..n |-> Bytes(paths[i])]
  BY <1>3 DEF BytesOf
<1> HIDE DEF b, n
<1>5. \A i \in 1..n : b[i] = tree[paths[i]].bytes /\ b[i] \in Content
  BY <1>1, <1>3, <1>4
<1>6. b \in [1..n -> Content]
  BY <1>4, <1>5
<1>7. b \in Seq(Content) /\ Len(b) = n
  BY <1>3, <1>6, SeqDef
<1> QED BY <1>3, <1>5, <1>6, <1>7 DEF b, n

\* A container in a pack of containers.
LEMMA ContainerSlice ==
    ASSUME tree \in Trees, NEW paths \in Seq(Deferred), NEW p \in ToSet(paths)
    PROVE  SliceIs(SliceOf(BytesOf(paths), IndexIn(paths, p)), tree[p].bytes)
<1> DEFINE b == BytesOf(paths)
           i == IndexIn(paths, p)
<1>1. i \in DOMAIN paths /\ paths[i] = p
  BY IndexInIs
<1>2. b \in Seq(Content) /\ i \in DOMAIN b /\ b[i] = tree[p].bytes
  BY <1>1, BytesOfIs
<1> HIDE DEF b, i
<1>3. SliceIs(SliceOf(b, i), b[i])
  BY <1>2, SliceOfIs
<1> QED BY <1>2, <1>3 DEF b, i

\* Rows stay sound when ZIP files become slices of a container pack.
LEMMA ContainerRows ==
    ASSUME RowsInv, IsCohort, tree' = tree, recipes' = recipes,
           \A p \in DOMAIN rows' :
              IF p \in Deferred THEN SliceIs(rows'[p], tree[p].bytes)
              ELSE p \in DOMAIN rows /\ rows'[p] = rows[p],
           \A p \in DOMAIN rows : p \in Deferred \/ p \in DOMAIN rows'
    PROVE  RowsSound' /\ RecipesSound'
<1>1. \A p \in Deferred : p \in DOMAIN tree /\ tree[p].kind = "zip"
  BY DEF Deferred
<1>2. \A p \in DOMAIN rows' : p \in DOMAIN tree /\ Stores(tree[p], rows'[p])
  BY <1>1 DEF RowsInv, RowsSound, Stores
<1>3. RowsSound'
  BY <1>2, RowsStep
<1>4. ASSUME NEW p \in DOMAIN rows, p \in Deferred PROVE rows[p].tag # "vzip"
  BY <1>1, <1>4 DEF RowsInv, RowsSound, Stores, SliceIs
<1>5. ASSUME NEW p \in DOMAIN rows', p \in Deferred PROVE rows'[p].tag # "vzip"
  BY <1>5 DEF SliceIs
<1>6. {p \in DOMAIN rows' : rows'[p].tag = "vzip"} = {p \in DOMAIN rows : rows[p].tag = "vzip"}
  BY <1>4, <1>5
<1>7. RecipesSound'
  BY <1>6, RecipesStep DEF RowsInv
<1> QED BY <1>3, <1>7

\* Packing a cohort keeps RowsInv (builder.py:118-129).
LEMMA PackContainersRows ==
    ASSUME RowsInv, PackContainers
    PROVE  RowsInv'
<1> DEFINE paths == InOrder(Deferred)
           slice(p) == SliceOf(BytesOf(paths), IndexIn(paths, p))
<1>1. /\ phase = "scan" /\ ~Walking /\ IsCohort /\ phase' = "repartition"
      /\ tree' = tree /\ recipes' = recipes /\ groups' = groups
  BY Zenon DEF PackContainers, IsCohort, scanVars, planVars
<1>2. rows' = [p \in DOMAIN rows \cup Deferred |-> IF p \in Deferred THEN slice(p) ELSE rows[p]]
  BY Zenon DEF PackContainers
<1>3. tree \in Trees
  BY DEF RowsInv
<1>4. ASSUME NEW p \in Deferred PROVE SliceIs(slice(p), tree[p].bytes)
  <2>1. paths \in Seq(Deferred) /\ p \in ToSet(paths)
    BY <1>3, PathsAre
  <2> HIDE DEF paths
  <2> QED BY <1>3, <2>1, ContainerSlice
<1> HIDE DEF slice
<1>5. DOMAIN rows' = DOMAIN rows \cup Deferred
  BY <1>2
<1>6. \A p \in DOMAIN rows' : rows'[p] = IF p \in Deferred THEN slice(p) ELSE rows[p]
  BY <1>2
<1>7. RowsSound' /\ RecipesSound'
  BY <1>1, <1>4, <1>5, <1>6, ContainerRows
<1>8. DOMAIN rows' = DOMAIN tree
  <2>1. DOMAIN tree \subseteq DOMAIN rows \cup Deferred
    BY <1>1 DEF Walking
  <2>2. DOMAIN rows \subseteq DOMAIN tree /\ Deferred \subseteq DOMAIN tree
    BY DEF RowsInv, RowsSound, Deferred
  <2> QED BY <1>5, <2>1, <2>2
<1> QED BY <1>1, <1>7, <1>8 DEF RowsInv, AllScanned, GroupsTyped

\* The ZIP files in any order.
LEMMA OrdersAre ==
    ASSUME tree \in Trees, NEW s \in Orders(Deferred)
    PROVE  /\ s \in Seq(Deferred) /\ ToSet(s) = Deferred
           /\ Len(s) = Cardinality(Deferred) /\ Cardinality(Deferred) \in Nat
           /\ \A p \in Deferred : \E i \in 1..Len(s) : s[i] = p
           /\ \A i, j \in 1..Len(s) : s[i] = s[j] => i = j
<1> DEFINE D == Deferred
           m == Cardinality(D)
<1>1. m \in Nat /\ s \in Bijection(1..m, D)
  BY PathsAre DEF Orders
<1> HIDE DEF D, m
<1>2. s \in [1..m -> D] /\ (\A p \in D : \E i \in 1..m : s[i] = p)
      /\ \A i, j \in 1..m : s[i] = s[j] => i = j
  BY <1>1 DEF Bijection, Surjection, Injection, IsInjective
<1>3. s \in Seq(D) /\ Len(s) = m
  BY <1>1, <1>2, SeqDef
<1>4. ToSet(s) = D
  BY <1>2 DEF ToSet
<1> QED BY <1>1, <1>2, <1>3, <1>4 DEF m, D

\* The smallest member of a group, kept as it grows, is the smallest.
LEMMA SmallestIs ==
    ASSUME NEW parts \in Seq(Content), parts # << >>
    PROVE  Smallest(parts) = Min({Larger(1, Len(c)) : c \in ToSet(parts)})
<1> DEFINE n == Len(parts)
           w == FlattenSeq(parts)
           top == Larger(1, Len(w))
           l(k) == Larger(1, Len(parts[k]))
           L(i) == {l(k) : k \in 1..i}
           Body(h) == [i \in 1..n |-> IF i = 1 THEN Larger(1, Len(parts[1]))
                                     ELSE Smaller(h[i - 1], Larger(1, Len(parts[i])))]
           f == CHOOSE h : h = Body(h)
           g == [i \in 1..n |-> Min(L(i))]
<1>1. parts \in Seq(Seq(Nat)) /\ n \in Nat /\ n # 0 /\ DOMAIN parts = 1..n
  BY DEF Content
<1>2. top \in Nat /\ \A k \in 1..n : l(k) \in 0..top
  <2>1. w \in Seq(Nat) /\ Len(w) \in Nat
    BY <1>1, FlattenType
  <2> HIDE DEF w
  <2>2. ASSUME NEW k \in 1..n PROVE Len(parts[k]) \in Nat /\ Len(parts[k]) <= Len(w)
    <3>1. Offset(parts, k) \in Nat /\ Offset(parts, k) + Len(parts[k]) <= Len(w)
      BY <1>1, PartInWhole DEF w
    <3>2. Len(parts[k]) \in Nat
      BY <1>1
    <3> QED BY <2>1, <3>1, <3>2
  <2> QED BY <2>1, <2>2 DEF Larger
<1> HIDE DEF l, top, n
<1>3. ASSUME NEW i \in 1..n
      PROVE  Min(L(i)) \in L(i) /\ \A y \in L(i) : Min(L(i)) <= y
  <2>1. L(i) \in SUBSET (0..top) /\ L(i) # {}
    <3>1. i \in 1..i /\ \A k \in 1..i : k \in 1..n
      BY <1>1
    <3> QED BY <1>2, <3>1
  <2> HIDE DEF L
  <2> QED BY <1>2, <2>1, MinIsSmallest
<1>4. ASSUME NEW i \in 1..n
      PROVE  g[i] = IF i = 1 THEN l(1) ELSE Smaller(g[i - 1], l(i))
  <2>1. g[i] \in L(i) /\ \A y \in L(i) : g[i] <= y
    BY <1>3
  <2>2. \A k \in 1..n : l(k) \in Nat
    BY <1>2
  <2>3. CASE i = 1
    BY <2>1, <2>3
  <2>4. CASE i # 1
    <3>1. i - 1 \in 1..n /\ 1..i = (1..(i - 1)) \cup {i}
      BY <1>1, <2>4
    <3>2. g[i - 1] \in L(i - 1) /\ \A y \in L(i - 1) : g[i - 1] <= y
      BY <1>3, <3>1
    <3>3. L(i) = L(i - 1) \cup {l(i)}
      BY <3>1
    <3>4. \A y \in L(i) : y \in Nat
      <4>1. \A k \in 1..i : k \in 1..n
        BY <1>1
      <4> QED BY <2>2, <4>1
    <3> HIDE DEF L, g
    <3>5. g[i] \in Nat /\ g[i - 1] \in Nat /\ l(i) \in Nat
      BY <2>1, <3>2, <3>3, <3>4
    <3>6. g[i] <= g[i - 1] /\ g[i] <= l(i)
      BY <2>1, <3>2, <3>3
    <3>7. g[i] = l(i) \/ g[i - 1] <= g[i]
      BY <2>1, <3>2, <3>3
    <3> QED BY <2>4, <3>5, <3>6, <3>7 DEF Smaller
  <2> QED BY <2>3, <2>4
<1>5. g = Body(g)
  <2>1. g = [i \in 1..n |-> g[i]]
    OBVIOUS
  <2> HIDE DEF g
  <2> QED BY <1>4, <2>1 DEF l
<1>6. f = Body(f)
  <2> HIDE DEF Body, g
  <2> QED BY <1>5
<1>7. Smallest(parts) = f[n]
  BY DEF Smallest, n
<1>8. \A i \in 1..n : f[i] = IF i = 1 THEN l(1) ELSE Smaller(f[i - 1], l(i))
  <2> HIDE DEF f
  <2>1. \A i \in 1..n : f[i] = Body(f)[i]
    BY <1>6
  <2> QED BY <2>1 DEF l
<1> HIDE DEF f, g
<1> DEFINE G == {k \in 0..n : k = 0 \/ f[k] = g[k]}
<1>9. ASSUME NEW k \in 0..n, \A j \in 0..n : j < k => j \in G PROVE k \in G
  <2>1. CASE k = 0
    BY <2>1
  <2>2. CASE k = 1
    BY <1>1, <1>4, <1>8, <2>2
  <2>3. CASE k # 0 /\ k # 1
    <3>1. k \in 1..n /\ k - 1 \in 0..n /\ k - 1 < k /\ k - 1 # 0
      BY <1>1, <2>3
    <3>2. f[k - 1] = g[k - 1]
      BY <1>9, <3>1
    <3> QED BY <1>4, <1>8, <2>3, <3>1, <3>2
  <2> QED BY <2>1, <2>2, <2>3
<1>10. \A k \in 0..n : k \in G
  <2> HIDE DEF G
  <2> QED BY <1>1, <1>9, Climb
<1>11. f[n] = Min(L(n))
  <2>1. n \in 0..n /\ n \in 1..n
    BY <1>1
  <2>2. f[n] = g[n]
    BY <1>1, <1>10, <2>1
  <2> QED BY <2>1, <2>2 DEF g
<1>12. L(n) = {Larger(1, Len(c)) : c \in ToSet(parts)}
  <2>1. ToSet(parts) = {parts[k] : k \in 1..n}
    BY <1>1 DEF ToSet
  <2> QED BY <2>1 DEF l
<1> QED BY <1>7, <1>11, <1>12

\* A group that may be formed passes the check.
LEMMA FitsIsLocal ==
    ASSUME tree \in Trees, NEW paths \in Seq(Deferred)
    PROVE  {g \in Runs(paths) : Fits(BytesOf(g))} = {g \in Runs(paths) : Local(BytesOf(g))}
<1> DEFINE D == Deferred
<1>1. ASSUME NEW g \in Runs(paths) PROVE Fits(BytesOf(g)) <=> Local(BytesOf(g))
  <2>0. PICK i \in DOMAIN paths : \E j \in i..Len(paths) : g = SubSeq(paths, i, j)
    BY DEF Runs
  <2>1. PICK j \in i..Len(paths) : g = SubSeq(paths, i, j)
    BY <2>0
  <2>2. g \in Seq(D) /\ Len(g) # 0
    <3> HIDE DEF D
    <3>1. paths \in Seq(D)
      BY DEF D
    <3>2. Len(paths) \in Nat /\ i \in 1..Len(paths) /\ j \in 1..Len(paths) /\ i <= j
      BY <3>1
    <3>3. g \in Seq(D) /\ Len(g) = j - i + 1
      BY <2>1, <3>1, <3>2
    <3> QED BY <3>2, <3>3
  <2>3. BytesOf(g) \in Seq(Content) /\ Len(BytesOf(g)) = Len(g)
    BY <2>2, BytesOfIs
  <2>4. BytesOf(g) # << >>
    BY <2>2, <2>3
  <2>5. Smallest(BytesOf(g)) = Min({Larger(1, Len(c)) : c \in ToSet(BytesOf(g))})
    BY <2>3, <2>4, SmallestIs
  <2> QED BY <2>5 DEF Fits, Local
<1> QED BY <1>1
\* The groups a release splits a cohort into.
Divided(gs) ==
    /\ gs \in Seq(Seq(Deferred))
    /\ \E paths \in Orders(Deferred) :
           GroupsOf(gs, paths, {g \in Runs(paths) : Local(BytesOf(g))})
    /\ \A p \in Deferred : \E i \in 1..Len(gs) : p \in ToSet(gs[i])

\* The groups of a split divide the ZIP files.
LEMMA DividedIs ==
    ASSUME tree \in Trees, NEW paths \in Orders(Deferred)
    PROVE  Divided(Grouped(paths, {g \in Runs(paths) : Fits(BytesOf(g))}))
<1> DEFINE fits == {g \in Runs(paths) : Fits(BytesOf(g))}
           gs == Grouped(paths, fits)
           D == Deferred
<1>1. paths \in Seq(D) /\ ToSet(paths) = D
  BY OrdersAre
<1>2. fits = {g \in Runs(paths) : Local(BytesOf(g))}
  BY <1>1, FitsIsLocal
<1> HIDE DEF fits, D
<1>3. gs \in Seq(Seq(D)) /\ GroupsOf(gs, paths, fits)
  BY <1>1, GroupedIs
<1> HIDE DEF gs
<1>4. ASSUME NEW p \in D PROVE \E i \in 1..Len(gs) : p \in ToSet(gs[i])
  <2>1. FlattenSeq(gs) = paths
    BY <1>3 DEF GroupsOf
  <2>2. p \in ToSet(FlattenSeq(gs))
    BY <1>1, <2>1
  <2> QED BY <1>3, <2>2, FlattenRange
<1>5. Divided(gs)
  BY <1>2, <1>3, <1>4 DEF Divided, D
<1> QED BY <1>5 DEF gs, fits

\* A split, or the decision that none is needed, fails or leads on to micro-packs.
LEMMA RepartitionEnds ==
    ASSUME Repartition
    PROVE  /\ phase = "repartition" /\ phase' \in {"micro", "failed"}
           /\ UNCHANGED scanVars /\ UNCHANGED planVars
<1>1. PICK paths \in Orders(Deferred) : SplitPack(paths)
  BY DEF Repartition
<1>2. phase' = "micro" \/ phase' = "failed"
  BY <1>1, Zenon DEF SplitPack
<1> QED BY <1>2 DEF Repartition

\* Splitting the container pack keeps RowsInv (v030_release_locality.py:108-188).
LEMMA RepartitionRows ==
    ASSUME RowsInv, Repartition
    PROVE  RowsInv'
<1>0. PICK paths \in Orders(Deferred) : SplitPack(paths)
  BY DEF Repartition
<1> DEFINE fits == {g \in Runs(paths) : Fits(BytesOf(g))}
           gs == Grouped(paths, fits)
           group(p) == gs[CHOOSE i \in DOMAIN gs : p \in ToSet(gs[i])]
           slice(p) == SliceOf(BytesOf(group(p)), IndexIn(group(p), p))
<1>1. /\ phase = "repartition" /\ phase' \in {"micro", "failed"} /\ tree' = tree
      /\ recipes' = recipes /\ groups' = groups
  BY <1>0, Zenon DEF Repartition, SplitPack, scanVars, tableVars, planVars
<1>2. \/ rows' = rows
      \/ (IsCohort /\ rows' = [p \in DOMAIN rows |-> IF p \in Deferred THEN slice(p) ELSE rows[p]])
  <2> DEFINE split == rows' = [p \in DOMAIN rows |-> IF p \in Deferred THEN slice(p) ELSE rows[p]]
  <2>1. \/ UNCHANGED <<rows, recipes, cands>>
        \/ ~(~release \/ Cardinality(Deferred) < Cohort \/ Len(gs) = 1) /\ split
    BY <1>0, Zenon DEF SplitPack, tableVars
  <2> HIDE DEF split, gs
  <2>2. Cardinality(Deferred) \in Nat /\ Cohort \in Nat
    BY PathsAre, BuilderAssumption DEF RowsInv
  <2>3. rows' = rows \/ (IsCohort /\ split)
    <3>1. CASE UNCHANGED <<rows, recipes, cands>>
      BY <3>1
    <3>2. CASE ~(Cardinality(Deferred) < Cohort) /\ split
      BY <2>2, <3>2 DEF IsCohort
    <3> QED BY <2>1, <3>1, <3>2
  <2> QED BY <2>3 DEF split
<1>3. tree \in Trees
  BY DEF RowsInv
<1>4. CASE rows' = rows
  <2>1. RowsSound'
    BY <1>1, <1>4, RowsStep DEF RowsInv, RowsSound
  <2>2. RecipesSound'
    BY <1>1, <1>4, RecipesStep DEF RowsInv
  <2> QED BY <1>1, <1>4, <2>1, <2>2 DEF RowsInv, AllScanned, GroupsTyped
<1>5. CASE IsCohort /\ rows' = [p \in DOMAIN rows |-> IF p \in Deferred THEN slice(p) ELSE rows[p]]
  <2>1. Divided(gs)
    BY <1>3, DividedIs
  <2>2. ASSUME NEW p \in Deferred PROVE SliceIs(slice(p), tree[p].bytes)
    <3> HIDE DEF gs
    <3>1. gs \in Seq(Seq(Deferred)) /\ \E i \in 1..Len(gs) : p \in ToSet(gs[i])
      BY <2>1 DEF Divided
    <3> DEFINE i == CHOOSE i \in DOMAIN gs : p \in ToSet(gs[i])
               T == Seq(Deferred)
    <3>2. DOMAIN gs = 1..Len(gs) /\ \A k \in DOMAIN gs : gs[k] \in T
      <4>1. gs \in Seq(T)
        BY <3>1
      <4> HIDE DEF T
      <4> QED BY <4>1
    <3>3. i \in DOMAIN gs /\ p \in ToSet(gs[i])
      BY <3>1, <3>2
    <3>4. gs[i] \in Seq(Deferred)
      BY <3>2, <3>3
    <3> HIDE DEF i
    <3> DEFINE g == gs[i]
    <3>5. g \in Seq(Deferred) /\ p \in ToSet(g)
      BY <3>3, <3>4
    <3> HIDE DEF g
    <3>6. SliceIs(SliceOf(BytesOf(g), IndexIn(g, p)), tree[p].bytes)
      BY <1>3, <3>5, ContainerSlice
    <3> QED BY <3>6 DEF g, i
  <2> HIDE DEF slice
  <2>3. DOMAIN rows' = DOMAIN rows
    BY <1>5
  <2>4. \A p \in DOMAIN rows' : rows'[p] = IF p \in Deferred THEN slice(p) ELSE rows[p]
    BY <1>5
  <2>5. RowsSound' /\ RecipesSound'
    BY <1>1, <1>5, <2>2, <2>3, <2>4, ContainerRows
  <2> QED BY <1>1, <2>3, <2>5 DEF RowsInv, AllScanned, GroupsTyped
<1> QED BY <1>2, <1>4, <1>5

\* The next ZIP file that waits.
LEMMA WaitingIs ==
    ASSUME tree \in Trees, Waiting # {}
    PROVE  Min(Waiting) \in Deferred /\ Min(Waiting) \notin DOMAIN rows
<1> DEFINE W == Waiting
<1>1. W \in SUBSET (0..Len(tree)) /\ W # {} /\ Len(tree) \in Nat
  BY DeferredIs DEF Waiting
<1>2. Min(W) \in W
  <2> HIDE DEF W
  <2> QED BY <1>1, MinIsSmallest
<1> QED BY <1>2 DEF Waiting

\* A recipe, given up or not, keeps RowsInv (codec.py:161-185).
LEMMA MakeRecipeRows ==
    ASSUME RowsInv, MakeRecipe
    PROVE  RowsInv'
<1> DEFINE p == Min(Waiting)
           v == [tag |-> "vzip"]
           b == [tag |-> "blob", of |-> Bytes(p)]
<1>1. /\ phase = "scan" /\ Waiting # {} /\ Cardinality(Deferred) < Cohort
      /\ tree' = tree /\ groups' = groups /\ phase' \in {"scan", "failed"}
  BY DEF MakeRecipe, scanVars, planVars
<1>2. \/ rows' = rows /\ recipes' = recipes
      \/ /\ tree[p].gaps # << >>
         /\ \/ rows' = Put(rows, p, v) /\ recipes' = Put(recipes, p, Recipe(tree[p]))
            \/ rows' = Put(rows, p, b) /\ recipes' = recipes
  BY DEF MakeRecipe, tableVars
<1>3. tree \in Trees
  BY DEF RowsInv
<1>4. /\ p \in DOMAIN tree /\ p \notin DOMAIN rows /\ tree[p].kind = "zip"
      /\ Bytes(p) = tree[p].bytes
  BY <1>1, <1>3, WaitingIs, DeferredIs
<1>5. ~IsCohort
  <2>1. Cardinality(Deferred) \in Nat /\ Cohort \in Nat
    BY <1>3, PathsAre, BuilderAssumption
  <2> QED BY <1>1, <2>1 DEF IsCohort
<1>6. AllScanned' /\ GroupsTyped' /\ (tree \in Trees)'
  BY <1>1 DEF RowsInv, AllScanned, GroupsTyped
<1>7. p \notin DOMAIN recipes
  BY <1>4 DEF RowsInv, RecipesSound
<1> HIDE DEF p
<1>8. CASE rows' = rows /\ recipes' = recipes
  <2>1. RowsSound'
    BY <1>1, <1>8, RowsStep DEF RowsInv, RowsSound
  <2>2. RecipesSound'
    BY <1>1, <1>8, RecipesStep DEF RowsInv
  <2> QED BY <1>6, <2>1, <2>2 DEF RowsInv
<1>9. CASE /\ tree[p].gaps # << >>
           /\ rows' = Put(rows, p, v) /\ recipes' = Put(recipes, p, Recipe(tree[p]))
  <2>1. DOMAIN rows' = DOMAIN rows \cup {p} /\ rows'[p] = v
        /\ \A q \in DOMAIN rows : rows'[q] = rows[q]
    BY <1>4, <1>9 DEF Put
  <2>2. DOMAIN recipes' = DOMAIN recipes \cup {p} /\ recipes'[p] = Recipe(tree[p])
        /\ \A q \in DOMAIN recipes : recipes'[q] = recipes[q]
    BY <1>7, <1>9 DEF Put
  <2>3. Stores(tree[p], v)
    BY <1>4, <1>5, <1>9 DEF Stores
  <2>4. RowsSound'
    <3>1. \A q \in DOMAIN rows' : q \in DOMAIN tree /\ Stores(tree[q], rows'[q])
      BY <1>4, <2>1, <2>3 DEF RowsInv, RowsSound
    <3> QED BY <1>1, <3>1, RowsStep
  <2>5. RecipesSound'
    <3>1. DOMAIN recipes' = {q \in DOMAIN rows' : rows'[q].tag = "vzip"}
      BY <1>4, <2>1, <2>2 DEF RowsInv, RecipesSound
    <3>2. ASSUME NEW q \in DOMAIN recipes' PROVE recipes'[q] = Recipe(tree[q])
      BY <2>2 DEF RowsInv, RecipesSound
    <3> QED BY <1>1, <3>1, <3>2 DEF RecipesSound
  <2> QED BY <1>6, <2>4, <2>5 DEF RowsInv
<1>10. CASE rows' = Put(rows, p, b) /\ recipes' = recipes
  <2>1. DOMAIN rows' = DOMAIN rows \cup {p} /\ rows'[p] = b
        /\ \A q \in DOMAIN rows : rows'[q] = rows[q]
    BY <1>4, <1>10 DEF Put
  <2>2. Stores(tree[p], b) /\ b.tag # "vzip"
    BY <1>4, <1>5 DEF Stores
  <2>3. RowsSound'
    <3>1. \A q \in DOMAIN rows' : q \in DOMAIN tree /\ Stores(tree[q], rows'[q])
      BY <1>4, <2>1, <2>2 DEF RowsInv, RowsSound
    <3> QED BY <1>1, <3>1, RowsStep
  <2>4. {q \in DOMAIN rows' : rows'[q].tag = "vzip"} = {q \in DOMAIN rows : rows[q].tag = "vzip"}
    BY <2>1, <2>2
  <2>5. RecipesSound'
    BY <1>1, <1>10, <2>4, RecipesStep DEF RowsInv
  <2> QED BY <1>6, <2>3, <2>5 DEF RowsInv
<1> QED BY <1>2, <1>8, <1>9, <1>10

\* Contents that files have to themselves are those of entries, and finitely many.
LEMMA DirectIs ==
    ASSUME RowsInv, NEW p \in DOMAIN rows, Direct(p)
    PROVE  /\ p \in DOMAIN tree /\ rows[p].of = tree[p].bytes /\ rows[p].of \in Content
           /\ rows[p] = [tag |-> "blob", of |-> tree[p].bytes]
           /\ tree[p].kind = "file" \/ (tree[p].kind = "zip" /\ ~IsCohort)
<1>1. p \in DOMAIN tree /\ Stores(tree[p], rows[p]) /\ tree \in Trees
  BY DEF RowsInv, RowsSound
<1>2. /\ rows[p] = [tag |-> "blob", of |-> tree[p].bytes]
      /\ tree[p].kind = "file" \/ (tree[p].kind = "zip" /\ ~IsCohort)
  BY <1>1 DEF Direct, Stores, SliceIs
<1>3. tree[p].bytes \in Content
  BY <1>1, TreeIs, EntryIs
<1> QED BY <1>1, <1>2, <1>3

\* There are finitely many contents to pack.
LEMMA EligibleIs ==
    ASSUME RowsInv
    PROVE  /\ Eligible \subseteq Content /\ IsFiniteSet(Eligible)
           /\ Cardinality(Eligible) \in Nat
<1> DEFINE D == {q \in DOMAIN rows : Direct(q)}
           f == [q \in D |-> rows[q].of]
<1>1. IsFiniteSet(D)
  <2>1. D \in SUBSET (1..Len(tree)) /\ Len(tree) \in Nat
    BY TreeIs DEF RowsInv, RowsSound
  <2>2. IsFiniteSet(1..Len(tree))
    BY <2>1, FS_Interval
  <2> HIDE DEF D
  <2> QED BY <2>1, <2>2, FS_Subset
<1>2. f \in Surjection(D, Small)
  BY DEF Surjection, Small
<1>3. IsFiniteSet(Small)
  <2> HIDE DEF D, f
  <2> QED BY <1>1, <1>2, FS_Surjection
<1>4. Eligible \in SUBSET Small
  BY DEF Eligible
<1>5. IsFiniteSet(Eligible)
  BY <1>3, <1>4, FS_Subset
<1>6. Small \subseteq Content
  BY DirectIs DEF Small
<1> QED BY <1>4, <1>5, <1>6, FS_CardinalityType

\* The plan of micro-packs: the eligible contents in some order, in groups.
Planned(s, gs) ==
    LET fits == {g \in Runs(s) : Alike(g) /\ Size(g) <= MicroTarget}
    IN  /\ s \in Seq(Eligible) /\ s \in Bijection(1..Len(s), Eligible)
        /\ gs \in Seq(Seq(Eligible)) /\ GroupsOf(gs, s, fits)

\* The plan groups the eligible contents, each once, in pack order.
LEMMA PlannedIs ==
    ASSUME RowsInv, PlanMicroPacks
    PROVE  \E s : Planned(s, groups')
<1> DEFINE E == Eligible
           m == Cardinality(E)
           fits(s) == {g \in Runs(s) : Alike(g) /\ Size(g) <= MicroTarget}
<1>1. PICK s \in Bijection(1..m, E) : groups' = Grouped(s, fits(s))
  BY Zenon DEF PlanMicroPacks
<1>2. m \in Nat
  BY EligibleIs
<1> HIDE DEF E, m, fits
<1>3. s \in [1..m -> E]
  BY <1>1 DEF Bijection, Surjection
<1>4. s \in Seq(E) /\ Len(s) = m
  BY <1>2, <1>3, SeqDef
<1> DEFINE F == fits(s)
<1> HIDE DEF F
<1>5. Grouped(s, F) \in Seq(Seq(E)) /\ GroupsOf(Grouped(s, F), s, F)
  BY <1>4, GroupedIs
<1>6. groups' \in Seq(Seq(E)) /\ GroupsOf(groups', s, F)
  BY <1>1, <1>5 DEF F
<1> QED BY <1>1, <1>4, <1>6 DEF Planned, F, fits, E

\* Steps after the scan that leave the rows alone keep RowsInv.
LEMMA SameRows ==
    ASSUME RowsInv, tree' = tree, rows' = rows, recipes' = recipes, GroupsTyped',
           phase \notin {"scan", "failed"}
    PROVE  RowsInv'
<1>1. RowsSound'
  BY RowsStep DEF RowsInv, RowsSound
<1>2. RecipesSound'
  BY RecipesStep DEF RowsInv
<1> QED BY <1>1, <1>2 DEF RowsInv, AllScanned

\* Planning the packs keeps RowsInv.
LEMMA PlanRows ==
    ASSUME RowsInv, PlanMicroPacks
    PROVE  RowsInv'
<1>1. phase = "micro" /\ tree' = tree /\ rows' = rows /\ recipes' = recipes
  BY DEF PlanMicroPacks, scanVars, tableVars
<1>2. PICK s : Planned(s, groups')
  BY PlannedIs
<1>3. Eligible \subseteq Content
  BY EligibleIs
<1>4. groups' \in Seq(Seq(Eligible))
  BY <1>2 DEF Planned
<1>5. groups' \in Seq(Seq(Content))
  <2> DEFINE E == Eligible
             S == Seq(E)
             T == Seq(Content)
  <2>1. S \subseteq T
    BY <1>3
  <2>2. groups' \in Seq(S)
    BY <1>4
  <2> HIDE DEF S, T
  <2>3. groups' \in Seq(T)
    BY <2>1, <2>2
  <2> QED BY <2>3 DEF T
<1>6. GroupsTyped'
  BY <1>5 DEF GroupsTyped
<1> QED BY <1>1, <1>6, SameRows

\* What FlushMicroPack makes of the rows.
Flushed(g) ==
    [p \in DOMAIN rows |-> IF Direct(p) /\ rows[p].of \in ToSet(g)
                           THEN SliceOf(g, IndexIn(g, rows[p].of)) ELSE rows[p]]

\* What writing one micro-pack does to rows and groups.
LEMMA FlushIs ==
    ASSUME GroupsTyped, FlushMicroPack
    PROVE  /\ phase = "flush" /\ phase' = phase /\ tree' = tree /\ release' = release
           /\ recipes' = recipes
           /\ groups # << >> /\ Head(groups) \in Seq(Content) /\ groups' = Tail(groups)
           /\ groups' \in Seq(Seq(Content))
           /\ rows' = Flushed(Head(groups))
<1>1. /\ phase = "flush" /\ phase' = phase /\ tree' = tree /\ release' = release
      /\ recipes' = recipes /\ groups # << >> /\ groups' = Tail(groups)
  BY DEF FlushMicroPack, scanVars
<1>2. rows' = Flushed(Head(groups))
  BY DEF FlushMicroPack, Flushed
<1> DEFINE T == Seq(Content)
<1>3. groups \in Seq(T)
  BY DEF GroupsTyped
<1> HIDE DEF T
<1>4. Head(groups) \in T /\ Tail(groups) \in Seq(T)
  BY <1>1, <1>3
<1> QED BY <1>1, <1>2, <1>4 DEF T

\* A file's content in a pack is the slice its row is pointed at.
LEMMA PackedSlice ==
    ASSUME RowsInv, NEW g \in Seq(Content), NEW p \in DOMAIN rows, Direct(p),
           rows[p].of \in ToSet(g)
    PROVE  SliceIs(SliceOf(g, IndexIn(g, rows[p].of)), tree[p].bytes)
<1> DEFINE c == rows[p].of
           i == IndexIn(g, c)
<1>1. c = tree[p].bytes
  BY DirectIs
<1>2. c \in ToSet(g)
  OBVIOUS
<1> HIDE DEF c
<1>3. i \in DOMAIN g /\ g[i] = c
  BY <1>2, IndexInIs
<1> HIDE DEF i
<1>4. SliceIs(SliceOf(g, i), g[i])
  BY <1>3, SliceOfIs
<1> QED BY <1>1, <1>3, <1>4 DEF i, c

\* Writing a micro-pack keeps RowsInv (builder.py:172-184).
LEMMA FlushRows ==
    ASSUME RowsInv, FlushMicroPack
    PROVE  RowsInv'
<1> DEFINE g == Head(groups)
           packed(p) == Direct(p) /\ rows[p].of \in ToSet(g)
           slice(p) == SliceOf(g, IndexIn(g, rows[p].of))
<1>1. /\ phase = "flush" /\ phase' = phase /\ tree' = tree /\ recipes' = recipes
      /\ g \in Seq(Content) /\ groups' \in Seq(Seq(Content)) /\ rows' = Flushed(g)
  BY FlushIs DEF RowsInv
<1> HIDE DEF g
<1>2. DOMAIN rows' = DOMAIN rows
  BY <1>1 DEF Flushed
<1>3. \A p \in DOMAIN rows : rows'[p] = IF packed(p) THEN slice(p) ELSE rows[p]
  BY <1>1 DEF Flushed
<1>4. ASSUME NEW p \in DOMAIN rows, packed(p)
      PROVE  p \in DOMAIN tree /\ tree[p].kind \in {"file", "zip"}
             /\ SliceIs(slice(p), tree[p].bytes)
             /\ rows[p].tag = "blob"
  <2>1. SliceIs(slice(p), tree[p].bytes)
    BY <1>1, <1>4, PackedSlice
  <2>2. p \in DOMAIN tree
    BY DEF RowsInv, RowsSound
  <2> QED BY <1>4, <2>1, <2>2 DEF Direct
<1> HIDE DEF packed, slice
<1>5. RowsSound'
  <2>1. \A p \in DOMAIN rows' : p \in DOMAIN tree /\ Stores(tree[p], rows'[p])
    BY <1>2, <1>3, <1>4 DEF RowsInv, RowsSound, Stores
  <2> QED BY <1>1, <2>1, RowsStep
<1>6. {p \in DOMAIN rows' : rows'[p].tag = "vzip"} = {p \in DOMAIN rows : rows[p].tag = "vzip"}
  <2>1. ASSUME NEW p \in DOMAIN rows PROVE rows'[p].tag = "vzip" <=> rows[p].tag = "vzip"
    BY <1>3, <1>4 DEF SliceIs
  <2> QED BY <1>2, <2>1
<1>7. RecipesSound'
  BY <1>1, <1>6, RecipesStep DEF RowsInv
<1>8. AllScanned' /\ GroupsTyped' /\ (tree \in Trees)'
  BY <1>1, <1>2 DEF RowsInv, AllScanned, GroupsTyped
<1> QED BY <1>5, <1>7, <1>8 DEF RowsInv

\* No step after the packs touches rows or recipes.
LEMMA LaterRows ==
    ASSUME RowsInv, PrepareDeflateReuse \/ TrainDictionary \/ EncodeCandidates \/ MapReferences
    PROVE  RowsInv'
<1>1. /\ tree' = tree /\ rows' = rows /\ recipes' = recipes /\ groups' = groups
      /\ phase \notin {"scan", "failed"}
  <2>1. CASE PrepareDeflateReuse
    BY <2>1 DEF PrepareDeflateReuse, scanVars
  <2>2. CASE TrainDictionary
    BY <2>2 DEF TrainDictionary, scanVars
  <2>3. CASE EncodeCandidates
    BY <2>3 DEF EncodeCandidates, scanVars, tableVars
  <2>4. CASE MapReferences
    BY <2>4 DEF MapReferences, scanVars, tableVars, planVars
  <2> QED BY <2>1, <2>2, <2>3, <2>4
<1>2. GroupsTyped'
  BY <1>1 DEF RowsInv, GroupsTyped
<1> QED BY <1>1, <1>2, SameRows

\* Rows and recipes are sound in every state.
LEMMA RowsHold == Spec => []RowsInv
<1>1. Init => RowsInv
  <2>1. ASSUME Init PROVE RowsInv
    <3>1. tree \in Trees /\ rows = << >> /\ recipes = << >> /\ phase = "scan" /\ groups = << >>
      BY <2>1 DEF Init
    <3>2. DOMAIN rows = {} /\ DOMAIN recipes = {}
      BY <3>1
    <3> QED BY <3>1, <3>2 DEF RowsInv, RowsSound, RecipesSound, AllScanned, GroupsTyped
  <2> QED BY <2>1
<1>2. ASSUME RowsInv, [Next]_vars PROVE RowsInv'
  <2>1. CASE ScanSymlink \/ ScanHardlink \/ ScanSparse \/ ScanFile
    BY <1>2, <2>1, ScanRows
  <2>2. CASE PackContainers
    BY <1>2, <2>2, PackContainersRows
  <2>3. CASE MakeRecipe
    BY <1>2, <2>3, MakeRecipeRows
  <2>4. CASE ScanDone
    BY <1>2, <2>4, ScanDoneRows
  <2>5. CASE Repartition
    BY <1>2, <2>5, RepartitionRows
  <2>6. CASE PlanMicroPacks
    BY <1>2, <2>6, PlanRows
  <2>7. CASE FlushMicroPack
    BY <1>2, <2>7, FlushRows
  <2>8. CASE PrepareDeflateReuse \/ TrainDictionary \/ EncodeCandidates \/ MapReferences
    BY <1>2, <2>8, LaterRows
  <2>9. CASE UNCHANGED vars
    <3>1. /\ tree' = tree /\ rows' = rows /\ recipes' = recipes /\ groups' = groups
          /\ phase' = phase
      BY <2>9 DEF vars, scanVars, tableVars, planVars
    <3>2. RowsSound'
      BY <1>2, <3>1, RowsStep DEF RowsInv, RowsSound
    <3>3. RecipesSound'
      BY <1>2, <3>1, RecipesStep DEF RowsInv
    <3> QED BY <1>2, <3>1, <3>2, <3>3 DEF RowsInv, AllScanned, GroupsTyped
  <2> QED BY <1>2, <2>1, <2>2, <2>3, <2>4, <2>5, <2>6, <2>7, <2>8, <2>9 DEF Next
<1> QED BY <1>1, <1>2, PTL DEF Spec

-----------------------------------------------------------------------------
(* Reading back.                                                           *)

\* Every record written gives its content back: the dictionary it needs is there.
LEMMA BlobIs ==
    ASSUME SameAsOneThread, NEW c \in DOMAIN codec
    PROVE  Blob(c) = c
<1>1. codec[c] = "dict" => trained
  <2>1. codec[c] = Encoded(c, "builder")
    BY DEF SameAsOneThread
  <2> QED BY <2>1 DEF Encoded
<1> QED BY <1>1 DEF Blob

\* Pieces of a content, by where they start and what they hold; every byte that is not
\* zero is in one of them.
Pieces(pieces, c) ==
    /\ \A k \in DOMAIN pieces : pieces[k].off \in Nat /\ pieces[k].bytes \in Content
    /\ \A k \in DOMAIN pieces : \A i \in 1..Len(c) :
          i - pieces[k].off \in DOMAIN pieces[k].bytes =>
              pieces[k].bytes[i - pieces[k].off] = c[i]
    /\ \A i \in 1..Len(c) :
          c[i] = 0 \/ \E k \in DOMAIN pieces : i - pieces[k].off \in DOMAIN pieces[k].bytes

\* Pieces of c written over zeros give c, if they cover all that is not zero.
LEMMA WrittenIs ==
    ASSUME NEW c \in Content, NEW pieces, NEW n \in Nat, DOMAIN pieces = 1..n, Pieces(pieces, c)
    PROVE  Written(Len(c), pieces) = c
<1> DEFINE over(i) == {k \in DOMAIN pieces : i - pieces[k].off \in DOMAIN pieces[k].bytes}
           byte(i) == pieces[Max(over(i))].bytes[i - pieces[Max(over(i))].off]
           w == [i \in 1..Len(c) |-> IF over(i) = {} THEN 0 ELSE byte(i)]
<1>1. Written(Len(c), pieces) = w
  BY DEF Written
<1>2. ASSUME NEW i \in 1..Len(c) PROVE w[i] = c[i]
  <2>1. CASE over(i) = {}
    BY <2>1 DEF Pieces
  <2>2. CASE over(i) # {}
    <3> DEFINE O == over(i)
    <3>1. O # {} /\ O \in SUBSET (0..n)
      BY <2>2
    <3> HIDE DEF O
    <3>2. Max(O) \in O
      BY <3>1, MaxIsLargest
    <3> DEFINE k == Max(O)
    <3>3. k \in DOMAIN pieces /\ i - pieces[k].off \in DOMAIN pieces[k].bytes
      <4>1. k \in O
        BY <3>2
      <4> HIDE DEF k
      <4> QED BY <4>1 DEF O
    <3>4. w[i] = pieces[k].bytes[i - pieces[k].off]
      BY <2>2 DEF O
    <3> HIDE DEF k, w
    <3> QED BY <3>3, <3>4 DEF Pieces
  <2> QED BY <2>1, <2>2
<1>3. c \in Seq(Nat) /\ Len(c) \in Nat
  BY DEF Content
<1>4. DOMAIN w = 1..Len(c) /\ w = [i \in 1..Len(c) |-> w[i]]
  OBVIOUS
<1> HIDE DEF w
<1>5. c = [i \in 1..Len(c) |-> c[i]]
  BY <1>3
<1>6. w = c
  BY <1>2, <1>4, <1>5
<1> QED BY <1>1, <1>6

\* Every element of a whole is in one of its parts.
LEMMA FoundInPart ==
    ASSUME NEW S, NEW parts \in Seq(Seq(S)), NEW x \in 1..Len(FlattenSeq(parts))
    PROVE  \E i \in 1..Len(parts) : x - Offset(parts, i) \in 1..Len(parts[i])
<1> DEFINE n == Len(parts)
           O(i) == Offset(parts, i)
           W == {k \in 1..n : x <= O(k + 1)}
<1>1. n \in Nat /\ Len(FlattenSeq(parts)) \in Nat /\ \A i \in 1..n : Len(parts[i]) \in Nat
  BY FlattenType
<1>2. O(1) = 0
  BY Offsets
<1>3. O(n + 1) = Len(FlattenSeq(parts))
  BY Offsets
<1>4. \A i \in 1..n : O(i + 1) = O(i) + Len(parts[i])
  BY Offsets
<1>5. \A i \in 1..(n + 1) : O(i) \in Nat
  BY Offsets
<1>6. n # 0
  BY <1>1, <1>2, <1>3
<1> HIDE DEF O
<1>7. n \in W
  BY <1>1, <1>3, <1>6
<1>8. W \in SUBSET (0..n) /\ W # {}
  BY <1>7
<1> DEFINE k == Min(W)
<1>9. k \in W /\ \A y \in W : k <= y
  <2> HIDE DEF W
  <2> QED BY <1>1, <1>8, MinIsSmallest
<1> HIDE DEF k
<1>10. k \in 1..n /\ x <= O(k + 1)
  BY <1>9
<1>11. O(k) < x
  <2>1. CASE k = 1
    BY <1>2, <2>1
  <2>2. CASE k # 1
    <3>1. k - 1 \in 1..n /\ (k - 1) + 1 = k /\ ~(k <= k - 1)
      BY <1>1, <1>10, <2>2
    <3>2. k - 1 \notin W
      BY <1>9, <3>1
    <3>3. ~(x <= O(k))
      BY <3>1, <3>2
    <3>4. O(k) \in Nat
      BY <1>1, <1>5, <1>10
    <3> QED BY <3>3, <3>4
  <2> QED BY <2>1, <2>2
<1>12. O(k) \in Nat /\ O(k + 1) = O(k) + Len(parts[k])
  BY <1>1, <1>4, <1>5, <1>10
<1>13. x - O(k) \in 1..Len(parts[k])
  <2>1. Len(parts[k]) \in Nat
    BY <1>1, <1>10
  <2> QED BY <1>10, <1>11, <1>12, <2>1
<1> QED BY <1>10, <1>13 DEF O

\* Bytes at an offset.
Piece == [off : Nat, bytes : Content]

\* Where an element of a part lies in the whole.
LEMMA PartElement ==
    ASSUME NEW S, NEW parts \in Seq(Seq(S)), NEW i \in 1..Len(parts), NEW y \in 1..Len(parts[i])
    PROVE  FlattenSeq(parts)[Offset(parts, i) + y] = parts[i][y]
<1> DEFINE W == FlattenSeq(parts)
           o == Offset(parts, i)
           l == Len(parts[i])
           e == o + l
<1>1. o \in Nat /\ o + l <= Len(W) /\ Cut(W, o, o + l) = parts[i]
  BY PartInWhole
<1>2. W \in Seq(S) /\ l \in Nat /\ y \in 1..l
  BY FlattenType
<1> HIDE DEF W, o, l
<1>3. e \in Nat /\ o <= e /\ e <= Len(W) /\ e - o = l /\ Cut(W, o, e) = parts[i] /\ o \in Nat
  BY <1>1, <1>2
<1> HIDE DEF e
<1>4. \A k \in 1..(e - o) : Cut(W, o, e)[k] = W[o + k]
  <2>1. W \in Seq(S)
    BY <1>2
  <2>2. o \in Nat /\ e \in Nat /\ o <= e /\ e <= Len(W)
    BY <1>3
  <2> QED BY <2>1, <2>2, CutIs
<1> QED BY <1>2, <1>3, <1>4 DEF W, o

\* One extent: its chunks are pieces of the file and hold all of it.
LEMMA ExtentChunks ==
    ASSUME SameAsOneThread, NEW e \in Entry, SparseEntry(e), NEW i \in DOMAIN e.extents,
           ToSet(Extents(e)[i].parts) \subseteq DOMAIN codec
    PROVE  /\ Chunks(Extents(e)[i]) \in Seq(Piece)
           /\ \A q \in ToSet(Chunks(Extents(e)[i])) : \A x \in 1..Len(e.bytes) :
                 x - q.off \in DOMAIN q.bytes => q.bytes[x - q.off] = e.bytes[x]
           /\ \A x \in (e.extents[i][1] + 1)..e.extents[i][2] :
                 \E q \in ToSet(Chunks(Extents(e)[i])) : x - q.off \in DOMAIN q.bytes
<1> DEFINE c == e.bytes
           from == e.extents[i][1]
           to == e.extents[i][2]
           x0 == Cut(c, from, to)
           parts == Fixed(x0)
           ch == Chunks(Extents(e)[i])
           n == Len(parts)
<1>1. c \in Seq(Nat) /\ from \in Nat /\ to \in Nat /\ from < to /\ to <= Len(c) /\ Len(c) \in Nat
  <2>1. e.extents \in Seq(Nat \X Nat) /\ c \in Content
    BY EntryIs
  <2>2. e.extents[i] \in Nat \X Nat
    BY <2>1
  <2>3. from < to /\ to <= Len(c)
    BY DEF SparseEntry
  <2> QED BY <2>1, <2>2, <2>3 DEF Content
<1>2. Extents(e)[i] = [off |-> from, len |-> to - from, parts |-> parts]
  BY DEF Extents
<1> HIDE DEF c, from, to
<1>3. x0 \in Seq(Nat) /\ Len(x0) = to - from /\ \A k \in 1..(to - from) : x0[k] = c[from + k]
  <2>1. from <= to
    BY <1>1
  <2>2. x0 \in Seq(Nat) /\ Len(x0) = to - from
    BY <1>1, <2>1, CutSize
  <2>3. ASSUME NEW k \in 1..(to - from) PROVE x0[k] = c[from + k]
    BY <1>1, <2>1, CutAt
  <2> HIDE DEF x0
  <2> QED BY <2>2, <2>3
<1> HIDE DEF x0
<1>4. ChunksOf(parts, x0)
  BY <1>3, FixedChunks DEF Content
<1> HIDE DEF parts
<1>5. parts \in Seq(Seq(Nat)) /\ FlattenSeq(parts) = x0 /\ DOMAIN parts = 1..n /\ n \in Nat
      /\ \A j \in 1..n : parts[j] \in Seq(Nat)
  BY <1>4 DEF ChunksOf, Content
<1> DEFINE p(j) == [off |-> from + Offset(parts, j), bytes |-> parts[j]]
<1>6. ch = [j \in 1..n |-> p(j)]
  <2>1. ch = [j \in 1..n |-> [off |-> from + Offset(parts, j), bytes |-> Blob(parts[j])]]
    BY <1>2, <1>5 DEF Chunks
  <2>2. ASSUME NEW j \in 1..n PROVE Blob(parts[j]) = parts[j]
    <3>1. parts[j] \in ToSet(Extents(e)[i].parts)
      <4>1. Extents(e)[i].parts = parts
        BY <1>2
      <4>2. parts[j] \in ToSet(parts)
        BY <1>5 DEF ToSet
      <4> QED BY <4>1, <4>2
    <3>2. parts[j] \in DOMAIN codec
      BY <3>1
    <3> QED BY <3>2, BlobIs
  <2> HIDE DEF ch
  <2> QED BY <2>1, <2>2
<1> HIDE DEF ch
<1>7. ASSUME NEW j \in 1..n PROVE Offset(parts, j) \in Nat /\ p(j) \in Piece
  <2>1. j \in 1..(n + 1)
    BY <1>5
  <2>2. Offset(parts, j) \in Nat
    BY <1>5, <2>1, Offsets
  <2> QED BY <1>1, <1>5, <2>2 DEF Piece, Content
<1>8. ch \in Seq(Piece)
  BY <1>5, <1>6, <1>7, SeqDef
<1>9. ASSUME NEW q \in ToSet(ch), NEW x \in 1..Len(c), x - q.off \in DOMAIN q.bytes
      PROVE  q.bytes[x - q.off] = c[x]
  <2>1. PICK j \in 1..n : q = p(j)
    BY <1>6 DEF ToSet
  <2>2. q.off = from + Offset(parts, j) /\ q.bytes = parts[j] /\ Offset(parts, j) \in Nat
    BY <1>7, <2>1
  <2> DEFINE o == Offset(parts, j)
             y == x - q.off
  <2>3. y \in 1..Len(parts[j])
    BY <1>5, <1>9, <2>2
  <2> HIDE DEF y
  <2>4. FlattenSeq(parts)[o + y] = parts[j][y]
    BY <1>5, <2>3, PartElement
  <2>5. o + Len(parts[j]) <= Len(x0)
    BY <1>5, PartInWhole
  <2>6. o \in Nat /\ y \in Nat /\ from + (o + y) = x
    <3>1. Len(parts[j]) \in Nat
      BY <1>5
    <3>2. y \in Nat
      BY <2>3, <3>1
    <3>3. x \in Int /\ q.off = from + o /\ o \in Nat /\ y = x - q.off
      BY <1>1, <2>2 DEF y
    <3> HIDE DEF o
    <3> QED BY <1>1, <3>2, <3>3
  <2> HIDE DEF o
  <2>7. o + y \in 1..(to - from)
    <3>1. Len(parts[j]) \in Nat
      BY <1>5
    <3> DEFINE l == Len(parts[j])
    <3>2. l \in Nat /\ y \in 1..l /\ o + l <= Len(x0) /\ Len(x0) = to - from
      BY <1>3, <2>3, <2>5, <3>1
    <3> HIDE DEF l
    <3> QED BY <1>1, <2>6, <3>2
  <2>8. x0[o + y] = c[from + (o + y)]
    BY <1>3, <2>7
  <2>9. parts[j][y] = c[x]
    BY <1>5, <2>4, <2>6, <2>8 DEF o
  <2> QED BY <2>2, <2>9 DEF y
<1>10. ASSUME NEW x \in (from + 1)..to PROVE \E q \in ToSet(ch) : x - q.off \in DOMAIN q.bytes
  <2> DEFINE y == x - from
  <2>1. y \in 1..Len(FlattenSeq(parts))
    BY <1>1, <1>3, <1>5
  <2> HIDE DEF y
  <2>2. PICK j \in 1..n : y - Offset(parts, j) \in 1..Len(parts[j])
    BY <1>5, <2>1, FoundInPart
  <2>3. Offset(parts, j) \in Nat
    BY <1>7
  <2>4. x - (from + Offset(parts, j)) = y - Offset(parts, j)
    BY <1>1, <2>3 DEF y
  <2>5. p(j) \in ToSet(ch)
    BY <1>6 DEF ToSet
  <2>6. DOMAIN parts[j] = 1..Len(parts[j])
    BY <1>5
  <2>7. x - p(j).off \in DOMAIN p(j).bytes
    BY <2>2, <2>4, <2>6
  <2> QED BY <2>5, <2>7
<1> QED BY <1>8, <1>9, <1>10 DEF ch, c, from, to

\* The chunks of a sparse file are pieces of it that cover its data.
LEMMA SparseChunksAre ==
    ASSUME SameAsOneThread, NEW e \in Entry, SparseEntry(e), NEW r, r.extents = Extents(e),
           \A i \in DOMAIN e.extents : ToSet(Extents(e)[i].parts) \subseteq DOMAIN codec
    PROVE  SparseChunks(r) \in Seq(Piece) /\ Pieces(SparseChunks(r), e.bytes)
<1> DEFINE outer == [i \in DOMAIN e.extents |-> Chunks(Extents(e)[i])]
           m == Len(e.extents)
           sc == SparseChunks(r)
           c == e.bytes
<1>1. e.extents \in Seq(Nat \X Nat) /\ DOMAIN e.extents = 1..m /\ m \in Nat /\ c \in Seq(Nat)
  BY EntryIs DEF Content
<1>2. sc = FlattenSeq(outer)
  BY DEF SparseChunks, Extents
<1> HIDE DEF c
<1>3. \A i \in 1..m : outer[i] = Chunks(Extents(e)[i]) /\ outer[i] \in Seq(Piece)
  <2>1. ASSUME NEW i \in 1..m PROVE outer[i] = Chunks(Extents(e)[i]) /\ outer[i] \in Seq(Piece)
    <3>1. i \in DOMAIN e.extents
      BY <1>1
    <3> QED BY <3>1, ExtentChunks
  <2> QED BY <2>1
<1>4. outer \in Seq(Seq(Piece)) /\ Len(outer) = m
  <2> DEFINE T == Seq(Piece)
  <2>1. DOMAIN outer = 1..m /\ outer = [i \in 1..m |-> outer[i]]
    BY <1>1
  <2>2. \A i \in 1..m : outer[i] \in T
    BY <1>3
  <2> HIDE DEF T, outer, m
  <2>3. outer \in [1..m -> T]
    BY <2>1, <2>2
  <2>4. outer \in Seq(T) /\ Len(outer) = m
    BY <1>1, <2>3, SeqDef
  <2> QED BY <2>4 DEF T
<1> HIDE DEF outer, sc
<1>5. sc \in Seq(Piece)
  BY <1>2, <1>4, FlattenType
<1>6. ASSUME NEW q PROVE q \in ToSet(sc) <=> \E i \in 1..m : q \in ToSet(Chunks(Extents(e)[i]))
  <2>1. q \in ToSet(sc) <=> \E i \in 1..m : q \in ToSet(outer[i])
    BY <1>2, <1>4, FlattenRange
  <2> QED BY <1>3, <2>1
<1>7. DOMAIN sc = 1..Len(sc) /\ Len(sc) \in Nat /\ \A k \in DOMAIN sc : sc[k] \in Piece
          /\ sc[k] \in ToSet(sc)
  BY <1>5 DEF ToSet
<1>8. ASSUME NEW k \in DOMAIN sc PROVE sc[k].off \in Nat /\ sc[k].bytes \in Content
  BY <1>7 DEF Piece
<1>9. ASSUME NEW k \in DOMAIN sc, NEW x \in 1..Len(c), x - sc[k].off \in DOMAIN sc[k].bytes
      PROVE  sc[k].bytes[x - sc[k].off] = c[x]
  <2> DEFINE q == sc[k]
  <2>1. q \in ToSet(sc)
    BY <1>7
  <2>2. x - q.off \in DOMAIN q.bytes
    BY <1>9
  <2> HIDE DEF q
  <2>3. PICK i \in 1..m : q \in ToSet(Chunks(Extents(e)[i]))
    BY <1>6, <2>1
  <2>4. \A y \in ToSet(Chunks(Extents(e)[i])) : \A z \in 1..Len(c) :
           z - y.off \in DOMAIN y.bytes => y.bytes[z - y.off] = c[z]
    BY <1>1, ExtentChunks DEF c
  <2>5. q.bytes[x - q.off] = c[x]
    BY <2>2, <2>3, <2>4
  <2> QED BY <2>5 DEF q
<1>10. ASSUME NEW x \in 1..Len(c), c[x] # 0
       PROVE  \E k \in DOMAIN sc : x - sc[k].off \in DOMAIN sc[k].bytes
  <2>1. DOMAIN c = 1..Len(c)
    BY <1>1
  <2>2. PICK i \in DOMAIN e.extents : x \in (e.extents[i][1] + 1)..e.extents[i][2]
    BY <1>10, <2>1 DEF SparseEntry, c
  <2>3. PICK q \in ToSet(Chunks(Extents(e)[i])) : x - q.off \in DOMAIN q.bytes
    BY <2>2, ExtentChunks
  <2>4. q \in ToSet(sc)
    BY <1>1, <1>6, <2>3
  <2>5. PICK k \in DOMAIN sc : sc[k] = q
    BY <2>4 DEF ToSet
  <2> QED BY <2>3, <2>5
<1>11. Pieces(sc, c)
  BY <1>8, <1>9, <1>10 DEF Pieces
<1> QED BY <1>5, <1>11 DEF sc, c

\* Literals are at the odd places, streams at the even ones.
LEMMA InterleavedIs ==
    ASSUME NEW T, NEW lits \in Seq(T), NEW strs \in Seq(T), Len(lits) = Len(strs) + 1
    PROVE  /\ Interleaved(lits, strs) \in Seq(T)
           /\ Len(Interleaved(lits, strs)) = 2 * Len(strs) + 1
           /\ \A i \in 1..Len(lits) : Interleaved(lits, strs)[2 * i - 1] = lits[i]
           /\ \A i \in 1..Len(strs) : Interleaved(lits, strs)[2 * i] = strs[i]
           /\ \A k \in 1..(2 * Len(strs) + 1) :
                 \/ \E i \in 1..Len(lits) : k = 2 * i - 1
                 \/ \E i \in 1..Len(strs) : k = 2 * i
<1> DEFINE n == Len(strs)
           w == Interleaved(lits, strs)
<1>1. n \in Nat /\ Len(lits) = n + 1 /\ (\A i \in 1..(n + 1) : lits[i] \in T)
      /\ \A i \in 1..n : strs[i] \in T
  OBVIOUS
<1>2. Len(lits) + Len(strs) = 2 * n + 1
  BY <1>1
<1>3. w = [k \in 1..(2 * n + 1) |-> IF k % 2 = 1 THEN lits[(k + 1) \div 2] ELSE strs[k \div 2]]
  BY <1>2 DEF Interleaved
<1> HIDE DEF w, n
<1>4. ASSUME NEW i \in 1..(n + 1) PROVE 2 * i - 1 \in 1..(2 * n + 1) /\ w[2 * i - 1] = lits[i]
  <2> DEFINE k == 2 * i - 1
  <2>1. k \in 1..(2 * n + 1) /\ k % 2 = 1 /\ (k + 1) \div 2 = i
    BY <1>1, SMT
  <2> HIDE DEF k
  <2>2. w[k] = lits[i]
    BY <1>3, <2>1
  <2> QED BY <2>1, <2>2 DEF k
<1>5. ASSUME NEW i \in 1..n PROVE 2 * i \in 1..(2 * n + 1) /\ w[2 * i] = strs[i]
  <2> DEFINE k == 2 * i
  <2>1. k \in 1..(2 * n + 1) /\ k % 2 = 0 /\ k \div 2 = i
    BY <1>1, SMT
  <2> HIDE DEF k
  <2>2. w[k] = strs[i]
    BY <1>3, <2>1
  <2> QED BY <2>1, <2>2 DEF k
<1>6. ASSUME NEW k \in 1..(2 * n + 1)
      PROVE  (\E i \in 1..(n + 1) : k = 2 * i - 1) \/ (\E i \in 1..n : k = 2 * i)
  <2>1. CASE k % 2 = 1
    <3> DEFINE i == (k + 1) \div 2
    <3>1. k = 2 * i - 1 /\ i \in Int
      BY <2>1, SMT
    <3> HIDE DEF i
    <3>2. i \in 1..(n + 1)
      BY <1>1, <3>1
    <3> QED BY <3>1, <3>2
  <2>2. CASE k % 2 # 1
    <3> DEFINE i == k \div 2
    <3>1. k = 2 * i /\ i \in Int
      BY <2>2, SMT
    <3> HIDE DEF i
    <3>2. i \in 1..n
      BY <1>1, <3>1
    <3> QED BY <3>1, <3>2
  <2> QED BY <2>1, <2>2
<1>7. ASSUME NEW k \in 1..(2 * n + 1) PROVE w[k] \in T
  <2>1. CASE \E i \in 1..(n + 1) : k = 2 * i - 1
    BY <1>1, <1>4, <2>1
  <2>2. CASE \E i \in 1..n : k = 2 * i
    BY <1>1, <1>5, <2>2
  <2> QED BY <1>6, <2>1, <2>2
<1>8. w \in [1..(2 * n + 1) -> T] /\ 2 * n + 1 \in Nat
  BY <1>1, <1>3, <1>7
<1>9. w \in Seq(T) /\ Len(w) = 2 * n + 1
  <2> DEFINE m == 2 * n + 1
  <2> HIDE DEF m
  <2>1. w \in [1..m -> T] /\ m \in Nat
    BY <1>8 DEF m
  <2>2. w \in Seq(T) /\ Len(w) = m
    BY <2>1, SeqDef
  <2> QED BY <2>2 DEF m
<1> QED BY <1>1, <1>4, <1>5, <1>6, <1>9 DEF n, w

\* The entry of a ZIP file: literals and streams make it up.
LEMMA ZipIs ==
    ASSUME NEW e \in Entry, e.gaps # << >>, Len(e.gaps) = Len(e.members) + 1,
           e.bytes = ZipBytes(e.gaps, e.members)
    PROVE  /\ e.gaps \in Seq(Content) /\ Streams(e.members) \in Seq(Content)
           /\ Len(Streams(e.members)) = Len(e.members) /\ Len(e.members) \in Nat
           /\ DOMAIN e.gaps = 1..(Len(e.members) + 1) /\ DOMAIN e.members = 1..Len(e.members)
           /\ \A i \in 1..Len(e.members) : /\ e.members[i].raw \in Content
                                          /\ e.members[i].level \in Nat
                                          /\ Streams(e.members)[i] = Stream(e.members[i])
           /\ e.bytes = FlattenSeq(Interleaved(e.gaps, Streams(e.members)))
<1> DEFINE M == [raw : Content, level : Nat, ext : STRING]
           ms == e.members
           n == Len(ms)
<1>1. e.gaps \in Seq(Content) /\ ms \in Seq(M)
  BY EntryIs
<1> HIDE DEF M
<1>2. n \in Nat /\ DOMAIN ms = 1..n /\ \A i \in 1..n : ms[i] \in M
  BY <1>1
<1>3. ASSUME NEW i \in 1..n
      PROVE ms[i].raw \in Content /\ ms[i].level \in Nat /\ Stream(ms[i]) \in Content
  <2> DEFINE m == ms[i]
  <2>1. m \in M
    BY <1>2
  <2> HIDE DEF m
  <2>2. m.raw \in Seq(Nat) /\ m.level \in Nat
    BY <2>1 DEF M, Content
  <2>3. << m.level >> \in Seq(Nat)
    BY <2>2
  <2>4. << m.level >> \o m.raw \in Seq(Nat)
    BY <2>2, <2>3
  <2>5. Stream(m) \in Seq(Nat)
    BY <2>2, <2>4 DEF Stream, Deflate
  <2> QED BY <2>2, <2>5 DEF m, Content
<1> DEFINE s == Streams(ms)
<1>4. s = [i \in 1..n |-> Stream(ms[i])]
  BY <1>2 DEF Streams
<1> HIDE DEF s, n
<1>5. s \in [1..n -> Content]
  BY <1>3, <1>4
<1>6. s \in Seq(Content) /\ Len(s) = n
  BY <1>2, <1>5, SeqDef
<1>7. \A i \in 1..n : s[i] = Stream(ms[i])
  BY <1>4
<1>8. DOMAIN e.gaps = 1..(n + 1)
  BY <1>1, <1>2 DEF n
<1>9. e.bytes = FlattenSeq(Interleaved(e.gaps, s))
  BY DEF ZipBytes, s
<1> QED BY <1>1, <1>2, <1>3, <1>6, <1>7, <1>8, <1>9 DEF s, n

\* A payload whose stream is the canonical one of a content that is stored as it is.
RefusedPayload(pl) ==
    Mode(pl) = "canonical" /\ (pl.raw \in secondary \/ (trained /\ pl.raw = Dictionary))

\* The payload a recipe notes for a member.
PayloadOf(m) == [raw |-> m.raw, stream |-> Stream(m), level |-> m.level]

\* A payload is the member's stream again, unless it is refused.
LEMMA StreamOfIs ==
    ASSUME SameAsOneThread, NEW m, m.raw \in DOMAIN codec,
           Mode(PayloadOf(m)) = "secondary" => Stream(m) \in DOMAIN codec
    PROVE  StreamOf(PayloadOf(m)) = IF RefusedPayload(PayloadOf(m)) THEN Failure ELSE Stream(m)
<1> DEFINE pl == PayloadOf(m)
<1>1. pl.raw = m.raw /\ pl.stream = Stream(m) /\ pl.level = m.level
  BY DEF PayloadOf
<1> HIDE DEF pl
<1>2. Blob(pl.raw) = pl.raw
  BY <1>1, BlobIs
<1>3. CASE pl.level = Stored
  <2>1. Mode(pl) = "stored"
    BY <1>3 DEF Mode
  <2>2. Stream(m) = m.raw
    BY <1>1, <1>3 DEF Stream
  <2> QED BY <1>1, <1>2, <2>1, <2>2 DEF StreamOf, RefusedPayload, pl
<1>4. CASE pl.level # Stored /\ pl.raw \in DOMAIN canonical /\ canonical[pl.raw] = pl.stream
  <2>1. Mode(pl) = "canonical"
    BY <1>4 DEF Mode
  <2>2. codec[pl.raw] = Encoded(pl.raw, "builder")
    BY <1>1 DEF SameAsOneThread
  <2>3. codec[pl.raw] = "deflate" <=> ~(pl.raw \in secondary \/ (trained /\ pl.raw = Dictionary))
    BY <1>4, <2>2 DEF Encoded
  <2>4. StreamOf(pl) = IF codec[pl.raw] = "deflate" THEN canonical[pl.raw] ELSE Failure
    BY <2>1 DEF StreamOf
  <2> QED BY <1>1, <1>4, <2>1, <2>3, <2>4 DEF RefusedPayload, pl
<1>5. CASE /\ pl.level # Stored /\ ~(pl.raw \in DOMAIN canonical /\ canonical[pl.raw] = pl.stream)
           /\ pl.stream \in secondary
  <2>1. Mode(pl) = "secondary"
    BY <1>5 DEF Mode
  <2>2. Blob(pl.stream) = pl.stream
    BY <1>1, <2>1, BlobIs DEF pl
  <2>3. StreamOf(pl) = Blob(pl.stream)
    BY <2>1 DEF StreamOf
  <2> QED BY <1>1, <2>1, <2>2, <2>3 DEF RefusedPayload, pl
<1>6. CASE /\ pl.level # Stored /\ ~(pl.raw \in DOMAIN canonical /\ canonical[pl.raw] = pl.stream)
           /\ pl.stream \notin secondary
  <2>1. Mode(pl) = "regenerate"
    BY <1>6 DEF Mode
  <2>2. StreamOf(pl) = Deflate(Blob(pl.raw), pl.level)
    BY <2>1 DEF StreamOf
  <2>3. Stream(m) = Deflate(m.raw, m.level)
    BY <1>1, <1>6 DEF Stream
  <2> QED BY <1>1, <1>2, <2>1, <2>2, <2>3 DEF RefusedPayload, pl
<1> QED BY <1>3, <1>4, <1>5, <1>6

\* Everything a recipe needs was written.
Gettable(e) ==
    /\ FlattenSeq(e.gaps) \in DOMAIN codec
    /\ \A i \in DOMAIN e.members :
          /\ e.members[i].raw \in DOMAIN codec
          /\ Mode(PayloadOf(e.members[i])) = "secondary" => Stream(e.members[i]) \in DOMAIN codec

\* A ZIP file of which some payload is refused.
RefusedEntry(e) == \E i \in DOMAIN e.members : RefusedPayload(PayloadOf(e.members[i]))

\* A file that the ZIP reader took apart.
ZipEntry(e) ==
    /\ e \in Entry /\ e.gaps # << >> /\ Len(e.gaps) = Len(e.members) + 1
    /\ e.bytes = ZipBytes(e.gaps, e.members)

\* The literals of the skeleton are what lies between the payloads.
LEMMA LiteralsAre ==
    ASSUME NEW gaps \in Seq(Content), NEW i \in 1..Len(gaps)
    PROVE  Cut(FlattenSeq(gaps), Ends([j \in DOMAIN gaps |-> Len(gaps[j])])[i - 1],
               Ends([j \in DOMAIN gaps |-> Len(gaps[j])])[i]) = gaps[i]
<1> DEFINE lens == [j \in DOMAIN gaps |-> Len(gaps[j])]
           n == Len(gaps)
<1>1. gaps \in Seq(Seq(Nat)) /\ n \in Nat /\ DOMAIN gaps = 1..n /\ \A j \in 1..n :
          gaps[j] \in Seq(Nat)
  BY DEF Content
<1>2. lens = [j \in 1..n |-> Len(gaps[j])] /\ \A j \in 1..n : Len(gaps[j]) \in Nat
  BY <1>1
<1> HIDE DEF lens
<1>3. lens \in [1..n -> Nat]
  BY <1>2
<1>4. lens \in Seq(Nat) /\ Len(lens) = n
  <2>1. \E k \in Nat : lens \in [1..k -> Nat]
    BY <1>1, <1>3
  <2>2. DOMAIN lens = 1..n
    BY <1>3
  <2> HIDE DEF n
  <2> QED BY <1>1, <1>3, <2>1, <2>2, SeqDef
<1>5. \A j \in 1..n : lens[j] = Len(gaps[j])
  BY <1>2
<1>6. \A j \in 0..n : Ends(lens)[j] = Offset(gaps, j + 1)
  BY <1>1, <1>4, <1>5, EndsOfParts
<1>7. Ends(lens)[i - 1] = Offset(gaps, i) /\ Ends(lens)[i] = Offset(gaps, i + 1)
  <2>1. i - 1 \in 0..n /\ i \in 0..n /\ (i - 1) + 1 = i
    BY <1>1
  <2>2. Ends(lens)[i - 1] = Offset(gaps, (i - 1) + 1)
    BY <1>6, <2>1
  <2> QED BY <1>6, <2>1, <2>2
<1>8. Offset(gaps, i + 1) = Offset(gaps, i) + Len(gaps[i])
  BY <1>1, Offsets
<1>9. Cut(FlattenSeq(gaps), Offset(gaps, i), Offset(gaps, i) + Len(gaps[i])) = gaps[i]
  BY <1>1, PartInWhole
<1> QED BY <1>7, <1>8, <1>9 DEF lens

\* The segments a reader of a ZIP file gets: the right ones, or none.
LEMMA SegmentsAre ==
    ASSUME SameAsOneThread, NEW e, ZipEntry(e), Gettable(e)
    PROVE  LET w == Interleaved(e.gaps, Streams(e.members))
               s == Segments(Recipe(e))
           IN  /\ w \in Seq(Content) /\ FlattenSeq(w) = e.bytes
               /\ s \in Seq(Seq(Int)) /\ Len(s) = Len(w)
               /\ \A k \in 1..Len(w) : s[k] = Failure \/ s[k] = w[k]
               /\ (\E k \in 1..Len(w) : s[k] = Failure) <=> RefusedEntry(e)
<1> DEFINE ms == e.members
           n == Len(ms)
           gaps == e.gaps
           st == Streams(ms)
           got == [i \in 1..n |-> IF RefusedPayload(PayloadOf(ms[i])) THEN Failure ELSE st[i]]
           w == Interleaved(gaps, st)
           s == Segments(Recipe(e))
<1>1. /\ gaps \in Seq(Content) /\ st \in Seq(Content) /\ Len(st) = n /\ n \in Nat
      /\ DOMAIN gaps = 1..(n + 1) /\ DOMAIN ms = 1..n /\ Len(gaps) = n + 1
      /\ \A i \in 1..n : ms[i].raw \in Content /\ ms[i].level \in Nat /\ st[i] = Stream(ms[i])
      /\ e.bytes = FlattenSeq(w)
  BY ZipIs DEF ZipEntry
<1>2. /\ Recipe(e).skeleton = FlattenSeq(gaps)
      /\ Recipe(e).lens = [j \in DOMAIN gaps |-> Len(gaps[j])]
      /\ Recipe(e).payloads = [i \in DOMAIN ms |-> PayloadOf(ms[i])]
  BY DEF Recipe, PayloadOf
<1>3. s = Interleaved([i \in 1..(n + 1) |->
                          Cut(Blob(FlattenSeq(gaps)), Ends(Recipe(e).lens)[i - 1],
                              Ends(Recipe(e).lens)[i])],
                      [i \in 1..n |-> StreamOf(PayloadOf(ms[i]))])
  BY <1>1, <1>2 DEF Segments
<1>4. gaps = [i \in 1..(n + 1) |->
                 Cut(Blob(FlattenSeq(gaps)), Ends(Recipe(e).lens)[i - 1], Ends(Recipe(e).lens)[i])]
  <2>1. Blob(FlattenSeq(gaps)) = FlattenSeq(gaps)
    BY BlobIs DEF Gettable
  <2>2. \A i \in 1..(n + 1) :
           Cut(FlattenSeq(gaps), Ends(Recipe(e).lens)[i - 1], Ends(Recipe(e).lens)[i]) = gaps[i]
    <3> DEFINE lens == [j \in DOMAIN gaps |-> Len(gaps[j])]
    <3>1. Recipe(e).lens = lens
      BY <1>2
    <3>2. ASSUME NEW i \in 1..Len(gaps)
          PROVE  Cut(FlattenSeq(gaps), Ends(lens)[i - 1], Ends(lens)[i]) = gaps[i]
      <4> HIDE DEF gaps
      <4> QED BY <1>1, LiteralsAre
    <3>3. 1..Len(gaps) = 1..(n + 1)
      BY <1>1
    <3> HIDE DEF lens, gaps
    <3> QED BY <3>1, <3>2, <3>3
  <2>3. gaps = [i \in 1..(n + 1) |-> gaps[i]]
    BY <1>1
  <2> HIDE DEF gaps, n
  <2> QED BY <2>1, <2>2, <2>3
<1>5. got = [i \in 1..n |-> StreamOf(PayloadOf(ms[i]))]
  <2>1. ASSUME NEW i \in 1..n PROVE StreamOf(PayloadOf(ms[i])) = got[i]
    <3> DEFINE m == ms[i]
    <3>1. m.raw \in DOMAIN codec /\ (Mode(PayloadOf(m)) = "secondary" => Stream(m) \in DOMAIN codec)
      BY <1>1 DEF Gettable
    <3> HIDE DEF m
    <3>2. StreamOf(PayloadOf(m)) = IF RefusedPayload(PayloadOf(m)) THEN Failure ELSE Stream(m)
      BY <3>1, StreamOfIs
    <3> QED BY <1>1, <3>2 DEF m
  <2> QED BY <2>1
<1>6. s = Interleaved(gaps, got)
  <2> HIDE DEF got, gaps, s, n
  <2> QED BY <1>3, <1>4, <1>5
<1> HIDE DEF s, w
<1>7. Failure \in Seq(Int) /\ Failure \notin Content /\ Content \subseteq Seq(Int)
  <2>1. Failure[1] = -1 /\ Len(Failure) = 1
    BY DEF Failure
  <2>2. Failure \notin Seq(Nat)
    <3>1. ASSUME Failure \in Seq(Nat) PROVE FALSE
      <4>1. Failure[1] \in Nat
        BY <2>1, <3>1
      <4> QED BY <2>1, <4>1
    <3> QED BY <3>1
  <2>3. Failure \in Seq(Int)
    BY DEF Failure
  <2> QED BY <2>2, <2>3 DEF Content
<1> DEFINE T == Seq(Int)
<1>8. got \in Seq(T) /\ Len(got) = n
  <2>1. \A i \in 1..n : got[i] \in T
    <3>1. \A i \in 1..n : st[i] \in T
      BY <1>1, <1>7
    <3> HIDE DEF T, st
    <3> QED BY <1>7, <3>1 DEF T
  <2>2. got = [i \in 1..n |-> got[i]]
    OBVIOUS
  <2> HIDE DEF got, T, n
  <2>3. got \in [1..n -> T]
    BY <2>1, <2>2
  <2> QED BY <1>1, <2>3, SeqDef
<1>9. gaps \in Seq(T) /\ Len(gaps) = Len(got) + 1 /\ Len(gaps) = Len(st) + 1
  BY <1>1, <1>7, <1>8
<1>10. /\ w \in Seq(Content) /\ Len(w) = 2 * n + 1
       /\ \A i \in 1..(n + 1) : w[2 * i - 1] = gaps[i]
       /\ \A i \in 1..n : w[2 * i] = st[i]
       /\ \A k \in 1..(2 * n + 1) :
             \/ \E i \in 1..(n + 1) : k = 2 * i - 1
             \/ \E i \in 1..n : k = 2 * i
  <2> HIDE DEF gaps, st, n
  <2>1. Len(gaps) = Len(st) + 1 /\ gaps \in Seq(Content) /\ st \in Seq(Content)
    BY <1>1, <1>9
  <2>2. /\ w \in Seq(Content) /\ Len(w) = 2 * Len(st) + 1
        /\ \A i \in 1..Len(gaps) : w[2 * i - 1] = gaps[i]
        /\ \A i \in 1..Len(st) : w[2 * i] = st[i]
    BY <2>1, InterleavedIs DEF w
  <2>4. \A k \in 1..(2 * Len(st) + 1) :
              \/ \E i \in 1..Len(gaps) : k = 2 * i - 1
              \/ \E i \in 1..Len(st) : k = 2 * i
    <3> DEFINE C == Content
    <3>1. gaps \in Seq(C) /\ st \in Seq(C)
      BY <2>1
    <3> HIDE DEF C
    <3> QED BY <2>1, <3>1, InterleavedIs
  <2>3. Len(st) = n /\ Len(gaps) = n + 1
    BY <1>1
  <2> QED BY <2>2, <2>3, <2>4
<1>11. /\ s \in Seq(T) /\ Len(s) = 2 * n + 1
       /\ \A i \in 1..(n + 1) : s[2 * i - 1] = gaps[i]
       /\ \A i \in 1..n : s[2 * i] = got[i]
  <2> HIDE DEF gaps, got, n, T
  <2>1. gaps \in Seq(T) /\ got \in Seq(T) /\ Len(gaps) = Len(got) + 1
    BY <1>8, <1>9
  <2>2. /\ Interleaved(gaps, got) \in Seq(T) /\ Len(Interleaved(gaps, got)) = 2 * Len(got) + 1
        /\ \A i \in 1..Len(gaps) : Interleaved(gaps, got)[2 * i - 1] = gaps[i]
        /\ \A i \in 1..Len(got) : Interleaved(gaps, got)[2 * i] = got[i]
    BY <2>1, InterleavedIs
  <2>3. Len(got) = n /\ Len(gaps) = n + 1
    BY <1>1, <1>8
  <2> QED BY <1>6, <2>2, <2>3
<1>12. ASSUME NEW k \in 1..(2 * n + 1) PROVE s[k] = Failure \/ s[k] = w[k]
  <2>1. CASE \E i \in 1..(n + 1) : k = 2 * i - 1
    BY <1>10, <1>11, <2>1
  <2>2. CASE \E i \in 1..n : k = 2 * i
    <3>1. PICK i \in 1..n : k = 2 * i
      BY <2>2
    <3>2. s[k] = got[i] /\ w[k] = st[i]
      BY <1>10, <1>11, <3>1
    <3> QED BY <3>2
  <2> QED BY <1>10, <2>1, <2>2
<1>13. ASSUME NEW k \in 1..(2 * n + 1), s[k] = Failure PROVE RefusedEntry(e)
  <2>1. CASE \E i \in 1..(n + 1) : k = 2 * i - 1
    <3>1. PICK i \in 1..(n + 1) : k = 2 * i - 1
      BY <2>1
    <3>2. s[k] = gaps[i] /\ gaps[i] \in Content
      BY <1>1, <1>11, <3>1
    <3> QED BY <1>7, <1>13, <3>2
  <2>2. CASE \E i \in 1..n : k = 2 * i
    <3>1. PICK i \in 1..n : k = 2 * i
      BY <2>2
    <3>4. st[i] \in Content
      <4> HIDE DEF st, n
      <4> QED BY <1>1
    <3>5. s[k] = got[i]
      <4> HIDE DEF got, n
      <4> QED BY <1>11, <3>1
    <3>2. s[k] = got[i] /\ st[i] \in Content
      BY <3>4, <3>5
    <3>3. RefusedPayload(PayloadOf(ms[i]))
      BY <1>7, <1>13, <3>2
    <3> QED BY <1>1, <3>3 DEF RefusedEntry
  <2> QED BY <1>10, <2>1, <2>2
<1>14. ASSUME RefusedEntry(e) PROVE \E k \in 1..(2 * n + 1) : s[k] = Failure
  <2>1. PICK i \in 1..n : RefusedPayload(PayloadOf(ms[i]))
    BY <1>1, <1>14 DEF RefusedEntry
  <2>2. got[i] = Failure
    BY <2>1
  <2>3. s[2 * i] = Failure
    BY <1>11, <2>2
  <2>4. 2 * i \in 1..(2 * n + 1)
    BY <1>1
  <2> QED BY <2>3, <2>4
<1>15. Len(s) = Len(w) /\ Len(w) = 2 * n + 1 /\ s \in Seq(T) /\ w \in Seq(Content)
           /\ e.bytes = FlattenSeq(w)
  BY <1>1, <1>10, <1>11
<1> QED BY <1>12, <1>13, <1>14, <1>15 DEF s, w, T

\* A finished archive, with all that was shown of it.
Finished == Built /\ RowsInv /\ AllWritten /\ SameAsOneThread

\* The path whose row says how the bytes of a path are stored.
Target(p) == IF rows[p].tag = "link" THEN rows[p].to ELSE p

\* In a finished build each entry has its row, and all it refers to is written.
LEMMA RowIs ==
    ASSUME Finished, NEW p \in DOMAIN tree
    PROVE  /\ p \in DOMAIN rows /\ tree[p] \in Entry /\ Stores(tree[p], rows[p])
           /\ RowRefs(rows[p]) \subseteq DOMAIN codec
<1>1. p \in DOMAIN rows
  BY DEF Finished, Built, RowsInv, AllScanned
<1>2. tree[p] \in Entry /\ Stores(tree[p], rows[p])
  BY <1>1, TreeIs DEF Finished, RowsInv, RowsSound
<1>3. RowRefs(rows[p]) \subseteq Refs
  BY <1>1 DEF Refs
<1> QED BY <1>1, <1>2, <1>3 DEF Finished, AllWritten

\* The row that a read goes to is of an entry with the same bytes, and no link.
LEMMA TargetIs ==
    ASSUME Finished, NEW p \in DOMAIN tree
    PROVE  /\ Target(p) \in DOMAIN tree /\ rows[Target(p)].tag # "link"
           /\ tree[Target(p)].kind # "hardlink" /\ Bytes(p) = tree[Target(p)].bytes
           /\ Bytes(Target(p)) = tree[Target(p)].bytes
<1>1. Stores(tree[p], rows[p])
  BY RowIs
<1>2. CASE rows[p].tag = "link"
  <2>1. tree[p].kind = "hardlink" /\ rows[p].to = tree[p].to
    BY <1>1, <1>2 DEF Stores, SliceIs
  <2>2. tree[p].to \in DOMAIN tree /\ tree[tree[p].to].kind \in {"file", "zip"}
    BY <2>1, TreeIs DEF Finished, RowsInv, Scannable
  <2> DEFINE q == Target(p)
  <2>3. q = tree[p].to
    BY <1>2, <2>1 DEF Target
  <2> HIDE DEF q
  <2>4. Stores(tree[q], rows[q]) /\ tree[q].kind \in {"file", "zip"} /\ q \in DOMAIN tree
    BY <2>2, <2>3, RowIs
  <2>5. rows[q].tag # "link"
    BY <2>4 DEF Stores, SliceIs
  <2>6. Bytes(p) = tree[q].bytes /\ Bytes(q) = tree[q].bytes
    BY <2>1, <2>3, <2>4 DEF Bytes
  <2> QED BY <2>4, <2>5, <2>6 DEF q
<1>3. CASE rows[p].tag # "link"
  <2>1. tree[p].kind # "hardlink"
    BY <1>1, <1>3 DEF Stores, SliceIs
  <2>2. Target(p) = p
    BY <1>3 DEF Target
  <2> QED BY <1>3, <2>1, <2>2 DEF Bytes
<1> QED BY <1>2, <1>3

\* A row that refers to one record gives the entry's bytes.
LEMMA BlobRow ==
    ASSUME Finished, NEW p \in DOMAIN tree, rows[p].tag = "blob"
    PROVE  Blob(rows[p].of) = tree[p].bytes
<1>1. rows[p].of = tree[p].bytes
  <2>1. p \in DOMAIN rows /\ tree[p] \in Entry /\ Stores(tree[p], rows[p])
    BY RowIs
  <2> QED BY <2>1 DEF Stores, SliceIs
<1>2. rows[p].of \in DOMAIN codec
  BY RowIs DEF RowRefs
<1> QED BY <1>1, <1>2, BlobIs DEF Finished

\* A slice's pack is written, and the entry's bytes are where the row says.
LEMMA PackRow ==
    ASSUME Finished, NEW p \in DOMAIN tree, rows[p].tag = "pack"
    PROVE  Blob(rows[p].of) = rows[p].of /\ SliceIs(rows[p], tree[p].bytes)
<1>1. SliceIs(rows[p], tree[p].bytes)
  <2>1. p \in DOMAIN rows /\ tree[p] \in Entry /\ Stores(tree[p], rows[p])
    BY RowIs
  <2> QED BY <2>1 DEF Stores
<1>2. rows[p].of \in DOMAIN codec
  BY RowIs DEF RowRefs
<1> QED BY <1>1, <1>2, BlobIs DEF Finished

\* The chunks of a row are written and make up the entry's bytes.
LEMMA CdcRow ==
    ASSUME Finished, NEW p \in DOMAIN tree, rows[p].tag = "cdc"
    PROVE  /\ [i \in DOMAIN rows[p].parts |-> Blob(rows[p].parts[i])] = rows[p].parts
           /\ ChunksOf(rows[p].parts, tree[p].bytes)
<1> DEFINE parts == rows[p].parts
<1>1. ChunksOf(parts, tree[p].bytes)
  <2>1. p \in DOMAIN rows /\ tree[p] \in Entry /\ Stores(tree[p], rows[p])
    BY RowIs
  <2> QED BY <2>1 DEF Stores, SliceIs
<1>2. ToSet(parts) \subseteq DOMAIN codec
  BY RowIs DEF RowRefs
<1>3. parts \in Seq(Content)
  BY <1>1 DEF ChunksOf
<1> HIDE DEF parts
<1>4. \A i \in DOMAIN parts : Blob(parts[i]) = parts[i]
  <2>1. ASSUME NEW i \in DOMAIN parts PROVE Blob(parts[i]) = parts[i]
    <3>1. parts[i] \in DOMAIN codec
      BY <1>2 DEF ToSet
    <3> QED BY <3>1, BlobIs DEF Finished
  <2> QED BY <2>1
<1>5. parts = [i \in DOMAIN parts |-> parts[i]]
  BY <1>3
<1>6. [i \in DOMAIN parts |-> Blob(parts[i])] = parts
  BY <1>4, <1>5
<1> QED BY <1>1, <1>6 DEF parts

\* The chunks of a sparse row are pieces of the entry's bytes.
LEMMA SparseRow ==
    ASSUME Finished, NEW p \in DOMAIN tree, rows[p].tag = "sparse"
    PROVE  SparseChunks(rows[p]) \in Seq(Piece) /\ Pieces(SparseChunks(rows[p]), tree[p].bytes)
<1> DEFINE e == tree[p]
<1>1. e \in Entry /\ e.extents # << >> /\ rows[p].extents = Extents(e)
  <2>1. p \in DOMAIN rows /\ tree[p] \in Entry /\ Stores(tree[p], rows[p])
    BY RowIs
  <2> QED BY <2>1 DEF Stores, SliceIs
<1>2. SparseEntry(e)
  BY <1>1, TreeIs DEF Finished, RowsInv, Scannable
<1>3. UNION {ToSet(x.parts) : x \in ToSet(Extents(e))} \subseteq DOMAIN codec
  <2>1. RowRefs(rows[p]) = UNION {ToSet(x.parts) : x \in ToSet(rows[p].extents)}
    BY DEF RowRefs
  <2> QED BY <1>1, <2>1, RowIs
<1>4. ASSUME NEW i \in DOMAIN e.extents PROVE ToSet(Extents(e)[i].parts) \subseteq DOMAIN codec
  <2>1. Extents(e)[i] \in ToSet(Extents(e))
    BY DEF ToSet, Extents
  <2> QED BY <1>3, <2>1
<1> HIDE DEF e
<1>5. SparseChunks(rows[p]) \in Seq(Piece) /\ Pieces(SparseChunks(rows[p]), e.bytes)
  BY <1>1, <1>2, <1>4, SparseChunksAre DEF Finished
<1> QED BY <1>5 DEF e

\* A recipe is that of its entry, and what it needs is written.
LEMMA VzipRow ==
    ASSUME Finished, NEW p \in DOMAIN tree, rows[p].tag = "vzip"
    PROVE  recipes[p] = Recipe(tree[p]) /\ ZipEntry(tree[p]) /\ Gettable(tree[p])
<1> DEFINE e == tree[p]
           r == Recipe(e)
<1>1. p \in DOMAIN rows /\ e \in Entry /\ e.gaps # << >>
  <2>1. p \in DOMAIN rows /\ tree[p] \in Entry /\ Stores(tree[p], rows[p])
    BY RowIs
  <2> QED BY <2>1 DEF Stores, SliceIs
<1>2. p \in DOMAIN recipes /\ recipes[p] = r
  BY <1>1 DEF Finished, RowsInv, RecipesSound
<1>3. ZipEntry(e)
  BY <1>1, TreeIs DEF Finished, RowsInv, Scannable, ZipEntry
<1>4. RecipeRefs(r) \subseteq DOMAIN codec
  BY <1>2 DEF Refs, Finished, AllWritten
<1> HIDE DEF e
<1>5. r.skeleton = FlattenSeq(e.gaps)
          /\ r.payloads = [i \in DOMAIN e.members |-> PayloadOf(e.members[i])]
  BY DEF Recipe, PayloadOf
<1> HIDE DEF r
<1>6. FlattenSeq(e.gaps) \in DOMAIN codec
  BY <1>4, <1>5 DEF RecipeRefs
<1>7. ASSUME NEW i \in DOMAIN e.members
      PROVE  /\ e.members[i].raw \in DOMAIN codec
             /\ Mode(PayloadOf(e.members[i])) = "secondary" => Stream(e.members[i]) \in DOMAIN codec
  <2> DEFINE pl == PayloadOf(e.members[i])
  <2>1. pl \in ToSet(r.payloads)
    BY <1>5 DEF ToSet
  <2>2. pl.raw = e.members[i].raw /\ pl.stream = Stream(e.members[i])
    BY DEF PayloadOf
  <2> HIDE DEF pl
  <2>3. pl.raw \in RecipeRefs(r) /\ (Mode(pl) = "secondary" => pl.stream \in RecipeRefs(r))
    BY <2>1 DEF RecipeRefs
  <2> QED BY <1>4, <2>2, <2>3 DEF pl
<1> QED BY <1>2, <1>3, <1>6, <1>7 DEF Gettable, e, r

\* Refused, told from the entry instead of the recipe.
LEMMA RefusedIs ==
    ASSUME Finished, NEW p \in DOMAIN tree
    PROVE  Refused(p) <=> rows[Target(p)].tag = "vzip" /\ RefusedEntry(tree[Target(p)])
<1> DEFINE q == Target(p)
<1>1. q \in DOMAIN tree
  BY TargetIs
<1>2. Refused(p) <=> rows[q].tag = "vzip" /\ \E pl \in ToSet(recipes[q].payloads) :
          RefusedPayload(pl)
  BY DEF Refused, RefusedPayload, Target
<1> HIDE DEF q
<1>3. ASSUME rows[q].tag = "vzip"
      PROVE  (\E pl \in ToSet(recipes[q].payloads) : RefusedPayload(pl)) <=> RefusedEntry(tree[q])
  <2>1. recipes[q] = Recipe(tree[q])
    BY <1>1, <1>3, VzipRow
  <2>2. recipes[q].payloads = [i \in DOMAIN tree[q].members |-> PayloadOf(tree[q].members[i])]
    BY <2>1 DEF Recipe, PayloadOf
  <2>3. ToSet(recipes[q].payloads) = {PayloadOf(tree[q].members[i]) : i \in DOMAIN tree[q].members}
    BY <2>2 DEF ToSet
  <2> QED BY <2>3 DEF RefusedEntry
<1> QED BY <1>2, <1>3 DEF q

\* Reading the whole of a ZIP file.
LEMMA ZipRead ==
    ASSUME Finished, NEW q \in DOMAIN tree, rows[q].tag = "vzip"
    PROVE  (IF Failure \in ToSet(Segments(recipes[q])) THEN Failure
            ELSE FlattenSeq(Segments(recipes[q])))
           = IF RefusedEntry(tree[q]) THEN Failure ELSE tree[q].bytes
<1> DEFINE e == tree[q]
           w == Interleaved(e.gaps, Streams(e.members))
           s == Segments(Recipe(e))
<1>1. recipes[q] = Recipe(e) /\ ZipEntry(e) /\ Gettable(e)
  BY VzipRow
<1>2. /\ w \in Seq(Content) /\ FlattenSeq(w) = e.bytes
      /\ s \in Seq(Seq(Int)) /\ Len(s) = Len(w)
      /\ \A k \in 1..Len(w) : s[k] = Failure \/ s[k] = w[k]
      /\ (\E k \in 1..Len(w) : s[k] = Failure) <=> RefusedEntry(e)
  <2> HIDE DEF e
  <2> QED BY <1>1, SegmentsAre DEF Finished
<1> HIDE DEF w, s, e
<1> DEFINE T == Seq(Int)
<1>3. s \in Seq(T)
  BY <1>2
<1> HIDE DEF T
<1>4. Failure \in ToSet(s) <=> RefusedEntry(e)
  <2>1. DOMAIN s = 1..Len(w)
    BY <1>2, <1>3
  <2> QED BY <1>2, <2>1 DEF ToSet
<1>5. CASE ~RefusedEntry(e)
  <2>1. \A k \in 1..Len(w) : s[k] = w[k]
    BY <1>2, <1>5
  <2>2. s = [k \in 1..Len(w) |-> s[k]] /\ w = [k \in 1..Len(w) |-> w[k]]
    BY <1>2, <1>3
  <2>3. s = w
    BY <2>1, <2>2
  <2>4. FlattenSeq(s) = e.bytes
    BY <1>2, <2>3
  <2> QED BY <1>1, <1>4, <1>5, <2>4 DEF s, e
<1> QED BY <1>1, <1>4, <1>5 DEF s, e

\* Reading a member of a finished build.
LEMMA ReadIs ==
    ASSUME Finished, NEW p \in DOMAIN tree
    PROVE  Read(p) = IF Refused(p) THEN Failure ELSE Bytes(p)
<1> DEFINE q == Target(p)
           r == rows[q]
           c == tree[q].bytes
<1>1. /\ q \in DOMAIN tree /\ r.tag # "link" /\ tree[q].kind # "hardlink"
      /\ Bytes(p) = c /\ Bytes(q) = c
  BY TargetIs
<1>2. Refused(p) <=> r.tag = "vzip" /\ RefusedEntry(tree[q])
  BY RefusedIs
<1>3. Read(p) = CASE r.tag = "blob" -> Blob(r.of)
          [] r.tag = "pack" -> Slice(r)
          [] r.tag = "cdc" -> FlattenSeq([i \in DOMAIN r.parts |-> Blob(r.parts[i])])
          [] r.tag = "sparse" -> Written(Len(Bytes(q)), SparseChunks(r))
          [] OTHER -> IF Failure \in ToSet(Segments(recipes[q])) THEN Failure
                      ELSE FlattenSeq(Segments(recipes[q]))
  BY DEF Read, Target
<1>4. r.tag \in {"blob", "pack", "cdc", "sparse", "vzip"} /\ tree[q] \in Entry
  <2>1. q \in DOMAIN rows /\ tree[q] \in Entry /\ Stores(tree[q], rows[q])
    BY <1>1, RowIs
  <2> QED BY <1>1, <2>1 DEF Stores, SliceIs
<1> HIDE DEF q
<1>5. CASE r.tag = "blob"
  BY <1>1, <1>2, <1>3, <1>5, BlobRow
<1>6. CASE r.tag = "pack"
  <2>1. Blob(r.of) = r.of /\ SliceIs(r, c)
    BY <1>1, <1>6, PackRow
  <2>2. Slice(r) = c
    BY <2>1 DEF Slice, SliceIs
  <2> QED BY <1>1, <1>2, <1>3, <1>6, <2>2
<1>7. CASE r.tag = "cdc"
  <2>1. [i \in DOMAIN r.parts |-> Blob(r.parts[i])] = r.parts /\ FlattenSeq(r.parts) = c
    BY <1>1, <1>7, CdcRow DEF ChunksOf
  <2>2. Read(p) = FlattenSeq([i \in DOMAIN r.parts |-> Blob(r.parts[i])])
    BY <1>3, <1>7
  <2> QED BY <1>1, <1>2, <1>7, <2>1, <2>2
<1>8. CASE r.tag = "sparse"
  <2> DEFINE s == SparseChunks(r)
             n == Len(s)
  <2>1. s \in Seq(Piece) /\ Pieces(s, c)
    BY <1>1, <1>8, SparseRow
  <2>2. c \in Content
    BY <1>4, EntryIs
  <2>3. Read(p) = Written(Len(c), s)
    BY <1>1, <1>3, <1>8
  <2> HIDE DEF s, c, r
  <2>4. DOMAIN s = 1..n /\ n \in Nat
    BY <2>1
  <2>5. Written(Len(c), s) = c
    BY <2>1, <2>2, <2>4, WrittenIs
  <2>6. ~Refused(p)
    BY <1>2, <1>8
  <2> QED BY <1>1, <2>3, <2>5, <2>6
<1>9. CASE r.tag = "vzip"
  <2>1. Read(p) = IF Failure \in ToSet(Segments(recipes[q])) THEN Failure
                  ELSE FlattenSeq(Segments(recipes[q]))
    BY <1>3, <1>9
  <2>2. (IF Failure \in ToSet(Segments(recipes[q])) THEN Failure
            ELSE FlattenSeq(Segments(recipes[q])))
           = IF RefusedEntry(tree[q]) THEN Failure ELSE tree[q].bytes
    BY <1>1, <1>9, ZipRead
  <2> QED BY <1>1, <1>2, <1>9, <2>1, <2>2
<1> QED BY <1>4, <1>5, <1>6, <1>7, <1>8, <1>9

-----------------------------------------------------------------------------
(* Reading ranges.                                                         *)

\* What one piece holds of a range.
LEMMA ClipIs ==
    ASSUME NEW b \in Content, NEW o \in Nat, NEW start \in Nat, NEW end \in Nat, start <= end
    PROVE  /\ Clip(b, o, start, end) \in Content
           /\ \A i \in 1..(end - start) :
                 LET y == i - (Larger(o, start) - start)
                 IN  /\ y \in DOMAIN Clip(b, o, start, end) =>
                           /\ (start + i) - o \in DOMAIN b
                           /\ Clip(b, o, start, end)[y] = b[(start + i) - o]
                     /\ (start + i) - o \in DOMAIN b => y \in DOMAIN Clip(b, o, start, end)
<1> DEFINE l == Len(b)
           L == Larger(start, o)
           E == Smaller(end, o + l)
           clip == Clip(b, o, start, end)
<1>1. b \in Seq(Nat) /\ l \in Nat /\ DOMAIN b = 1..l
  BY DEF Content
<1>2. Larger(o, start) = L /\ L \in Nat /\ L >= start /\ L >= o /\ (L = start \/ L = o)
  BY DEF Larger
<1>3. E \in Nat /\ E <= end /\ E <= o + l /\ (E = end \/ E = o + l)
  BY <1>1 DEF Smaller
<1>4. CASE o + l > start /\ o < end
  <2>1. clip = Cut(b, L - o, E - o)
    BY <1>4 DEF Clip
  <2> HIDE DEF clip, L, E, l
  <2>2. L - o \in Nat /\ E - o \in Nat /\ L - o <= E - o /\ E - o <= l
        /\ (E - o) - (L - o) = E - L
    BY <1>1, <1>2, <1>3, <1>4
  <2> DEFINE u == L - o
             v == E - o
  <2>3. u \in Nat /\ v \in Nat /\ u <= v /\ v <= Len(b) /\ clip = Cut(b, u, v)
    BY <2>1, <2>2 DEF l
  <2> HIDE DEF u, v
  <2>4. clip \in Seq(Nat) /\ Len(clip) = v - u /\ \A k \in 1..(v - u) : clip[k] = b[u + k]
    <3>1. b \in Seq(Nat)
      BY <1>1
    <3>2. u \in Nat
      BY <2>3
    <3>3. v \in Nat
      BY <2>3
    <3>4. u <= v /\ v <= Len(b)
      BY <2>3
    <3>5. Cut(b, u, v) \in Seq(Nat) /\ Len(Cut(b, u, v)) = v - u
      BY <3>1, <3>2, <3>3, <3>4, CutSize
    <3>6. ASSUME NEW k \in 1..(v - u) PROVE clip[k] = b[u + k]
      BY <2>3, <3>1, <3>2, <3>3, <3>4, CutAt
    <3> QED BY <2>3, <3>5, <3>6
  <2>5. DOMAIN clip = 1..(v - u) /\ v - u = E - L
    BY <2>2, <2>4 DEF u, v
  <2>6. ASSUME NEW i \in 1..(end - start)
        PROVE  LET y == i - (Larger(o, start) - start)
               IN  /\ y \in DOMAIN clip =>
                         (start + i) - o \in DOMAIN b /\ clip[y] = b[(start + i) - o]
                   /\ (start + i) - o \in DOMAIN b => y \in DOMAIN clip
    <3> DEFINE y == i - (L - start)
               x == (start + i) - o
    <3>1. u + y = x /\ y \in Int /\ x \in Int
      BY <1>2 DEF u
    <3>2. y \in 1..(v - u) => x \in 1..l
      BY <1>1, <1>2, <1>3, <2>5
    <3>3. x \in 1..l => y \in 1..(v - u)
      BY <1>1, <1>2, <1>3, <2>5
    <3> HIDE DEF x, y
    <3>4. y \in 1..(v - u) => clip[y] = b[x]
      BY <2>4, <3>1
    <3>5. /\ y \in DOMAIN clip => x \in DOMAIN b /\ clip[y] = b[x]
          /\ x \in DOMAIN b => y \in DOMAIN clip
      BY <1>1, <2>5, <3>2, <3>3, <3>4
    <3> QED BY <1>2, <3>5 DEF x, y
  <2> QED BY <2>4, <2>6 DEF clip, Content
<1>5. CASE ~(o + l > start /\ o < end)
  <2>1. clip = << >>
    BY <1>5 DEF Clip
  <2>2. clip \in Seq(Nat) /\ DOMAIN clip = {}
    BY <2>1
  <2>3. ASSUME NEW i \in 1..(end - start) PROVE (start + i) - o \notin 1..l
    BY <1>1, <1>5
  <2> HIDE DEF clip
  <2> QED BY <1>1, <2>2, <2>3 DEF clip, Content
<1> QED BY <1>4, <1>5

\* Pieces of c clipped to a range are pieces of that slice of c.
LEMMA PiecesInAre ==
    ASSUME NEW c \in Content, NEW pieces, Pieces(pieces, c), NEW start \in Nat, NEW end \in Nat,
           start <= end, end <= Len(c)
    PROVE  /\ DOMAIN PiecesIn(pieces, start, end) = DOMAIN pieces
           /\ Pieces(PiecesIn(pieces, start, end), Cut(c, start, end))
           /\ Len(Cut(c, start, end)) = end - start /\ Cut(c, start, end) \in Content
<1> DEFINE r == PiecesIn(pieces, start, end)
           d == Cut(c, start, end)
           new(k) == [off |-> Larger(pieces[k].off, start) - start,
                      bytes |-> Clip(pieces[k].bytes, pieces[k].off, start, end)]
<1>1. c \in Seq(Nat)
  BY DEF Content
<1>2. d \in Seq(Nat) /\ Len(d) = end - start /\ \A i \in 1..(end - start) : d[i] = c[start + i]
  BY <1>1, CutIs
<1>3. r = [k \in DOMAIN pieces |-> new(k)]
  BY DEF PiecesIn
<1> HIDE DEF r, d
<1>4. DOMAIN r = DOMAIN pieces /\ \A k \in DOMAIN pieces :
         /\ r[k].off = Larger(pieces[k].off, start) - start
         /\ r[k].bytes = Clip(pieces[k].bytes, pieces[k].off, start, end)
  BY <1>3
<1>5. ASSUME NEW k \in DOMAIN pieces
      PROVE  /\ r[k].off \in Nat /\ r[k].bytes \in Content
             /\ \A i \in 1..(end - start) :
                   /\ i - r[k].off \in DOMAIN r[k].bytes =>
                         r[k].bytes[i - r[k].off] = d[i]
                   /\ (start + i) - pieces[k].off \in DOMAIN pieces[k].bytes =>
                         i - r[k].off \in DOMAIN r[k].bytes
  <2> DEFINE o == pieces[k].off
             b == pieces[k].bytes
             clip == Clip(b, o, start, end)
  <2>1. o \in Nat /\ b \in Content
    BY DEF Pieces
  <2>2. \A x \in 1..Len(c) : x - o \in DOMAIN b => b[x - o] = c[x]
    BY DEF Pieces
  <2>3. r[k].off = Larger(o, start) - start /\ r[k].bytes = clip
    BY <1>4
  <2> HIDE DEF o, b
  <2>4. clip \in Content
    BY <2>1, ClipIs
  <2>5. \A i \in 1..(end - start) :
                 LET y == i - (Larger(o, start) - start)
                 IN  /\ y \in DOMAIN clip =>
                           (start + i) - o \in DOMAIN b /\ clip[y] = b[(start + i) - o]
                     /\ (start + i) - o \in DOMAIN b => y \in DOMAIN clip
    BY <2>1, ClipIs
  <2> HIDE DEF clip
  <2>6. Larger(o, start) - start \in Nat
    BY <2>1 DEF Larger
  <2>7. ASSUME NEW i \in 1..(end - start)
        PROVE  /\ i - r[k].off \in DOMAIN r[k].bytes => r[k].bytes[i - r[k].off] = d[i]
               /\ (start + i) - o \in DOMAIN b => i - r[k].off \in DOMAIN r[k].bytes
    <3>1. start + i \in 1..Len(c)
      BY <1>1
    <3>2. d[i] = c[start + i]
      BY <1>2
    <3> QED BY <2>2, <2>3, <2>5, <3>1, <3>2
  <2> QED BY <2>3, <2>4, <2>6, <2>7 DEF o, b
<1>6. ASSUME NEW i \in 1..Len(d)
      PROVE  d[i] = 0 \/ \E k \in DOMAIN r : i - r[k].off \in DOMAIN r[k].bytes
  <2>1. i \in 1..(end - start) /\ start + i \in 1..Len(c) /\ d[i] = c[start + i]
    BY <1>1, <1>2
  <2>2. c[start + i] = 0 \/ \E k \in DOMAIN pieces :
            (start + i) - pieces[k].off \in DOMAIN pieces[k].bytes
    BY <2>1 DEF Pieces
  <2> QED BY <1>4, <1>5, <2>1, <2>2
<1>7. Pieces(r, d)
  BY <1>2, <1>4, <1>5, <1>6 DEF Pieces
<1> QED BY <1>2, <1>4, <1>7 DEF r, d, Content

\* Places in a sequence of n + 1 literals and n streams.
LEMMA OddOrEven ==
    ASSUME NEW n \in Nat, NEW k \in 1..(2 * n + 1)
    PROVE  (\E i \in 1..(n + 1) : k = 2 * i - 1) \/ (\E i \in 1..n : k = 2 * i)
<1>1. CASE k % 2 = 1
  <2>1. (k + 1) \div 2 \in 1..(n + 1) /\ k = 2 * ((k + 1) \div 2) - 1
    BY <1>1
  <2> QED BY <2>1
<1>2. CASE k % 2 # 1
  <2>1. k \div 2 \in 1..n /\ k = 2 * (k \div 2)
    BY <1>2
  <2> QED BY <2>1
<1> QED BY <1>1, <1>2

\* The index gives the sizes of the segments, asked for or not.
LEMMA SizesAre ==
    ASSUME NEW e, ZipEntry(e)
    PROVE  LET w == Interleaved(e.gaps, Streams(e.members))
               sizes == SegmentSizes(Recipe(e))
           IN  /\ sizes \in Seq(Nat) /\ Len(sizes) = Len(w)
               /\ \A k \in 1..Len(w) : sizes[k] = Len(w[k])
<1> DEFINE ms == e.members
           n == Len(ms)
           gaps == e.gaps
           st == Streams(ms)
           w == Interleaved(gaps, st)
           lens == [i \in 1..(n + 1) |-> Len(gaps[i])]
           slens == [i \in 1..n |-> Len(st[i])]
           sizes == SegmentSizes(Recipe(e))
<1>1. /\ gaps \in Seq(Content) /\ st \in Seq(Content) /\ Len(st) = n /\ n \in Nat
      /\ DOMAIN gaps = 1..(n + 1) /\ DOMAIN ms = 1..n
      /\ \A i \in 1..n : st[i] = Stream(ms[i])
  <2> HIDE DEF st
  <2>1. e \in Entry /\ e.gaps # << >> /\ Len(e.gaps) = Len(e.members) + 1
        /\ e.bytes = ZipBytes(e.gaps, e.members)
    BY DEF ZipEntry
  <2> QED BY <2>1, ZipIs DEF st
<1>2. Recipe(e).lens = lens
          /\ [i \in DOMAIN Recipe(e).payloads |-> Len(Recipe(e).payloads[i].stream)] = slens
  <2>1. Recipe(e).lens = [i \in DOMAIN gaps |-> Len(gaps[i])]
        /\ Recipe(e).payloads = [i \in DOMAIN ms |-> PayloadOf(ms[i])]
    BY DEF Recipe, PayloadOf
  <2>2. \A i \in 1..n : PayloadOf(ms[i]).stream = st[i]
    BY <1>1 DEF PayloadOf
  <2> HIDE DEF st, ms, gaps
  <2> QED BY <1>1, <2>1, <2>2
<1>3. sizes = Interleaved(lens, slens)
  BY <1>2 DEF SegmentSizes
<1>4. \A i \in 1..(n + 1) : gaps[i] \in Seq(Nat)
  BY <1>1 DEF Content
<1>5. \A i \in 1..n : st[i] \in Seq(Nat)
  BY <1>1 DEF Content
<1>6. Len(gaps) = n + 1
  BY <1>1
<1> HIDE DEF st, gaps, ms, n
<1>7. lens \in Seq(Nat) /\ Len(lens) = n + 1
  <2> DEFINE l == lens
             k == n + 1
  <2>1. l \in [1..k -> Nat] /\ k \in Nat
    BY <1>1, <1>4
  <2> HIDE DEF l, k
  <2>2. l \in Seq(Nat) /\ Len(l) = k
    BY <2>1, SeqDef
  <2> QED BY <2>2 DEF l, k
<1>8. slens \in Seq(Nat) /\ Len(slens) = n
  <2> DEFINE l == slens
  <2>1. l \in [1..n -> Nat]
    BY <1>1, <1>5
  <2> HIDE DEF l
  <2>2. l \in Seq(Nat) /\ Len(l) = n
    BY <1>1, <2>1, SeqDef
  <2> QED BY <2>2 DEF l
<1>9. /\ w \in Seq(Content) /\ Len(w) = 2 * n + 1
      /\ \A i \in 1..(n + 1) : w[2 * i - 1] = gaps[i]
      /\ \A i \in 1..n : w[2 * i] = st[i]
      /\ \A k \in 1..(2 * n + 1) :
             \/ \E i \in 1..(n + 1) : k = 2 * i - 1
             \/ \E i \in 1..n : k = 2 * i
  <2>6. \A k \in 1..(2 * n + 1) :
             \/ \E i \in 1..(n + 1) : k = 2 * i - 1
             \/ \E i \in 1..n : k = 2 * i
    BY <1>1, OddOrEven
  <2>0. gaps \in Seq(Content)
    BY <1>1
  <2>1. st \in Seq(Content) /\ Len(gaps) = Len(st) + 1 /\ Len(st) = n
    BY <1>1, <1>6
  <2> DEFINE T == Content
  <2> HIDE DEF T
  <2>2. gaps \in Seq(T)
    BY <2>0 DEF T
  <2>4. st \in Seq(T)
    BY <2>1 DEF T
  <2>5. Len(gaps) = Len(st) + 1
    BY <2>1
  <2> HIDE DEF st, n, w
  <2>3. /\ w \in Seq(T) /\ Len(w) = 2 * Len(st) + 1
        /\ \A i \in 1..Len(gaps) : w[2 * i - 1] = gaps[i]
        /\ \A i \in 1..Len(st) : w[2 * i] = st[i]
    BY <2>2, <2>4, <2>5, InterleavedIs DEF w
  <2> QED BY <1>6, <2>1, <2>3, <2>6 DEF T
<1> HIDE DEF w, lens, slens
<1>10. /\ Interleaved(lens, slens) \in Seq(Nat) /\ Len(sizes) = 2 * n + 1
       /\ \A i \in 1..(n + 1) : sizes[2 * i - 1] = lens[i]
       /\ \A i \in 1..n : sizes[2 * i] = slens[i]
  <2>0. lens \in Seq(Nat)
    BY <1>7
  <2>1. slens \in Seq(Nat)
    BY <1>8
  <2>2. Len(lens) = Len(slens) + 1
    BY <1>7, <1>8
  <2>3. /\ Interleaved(lens, slens) \in Seq(Nat)
        /\ Len(Interleaved(lens, slens)) = 2 * Len(slens) + 1
        /\ \A i \in 1..Len(lens) : Interleaved(lens, slens)[2 * i - 1] = lens[i]
        /\ \A i \in 1..Len(slens) : Interleaved(lens, slens)[2 * i] = slens[i]
    BY <2>0, <2>1, <2>2, InterleavedIs
  <2> HIDE DEF sizes
  <2> QED BY <1>3, <1>7, <1>8, <2>3
<1>11. ASSUME NEW k \in 1..Len(w) PROVE sizes[k] = Len(w[k])
  <2> HIDE DEF sizes
  <2>1. CASE \E i \in 1..(n + 1) : k = 2 * i - 1
    <3>1. PICK i \in 1..(n + 1) : k = 2 * i - 1
      BY <2>1
    <3>2. lens[i] = Len(gaps[i])
      BY DEF lens
    <3> QED BY <1>9, <1>10, <3>1, <3>2
  <2>2. CASE \E i \in 1..n : k = 2 * i
    <3>1. PICK i \in 1..n : k = 2 * i
      BY <2>2
    <3>2. slens[i] = Len(st[i])
      BY DEF slens
    <3> QED BY <1>9, <1>10, <3>1, <3>2
  <2>3. k \in 1..(2 * n + 1)
    BY <1>9
  <2> QED BY <1>9, <2>1, <2>2, <2>3
<1>12. sizes \in Seq(Nat) /\ Len(sizes) = Len(w)
  BY <1>3, <1>9, <1>10
<1> QED BY <1>11, <1>12 DEF w, st, ms, gaps

\* Reading a range of a ZIP file.
LEMMA ZipRangeIs ==
    ASSUME SameAsOneThread, NEW e, ZipEntry(e), Gettable(e),
           NEW start \in Nat, NEW end \in Nat, start <= end, end <= Len(e.bytes)
    PROVE  \/ RangeVzip(Recipe(e), start, end) = Cut(e.bytes, start, end)
           \/ RefusedEntry(e) /\ RangeVzip(Recipe(e), start, end) = Failure
<1> DEFINE w == Interleaved(e.gaps, Streams(e.members))
           n == Len(w)
           s == Segments(Recipe(e))
           sizes == SegmentSizes(Recipe(e))
           ends == Ends(sizes)
           wanted == {i \in DOMAIN s : ends[i] > start /\ ends[i - 1] < end}
           clips == [i \in DOMAIN s |->
                        IF i \in wanted THEN Clip(s[i], ends[i - 1], start, end) ELSE << >>]
<1>1. RangeVzip(Recipe(e), start, end) =
          IF \E i \in wanted : s[i] = Failure THEN Failure ELSE FlattenSeq(clips)
  BY DEF RangeVzip
<1>2. /\ w \in Seq(Content) /\ FlattenSeq(w) = e.bytes
      /\ s \in Seq(Seq(Int)) /\ Len(s) = n
      /\ \A k \in 1..n : s[k] = Failure \/ s[k] = w[k]
      /\ (\E k \in 1..n : s[k] = Failure) <=> RefusedEntry(e)
  BY SegmentsAre
<1>3. /\ sizes \in Seq(Nat) /\ Len(sizes) = n
      /\ \A k \in 1..n : sizes[k] = Len(w[k])
  BY SizesAre
<1> HIDE DEF w, s, sizes
<1>4. DOMAIN s = 1..n /\ n \in Nat
  <2> DEFINE T == Seq(Int)
  <2>1. s \in Seq(T)
    BY <1>2
  <2> HIDE DEF T
  <2>2. DOMAIN s = 1..Len(s) /\ Len(s) \in Nat
    BY <2>1
  <2> QED BY <1>2, <2>2
<1>5. w \in Seq(Seq(Nat))
  BY <1>2 DEF Content
<1>6. \A i \in 0..n : ends[i] = Offset(w, i + 1)
  <2>1. sizes \in Seq(Nat)
    BY <1>3
  <2>2. Len(sizes) = Len(w)
    BY <1>3
  <2>3. \A i \in 1..Len(w) : sizes[i] = Len(w[i])
    BY <1>3
  <2> QED BY <1>5, <2>1, <2>2, <2>3, EndsOfParts
<1>7. \A i \in 1..n : Offset(w, i + 1) = Offset(w, i) + Len(w[i])
  BY <1>5, Offsets
<1>8. \A i \in 1..n : ends[i - 1] = Offset(w, i) /\ ends[i] = Offset(w, i) + Len(w[i])
  <2>1. ASSUME NEW i \in 1..n
        PROVE  ends[i - 1] = Offset(w, i) /\ ends[i] = Offset(w, i) + Len(w[i])
    <3>1. i - 1 \in 0..n /\ i \in 0..n /\ (i - 1) + 1 = i
      BY <1>4
    <3>2. ends[i - 1] = Offset(w, (i - 1) + 1)
      BY <1>6, <3>1
    <3>3. ends[i] = Offset(w, i + 1)
      BY <1>6, <3>1
    <3> HIDE DEF ends
    <3> QED BY <1>7, <3>1, <3>2, <3>3
  <2> QED BY <2>1
<1> HIDE DEF ends
<1>9. CASE \E i \in wanted : s[i] = Failure
  <2>1. \E k \in 1..n : s[k] = Failure
    BY <1>4, <1>9
  <2> QED BY <1>1, <1>2, <1>9, <2>1
<1>10. CASE ~\E i \in wanted : s[i] = Failure
  <2> DEFINE good == [i \in 1..n |-> Clip(w[i], Offset(w, i), start, end)]
  <2>1. ASSUME NEW i \in 1..n PROVE clips[i] = good[i]
    <3>1. i \in wanted <=> Offset(w, i) + Len(w[i]) > start /\ Offset(w, i) < end
      BY <1>4, <1>8
    <3>2. CASE i \in wanted
      <4>1. s[i] = w[i]
        BY <1>2, <1>10, <3>2
      <4>2. clips[i] = Clip(s[i], ends[i - 1], start, end)
        BY <3>2
      <4> QED BY <1>8, <4>1, <4>2
    <3>3. CASE i \notin wanted
      <4>1. clips[i] = << >>
        BY <1>4, <3>3
      <4>2. Clip(w[i], Offset(w, i), start, end) = << >>
        BY <3>1, <3>3 DEF Clip
      <4> QED BY <4>1, <4>2
    <3> QED BY <3>2, <3>3
  <2>2. clips = good
    <3>1. clips = [i \in 1..n |-> clips[i]] /\ good = [i \in 1..n |-> good[i]]
      BY <1>4
    <3> HIDE DEF clips, good
    <3> QED BY <2>1, <3>1
  <2>3. FlattenSeq(good) = Cut(FlattenSeq(w), start, end)
    <3>1. end <= Len(FlattenSeq(w))
      BY <1>2
    <3> QED BY <1>5, <3>1, ClipsMakeUp
  <2> QED BY <1>1, <1>2, <1>10, <2>2, <2>3
<1> QED BY <1>9, <1>10

\* Reading a range of a member of a finished build.
LEMMA RangeIs ==
    ASSUME Finished, NEW p \in DOMAIN tree, NEW start \in Nat, NEW length \in Nat,
           start + length <= Len(Bytes(p))
    PROVE  \/ ReadRange(p, start, length) = Cut(Bytes(p), start, start + length)
           \/ Refused(p) /\ ReadRange(p, start, length) = Failure
<1> DEFINE q == Target(p)
           r == rows[q]
           c == tree[q].bytes
           end == start + length
<1>1. /\ q \in DOMAIN tree /\ r.tag # "link" /\ tree[q].kind # "hardlink"
      /\ Bytes(p) = c /\ Bytes(q) = c
  BY TargetIs
<1>2. Refused(p) <=> r.tag = "vzip" /\ RefusedEntry(tree[q])
  BY RefusedIs
<1>3. ReadRange(p, start, length) =
          CASE r.tag = "pack" -> Cut(Blob(r.of), r.off + start, r.off + end)
          [] r.tag = "blob" -> Cut(Blob(r.of), start, end)
          [] r.tag = "cdc" ->
                FlattenSeq(Clipped([i \in DOMAIN r.parts |-> Blob(r.parts[i])], start, end))
          [] r.tag = "sparse" -> Written(length, PiecesIn(SparseChunks(r), start, end))
          [] OTHER -> RangeVzip(recipes[q], start, end)
  BY DEF ReadRange, Target
<1>4. r.tag \in {"blob", "pack", "cdc", "sparse", "vzip"} /\ tree[q] \in Entry
  <2>1. q \in DOMAIN rows /\ tree[q] \in Entry /\ Stores(tree[q], rows[q])
    BY <1>1, RowIs
  <2> QED BY <1>1, <2>1 DEF Stores, SliceIs
<1>5. c \in Content /\ c \in Seq(Nat)
  <2>1. c \in Content
    BY <1>4, EntryIs
  <2> QED BY <2>1 DEF Content
<1>6. end \in Nat /\ start <= end /\ end <= Len(c) /\ end - start = length
  BY <1>1
<1> HIDE DEF q
<1>7. CASE r.tag = "blob"
  <2>1. Blob(r.of) = c
    BY <1>1, <1>7, BlobRow
  <2> QED BY <1>1, <1>3, <1>7, <2>1
<1>8. CASE r.tag = "pack"
  <2>1. Blob(r.of) = r.of /\ SliceIs(r, c)
    BY <1>1, <1>8, PackRow
  <2>2. ReadRange(p, start, length) = Cut(r.of, r.off + start, r.off + end)
    BY <1>3, <1>8, <2>1
  <2>3. /\ r.of \in Content /\ r.off \in Nat /\ r.len \in Nat
        /\ r.off + r.len <= Len(r.of) /\ r.len = Len(c)
        /\ Cut(r.of, r.off, r.off + r.len) = c
    BY <2>1, <1>5 DEF SliceIs
  <2> HIDE DEF r, c, end
  <2> DEFINE w == r.of
             a == r.off
             b == r.off + r.len
  <2>4. w \in Seq(Nat)
    BY <2>3 DEF Content
  <2>5. a \in Nat /\ b \in Nat /\ a <= b /\ b <= Len(w) /\ b - a = Len(c) /\ Cut(w, a, b) = c
    BY <2>3
  <2> HIDE DEF w, a, b
  <2>6. Cut(Cut(w, a, b), start, end) = Cut(w, a + start, a + end)
    <3>1. end <= b - a /\ start <= end /\ end \in Nat /\ a <= b /\ b <= Len(w)
      BY <1>6, <2>5
    <3>2. a \in Nat /\ b \in Nat
      BY <2>5
    <3> QED BY <2>4, <3>1, <3>2, CutOfCut
  <2>7. ReadRange(p, start, length) = Cut(c, start, end)
    BY <2>2, <2>5, <2>6 DEF w, a
  <2> QED BY <1>1, <2>7 DEF end, c
<1>9. CASE r.tag = "cdc"
  <2> DEFINE parts == r.parts
  <2>1. [i \in DOMAIN parts |-> Blob(parts[i])] = parts /\ ChunksOf(parts, c)
    BY <1>1, <1>9, CdcRow
  <2>2. ReadRange(p, start, length) = FlattenSeq(Clipped(parts, start, end))
    BY <1>3, <1>9, <2>1
  <2> HIDE DEF parts, c, end
  <2>3. parts \in Seq(Content) /\ FlattenSeq(parts) = c
    BY <2>1 DEF ChunksOf
  <2>4. parts \in Seq(Seq(Nat)) /\ DOMAIN parts = 1..Len(parts)
    BY <2>3 DEF Content
  <2>5. Clipped(parts, start, end) =
            [i \in 1..Len(parts) |-> Clip(parts[i], Offset(parts, i), start, end)]
    BY <2>4 DEF Clipped
  <2>6. FlattenSeq([i \in 1..Len(parts) |-> Clip(parts[i], Offset(parts, i), start, end)])
           = Cut(FlattenSeq(parts), start, end)
    <3>1. end \in Nat /\ start <= end /\ end <= Len(FlattenSeq(parts))
      BY <1>6, <2>3
    <3> QED BY <2>4, <3>1, ClipsMakeUp
  <2>7. ReadRange(p, start, length) = Cut(c, start, end)
    BY <2>2, <2>3, <2>5, <2>6
  <2> QED BY <1>1, <2>7 DEF end, c
<1>10. CASE r.tag = "sparse"
  <2> DEFINE s == SparseChunks(r)
             n == Len(s)
             t == PiecesIn(s, start, end)
  <2>1. s \in Seq(Piece) /\ Pieces(s, c)
    BY <1>1, <1>10, SparseRow
  <2>2. ReadRange(p, start, length) = Written(length, t)
    BY <1>3, <1>10
  <2> HIDE DEF s, c, r, end
  <2>3. DOMAIN s = 1..n /\ n \in Nat
    BY <2>1
  <2>4. /\ DOMAIN t = DOMAIN s /\ Pieces(t, Cut(c, start, end))
        /\ Len(Cut(c, start, end)) = end - start /\ Cut(c, start, end) \in Content
    <3>1. c \in Content /\ end \in Nat
      BY <1>5, <1>6
    <3>2. start <= end
      BY <1>6
    <3>5. end <= Len(c)
      BY <1>6
    <3>3. Pieces(s, c)
      BY <2>1
    <3> HIDE DEF t
    <3>6. c \in Content
      BY <3>1
    <3>7. end \in Nat
      BY <3>1
    <3>11. DOMAIN PiecesIn(s, start, end) = DOMAIN s
      BY DEF PiecesIn
    <3>12. Pieces(PiecesIn(s, start, end), Cut(c, start, end))
      BY <3>6, <3>7, <3>2, <3>3, <3>5, PiecesInAre
    <3>4. /\ DOMAIN PiecesIn(s, start, end) = DOMAIN s
          /\ Pieces(PiecesIn(s, start, end), Cut(c, start, end))
      BY <3>11, <3>12
    <3>9. c \in Seq(Nat)
      BY <1>5
    <3>10. Len(Cut(c, start, end)) = end - start /\ Cut(c, start, end) \in Seq(Nat)
      BY <3>7, <3>2, <3>5, <3>9, CutIs
    <3>8. Len(Cut(c, start, end)) = end - start /\ Cut(c, start, end) \in Content
      BY <3>10 DEF Content
    <3> QED BY <3>4, <3>8 DEF t
  <2> HIDE DEF t, n
  <2> DEFINE d == Cut(c, start, end)
  <2>5. d \in Content /\ DOMAIN t = 1..n /\ Pieces(t, d) /\ Len(d) = length
    BY <1>6, <2>3, <2>4
  <2> HIDE DEF d
  <2>6. Written(Len(d), t) = d
    BY <2>3, <2>5, WrittenIs
  <2>7. ReadRange(p, start, length) = d
    BY <2>2, <2>5, <2>6
  <2> QED BY <1>1, <2>7 DEF end, c, d
<1>11. CASE r.tag = "vzip"
  <2>1. recipes[q] = Recipe(tree[q]) /\ ZipEntry(tree[q]) /\ Gettable(tree[q])
    BY <1>1, <1>11, VzipRow
  <2>2. ReadRange(p, start, length) = RangeVzip(Recipe(tree[q]), start, end)
    BY <1>3, <1>11, <2>1
  <2> HIDE DEF end
  <2> DEFINE e == tree[q]
  <2>3. e.bytes = c
    OBVIOUS
  <2> HIDE DEF e
  <2>4. \/ RangeVzip(Recipe(e), start, end) = Cut(e.bytes, start, end)
        \/ RefusedEntry(e) /\ RangeVzip(Recipe(e), start, end) = Failure
    <3>1. ZipEntry(e) /\ Gettable(e) /\ SameAsOneThread
      BY <2>1 DEF e, Finished
    <3>2. end \in Nat /\ start <= end /\ end <= Len(e.bytes)
      BY <1>6, <2>3
    <3> QED BY <3>1, <3>2, ZipRangeIs
  <2> QED BY <1>1, <1>2, <1>11, <2>2, <2>4 DEF e, end
<1> QED BY <1>4, <1>7, <1>8, <1>9, <1>10, <1>11

-----------------------------------------------------------------------------
(* Threads.                                                                *)

\* The policy a release notes for the other threads is the build thread's, from the
\* training of the dictionary until the records are written.
PolicyNoted ==
    phase \in {"encode", "map"} =>
        eligible = IF trained /\ release
                   THEN {c \in DOMAIN cands : cands[c].hints \cap Text("builder") # {}} ELSE {}

\* No record is written before the encoding.
Unwritten == phase \in {"scan", "repartition", "micro", "flush", "train", "encode"} =>
                 codec = << >>

\* The inductive invariant of SameAsOneThread.
EncodeInv == PolicyNoted /\ Unwritten /\ SameAsOneThread

\* Before a record is written they agree.
LEMMA NothingWritten ==
    ASSUME codec' = << >> PROVE SameAsOneThread'
BY DEF SameAsOneThread

\* Before the dictionary is trained nothing is noted and nothing written.
LEMMA EarlyStep ==
    ASSUME EncodeInv, phase \in {"scan", "repartition", "micro", "flush"}, UNCHANGED codec,
           phase' \notin {"encode", "map"}
    PROVE  EncodeInv'
<1>1. codec' = << >>
  BY DEF EncodeInv, Unwritten
<1> QED BY <1>1, NothingWritten DEF EncodeInv, Unwritten, PolicyNoted

\* Which thread encodes a content makes no difference.
LEMMA ThreadsAgree ==
    ASSUME PolicyNoted, phase = "encode", NEW c \in DOMAIN cands
    PROVE  Encoded(c, "worker") = Encoded(c, "builder")
<1>1. Text("worker") \subseteq Text("builder") /\ (~release => Text("worker") = Text("builder"))
  BY DEF Text
<1>2. IsText(c, "worker") => IsText(c, "builder")
  BY <1>1 DEF IsText
<1>3. trained => (Allowed(c, "worker") <=> Allowed(c, "builder"))
  <2>1. CASE trained /\ release
    <3>1. c \in eligible <=> IsText(c, "builder")
      BY <2>1 DEF PolicyNoted, IsText
    <3> QED BY <3>1, <1>2 DEF Allowed
  <2>2. CASE ~release
    BY <1>1, <2>2 DEF Allowed, IsText
  <2> QED BY <2>1, <2>2
<1> QED BY <1>3 DEF Encoded

\* Encoding in either kind of thread gives what the build thread would.
LEMMA EncodingStep ==
    ASSUME EncodeInv, EncodeCandidates PROVE EncodeInv'
<1>1. /\ phase = "encode" /\ phase' = "map"
      /\ UNCHANGED <<scanVars, tableVars, groups, canonical, secondary, trained, eligible>>
  BY DEF EncodeCandidates
<1>2. PICK thread \in {"builder", "worker"} : codec' = [c \in DOMAIN cands |-> Encoded(c, thread)]
  BY DEF EncodeCandidates
<1>3. ASSUME NEW c \in DOMAIN codec' PROVE codec'[c] = Encoded(c, "builder")
  <2>1. c \in DOMAIN cands /\ codec'[c] = Encoded(c, thread)
    BY <1>2
  <2>2. Encoded(c, "worker") = Encoded(c, "builder")
    BY <1>1, <2>1, ThreadsAgree DEF EncodeInv
  <2> QED BY <2>1, <2>2
<1>4. ASSUME NEW c PROVE Encoded(c, "builder")' = Encoded(c, "builder")
  BY <1>1 DEF scanVars, tableVars, Encoded, Allowed, IsText, Text
<1>5. SameAsOneThread'
  BY <1>3, <1>4 DEF SameAsOneThread
<1>6. PolicyNoted'
  BY <1>1 DEF scanVars, tableVars, EncodeInv, PolicyNoted, Text
<1> QED BY <1>1, <1>5, <1>6 DEF EncodeInv, Unwritten

\* A build by worker threads stores every content as a build in one thread does, for
\* any tree, text extensions and sizes (builder.py:266-268, v030_worker_policy_capture).
THEOREM ThreadsEncodeAlike == Spec => []SameAsOneThread
<1>1. Init => EncodeInv
  BY DEF Init, EncodeInv, PolicyNoted, Unwritten, SameAsOneThread
<1>2. ASSUME EncodeInv, [Next]_vars PROVE EncodeInv'
  <2>1. ASSUME ScanSymlink \/ ScanHardlink \/ ScanSparse \/ ScanFile PROVE EncodeInv'
    <3>1. phase = "scan" /\ phase' = phase /\ codec' = codec
      BY <2>1 DEF ScanSymlink, ScanHardlink, ScanSparse, ScanFile, Scanned, Walking, planVars
    <3> QED BY <1>2, <3>1, EarlyStep
  <2>2. CASE PackContainers
    <3>1. phase = "scan" /\ phase' = "repartition"
      BY <2>2, Zenon DEF PackContainers
    <3>2. UNCHANGED planVars
      BY <2>2, Zenon DEF PackContainers
    <3>3. codec' = codec
      BY <3>2 DEF planVars
    <3> QED BY <1>2, <3>1, <3>3, EarlyStep
  <2>3. CASE MakeRecipe
    <3>1. phase = "scan" /\ phase' \in {"scan", "failed"} /\ codec' = codec
      BY <2>3 DEF MakeRecipe, planVars
    <3> QED BY <1>2, <3>1, EarlyStep
  <2>4. CASE ScanDone
    BY <1>2, <2>4, EarlyStep DEF ScanDone, planVars
  <2>5. CASE Repartition
    <3>1. phase = "repartition" /\ phase' \in {"micro", "failed"} /\ codec' = codec
      BY <2>5, RepartitionEnds DEF planVars
    <3> QED BY <1>2, <3>1, EarlyStep
  <2>6. CASE PlanMicroPacks
    BY <1>2, <2>6, EarlyStep DEF PlanMicroPacks
  <2>7. CASE FlushMicroPack
    BY <1>2, <2>7, EarlyStep DEF FlushMicroPack
  <2>8. CASE PrepareDeflateReuse
    BY <1>2, <2>8, EarlyStep DEF PrepareDeflateReuse
  <2>9. CASE TrainDictionary
    <3>1. codec' = << >> /\ phase' = "encode"
      BY <1>2, <2>9 DEF TrainDictionary, EncodeInv, Unwritten
    <3>2. eligible' = IF trained' /\ release
                      THEN {c \in DOMAIN cands' : cands'[c].hints \cap Text("builder") # {}} ELSE {}
      BY <2>9 DEF TrainDictionary
    <3>3. release' = release
      BY <2>9 DEF TrainDictionary, scanVars
    <3>4. PolicyNoted'
      BY <3>2, <3>3 DEF PolicyNoted, Text
    <3> QED BY <3>1, <3>4, NothingWritten DEF EncodeInv, Unwritten
  <2>10. CASE EncodeCandidates
    BY <1>2, <2>10, EncodingStep
  <2>11. CASE MapReferences
    <3>1. phase' \in {"built", "failed"}
          /\ UNCHANGED <<release, cands, secondary, canonical, trained, eligible, codec>>
      BY <2>11 DEF MapReferences, scanVars, tableVars, planVars
    <3>2. SameAsOneThread'
      BY <1>2, <3>1 DEF EncodeInv, SameAsOneThread, Encoded, Allowed, IsText, Text
    <3> QED BY <3>1, <3>2 DEF EncodeInv, Unwritten, PolicyNoted
  <2>12. CASE UNCHANGED vars
    BY <1>2, <2>12 DEF vars, scanVars, tableVars, planVars, EncodeInv, Unwritten, PolicyNoted,
                       SameAsOneThread, Encoded, Allowed, IsText, Text
  <2> QED BY <1>2, <2>1, <2>2, <2>3, <2>4, <2>5, <2>6, <2>7, <2>8, <2>9, <2>10, <2>11, <2>12
          DEF Next
<1>3. EncodeInv => SameAsOneThread
  BY DEF EncodeInv
<1> QED BY <1>1, <1>2, <1>3, PTL DEF Spec

-----------------------------------------------------------------------------
(* What a built archive gives back.                                        *)

\* The bytes of an entry, or of the file a hard link names.
LEMMA BytesIsContent ==
    ASSUME tree \in Trees, NEW p \in DOMAIN tree
    PROVE  Bytes(p) \in Content
<1>1. Scannable(tree) /\ \A q \in DOMAIN tree : tree[q] \in Entry
  BY TreeIs
<1>2. tree[p].kind = "hardlink" => tree[p].to \in DOMAIN tree
  BY <1>1 DEF Scannable
<1>3. \A q \in DOMAIN tree : tree[q].bytes \in Content
  BY <1>1, EntryIs
<1> QED BY <1>2, <1>3 DEF Bytes

\* References depend on the tables and plans only.
LEMMA SameRefs ==
    ASSUME UNCHANGED <<tableVars, planVars>> PROVE Refs' = Refs
BY DEF tableVars, planVars, Refs, RowRefs, RecipeRefs, Mode

\* A build ends with all it refers to written.
THEOREM EverythingWritten == Spec => []AllWritten
<1>1. Init => AllWritten
  BY DEF Init, AllWritten, Built
<1>2. ASSUME AllWritten, [Next]_vars PROVE AllWritten'
  <2>1. ASSUME phase' # "built" PROVE AllWritten'
    BY <2>1 DEF AllWritten, Built
  <2>2. ASSUME ScanSymlink \/ ScanHardlink \/ ScanSparse \/ ScanFile PROVE phase' # "built"
    BY <2>2 DEF ScanSymlink, ScanHardlink, ScanSparse, ScanFile, Scanned, Walking
  <2>3. CASE PackContainers
    BY <2>1, <2>3, Zenon DEF PackContainers
  <2>4. CASE MakeRecipe
    <3>1. phase = "scan" /\ phase' \in {"scan", "failed"}
      BY <2>4 DEF MakeRecipe
    <3> QED BY <2>1, <3>1
  <2>5. CASE ScanDone
    BY <2>1, <2>5 DEF ScanDone
  <2>6. CASE Repartition
    <3>1. phase' \in {"micro", "failed"}
      BY <2>6, RepartitionEnds
    <3> QED BY <2>1, <3>1
  <2>7. CASE PlanMicroPacks
    BY <2>1, <2>7 DEF PlanMicroPacks
  <2>8. CASE FlushMicroPack
    BY <2>1, <2>8 DEF FlushMicroPack
  <2>9. CASE PrepareDeflateReuse
    BY <2>1, <2>9 DEF PrepareDeflateReuse
  <2>10. CASE TrainDictionary
    BY <2>1, <2>10 DEF TrainDictionary
  <2>11. CASE EncodeCandidates
    BY <2>1, <2>11 DEF EncodeCandidates
  <2>12. CASE MapReferences
    <3>1. phase' = "built" => Refs \subseteq DOMAIN codec
      BY <2>12 DEF MapReferences
    <3>2. UNCHANGED <<tableVars, planVars>>
      BY <2>12 DEF MapReferences
    <3>3. Refs' = Refs /\ codec' = codec
      BY <3>2, SameRefs DEF planVars
    <3> QED BY <3>1, <3>3 DEF AllWritten, Built
  <2>13. CASE UNCHANGED vars
    <3>1. UNCHANGED <<tableVars, planVars>> /\ phase' = phase
      BY <2>13 DEF vars
    <3>2. Refs' = Refs /\ codec' = codec
      BY <3>1, SameRefs DEF planVars
    <3> QED BY <1>2, <3>1, <3>2 DEF AllWritten, Built
  <2> QED BY <1>2, <2>1, <2>2, <2>3, <2>4, <2>5, <2>6, <2>7, <2>8, <2>9, <2>10, <2>11, <2>12, <2>13
          DEF Next
<1> QED BY <1>1, <1>2, PTL DEF Spec

\* Whatever was scanned, however it is shared, cut, packed and stored, reads back as it
\* was; only a ZIP file whose payload was refused does not, and that is an error
\* (reader.py:188-220).
THEOREM FilesReadBack == Spec => []ReadsBack
<1>1. RowsInv /\ AllWritten /\ SameAsOneThread => ReadsBack
  <2> SUFFICES ASSUME RowsInv, AllWritten, SameAsOneThread, Built, NEW p \in DOMAIN tree
               PROVE  Read(p) = IF Refused(p) THEN Failure ELSE Bytes(p)
    BY DEF ReadsBack
  <2>1. Finished
    BY DEF Finished
  <2> QED BY <2>1, ReadIs
<1> QED BY <1>1, RowsHold, EverythingWritten, ThreadsEncodeAlike, PTL

\* Every range of every file, at any boundary of chunk, extent, member or payload, is
\* that slice of the whole (reader.py:222-285).
THEOREM RangesAgreeWithWhole == Spec => []RangesAgree
<1>1. RowsInv /\ AllWritten /\ SameAsOneThread => RangesAgree
  <2> SUFFICES ASSUME RowsInv, AllWritten, SameAsOneThread, Built, NEW p \in DOMAIN tree,
                      NEW start \in 0..Len(Bytes(p)), NEW length \in 0..(Len(Bytes(p)) - start)
               PROVE  \/ ReadRange(p, start, length) = Cut(Bytes(p), start, start + length)
                      \/ Refused(p) /\ ReadRange(p, start, length) = Failure
    BY DEF RangesAgree
  <2>1. Finished
    BY DEF Finished
  <2>2. start \in Nat /\ length \in Nat /\ start + length <= Len(Bytes(p))
    <3>1. Bytes(p) \in Content
      BY TreeIs, BytesIsContent DEF RowsInv
    <3>2. Len(Bytes(p)) \in Nat
      BY <3>1 DEF Content
    <3> HIDE DEF Finished
    <3> QED BY <3>2
  <2> QED BY <2>1, <2>2, RangeIs
<1> QED BY <1>1, RowsHold, EverythingWritten, ThreadsEncodeAlike, PTL

-----------------------------------------------------------------------------
(* Releases.                                                               *)

\* What a reader decodes to read a container from a pack.
WithinBound(of, c) == Len(of) <= Smaller(Unit, Amplification * Larger(1, Len(c)))

\* A cohort waits for the end of the walk. Once its pack was split, or found not to need
\* it, each container is within the bound of its pack.
LocalInv ==
    /\ phase = "scan" /\ IsCohort => Deferred \cap DOMAIN rows = {}
    /\ phase = "repartition" /\ IsCohort =>
          \A p \in Deferred : p \in DOMAIN rows /\ rows[p].of = CohortPack
    /\ phase \notin {"scan", "repartition", "failed"} /\ release /\ IsCohort =>
          \A p \in Deferred : p \in DOMAIN rows /\ WithinBound(rows[p].of, tree[p].bytes)

\* A part ends before any later part starts.
LEMMA OffsetsClimb ==
    ASSUME NEW S, NEW parts \in Seq(Seq(S)), NEW i \in 1..Len(parts), NEW j \in 1..(Len(parts) + 1),
           i < j
    PROVE  /\ Offset(parts, i) \in Nat /\ Offset(parts, j) \in Nat /\ Len(parts[i]) \in Nat
           /\ Offset(parts, i) + Len(parts[i]) <= Offset(parts, j)
           /\ Offset(parts, i + 1) <= Offset(parts, j)
<1> DEFINE n == Len(parts)
<1>0. n \in Nat /\ Len(parts[i]) \in Nat
  BY FlattenType
<1>1. i \in 0..n /\ j - 1 \in 0..n /\ i \in 0..(j - 1) /\ (i + 1) - 1 = i
  BY <1>0
<1>2. Len(Upto(parts, i)) <= Len(Upto(parts, j - 1))
  BY <1>1, UptoStarts
<1>3. Offset(parts, i + 1) = Len(Upto(parts, i)) /\ Offset(parts, j) = Len(Upto(parts, j - 1))
  BY <1>1 DEF Offset, Upto
<1>4. Offset(parts, i + 1) = Offset(parts, i) + Len(parts[i])
  BY Offsets
<1>5. \A k \in 1..(n + 1) : Offset(parts, k) \in Nat
  BY Offsets
<1>6. Offset(parts, i) \in Nat /\ Offset(parts, j) \in Nat
  <2>1. i \in 1..(n + 1)
    BY <1>0
  <2> QED BY <1>5, <2>1
<1> QED BY <1>0, <1>2, <1>3, <1>4, <1>6

\* The pack of a cohort is no longer in one order than in another.
LEMMA OrderKeepsSize ==
    ASSUME tree \in Trees, NEW r \in Orders(Deferred), NEW s \in Orders(Deferred)
    PROVE  /\ Size(BytesOf(r)) \in Nat /\ Size(BytesOf(s)) \in Nat
           /\ Size(BytesOf(r)) <= Size(BytesOf(s))
<1> DEFINE D == Deferred
           n == Cardinality(D)
           a == BytesOf(r)
           b == BytesOf(s)
           v == Len(FlattenSeq(a))
           w == Len(FlattenSeq(b))
           O(i) == Offset(a, i)
           P(i) == Offset(b, i)
           in(x) == CHOOSE i \in 1..n : x - O(i) \in 1..Len(a[i])
           to(i) == CHOOSE j \in 1..n : s[j] = r[i]
           h(x) == P(to(in(x))) + (x - O(in(x)))
           f == [x \in 1..v |-> h(x)]
<1>1. /\ r \in Seq(D) /\ s \in Seq(D) /\ Len(r) = n /\ Len(s) = n /\ n \in Nat
      /\ DOMAIN r = 1..n /\ DOMAIN s = 1..n
      /\ \A p \in D : \E i \in 1..n : s[i] = p
      /\ \A i, j \in 1..n : r[i] = r[j] => i = j
  BY OrdersAre
<1>2. /\ a \in Seq(Content) /\ Len(a) = n /\ \A i \in 1..n : a[i] = tree[r[i]].bytes
      /\ b \in Seq(Content) /\ Len(b) = n /\ \A i \in 1..n : b[i] = tree[s[i]].bytes
  BY <1>1, BytesOfIs
<1>3. a \in Seq(Seq(Nat)) /\ b \in Seq(Seq(Nat))
  BY <1>2 DEF Content
<1>4. \A i \in 1..n : r[i] \in D
  BY <1>1
<1> HIDE DEF a, b, n, D
<1>5. v \in Nat /\ w \in Nat
  BY <1>3, FlattenType
<1>6. ASSUME NEW i \in 1..n PROVE to(i) \in 1..n /\ s[to(i)] = r[i] /\ b[to(i)] = a[i]
  <2>1. \E j \in 1..n : s[j] = r[i]
    BY <1>1, <1>4
  <2>2. to(i) \in 1..n /\ s[to(i)] = r[i]
    BY <2>1
  <2> HIDE DEF to
  <2> QED BY <1>2, <2>2
<1>7. ASSUME NEW x \in 1..v PROVE in(x) \in 1..n /\ x - O(in(x)) \in 1..Len(a[in(x)])
  <2>1. \E i \in 1..n : x - O(i) \in 1..Len(a[i])
    BY <1>2, <1>3, FoundInPart
  <2> HIDE DEF O
  <2> QED BY <2>1
<1> HIDE DEF in, to, v, w, O, P
<1>8. ASSUME NEW i \in 1..n PROVE P(i) \in Nat /\ P(i) + Len(b[i]) <= w /\ Len(b[i]) \in Nat
             /\ O(i) \in Nat
  <2>1. P(i) \in Nat /\ P(i) + Len(b[i]) <= w
    BY <1>2, <1>3, PartInWhole DEF P, w
  <2>2. O(i) \in Nat
    BY <1>2, <1>3, PartInWhole DEF O
  <2>3. Len(b[i]) \in Nat
    BY <1>2, <1>3
  <2> QED BY <2>1, <2>2, <2>3
<1>9. ASSUME NEW x \in 1..v
      PROVE  \E i \in 1..n, k \in Nat :
                /\ i = in(x) /\ k = x - O(i) /\ k \in 1..Len(b[to(i)])
                /\ h(x) = P(to(i)) + k /\ to(i) \in 1..n
  <2> DEFINE i == in(x)
  <2>1. i \in 1..n /\ x - O(i) \in 1..Len(a[i])
    BY <1>7
  <2>2. to(i) \in 1..n /\ b[to(i)] = a[i]
    BY <1>6, <2>1
  <2>3. h(x) = P(to(i)) + (x - O(i))
    OBVIOUS
  <2> HIDE DEF i, h
  <2>4. x - O(i) \in 1..Len(b[to(i)]) /\ x - O(i) \in Nat
    BY <2>1, <2>2
  <2> QED BY <2>1, <2>2, <2>3, <2>4 DEF i
<1> HIDE DEF h
<1>10. ASSUME NEW x \in 1..v PROVE h(x) \in 1..w
  <2>1. PICK i \in 1..n, k \in Nat : k \in 1..Len(b[to(i)]) /\ h(x) = P(to(i)) + k /\ to(i) \in 1..n
    BY <1>9
  <2>2. P(to(i)) \in Nat /\ P(to(i)) + Len(b[to(i)]) <= w /\ Len(b[to(i)]) \in Nat
    BY <1>8, <2>1
  <2> QED BY <1>5, <2>1, <2>2
<1>11. ASSUME NEW i \in 1..n, NEW j \in 1..n, i < j, NEW k \in 1..Len(b[i]), NEW l \in 1..Len(b[j])
       PROVE  P(i) + k # P(j) + l
  <2>1. j \in 1..(Len(b) + 1) /\ i \in 1..Len(b)
    BY <1>1, <1>2
  <2>2. P(i) + Len(b[i]) <= P(j)
    BY <1>3, <1>11, <2>1, OffsetsClimb DEF P
  <2>3. P(i) \in Nat /\ P(j) \in Nat /\ Len(b[i]) \in Nat /\ k <= Len(b[i]) /\ k \in Nat
        /\ l \in Nat /\ l >= 1
    <3>1. P(i) \in Nat /\ P(j) \in Nat /\ Len(b[i]) \in Nat /\ Len(b[j]) \in Nat
      BY <1>8
    <3> QED BY <3>1
  <2> QED BY <2>2, <2>3
<1>12. ASSUME NEW x \in 1..v, NEW y \in 1..v, h(x) = h(y) PROVE x = y
  <2>1. PICK i \in 1..n, k \in Nat :
            /\ i = in(x) /\ k = x - O(i) /\ k \in 1..Len(b[to(i)])
            /\ h(x) = P(to(i)) + k /\ to(i) \in 1..n
    BY <1>9
  <2>2. PICK j \in 1..n, l \in Nat :
            /\ j = in(y) /\ l = y - O(j) /\ l \in 1..Len(b[to(j)])
            /\ h(y) = P(to(j)) + l /\ to(j) \in 1..n
    BY <1>9
  <2>3. to(i) = to(j)
    <3> DEFINE p == to(i)
               q == to(j)
    <3>0. /\ p \in 1..n /\ q \in 1..n /\ k \in 1..Len(b[p]) /\ l \in 1..Len(b[q])
          /\ P(p) + k = P(q) + l
      BY <1>12, <2>1, <2>2
    <3> HIDE DEF p, q
    <3>1. ~(p < q) /\ ~(q < p)
      BY <1>11, <3>0
    <3>2. p \in Nat /\ q \in Nat
      BY <1>1, <3>0
    <3>3. p = q
      BY <3>1, <3>2
    <3> QED BY <3>3 DEF p, q
  <2>4. i = j
    <3>1. s[to(i)] = r[i] /\ s[to(j)] = r[j]
      BY <1>6
    <3> QED BY <1>1, <2>3, <3>1
  <2>5. k = l
    <3>1. P(to(i)) \in Nat /\ P(to(i)) + k = P(to(i)) + l
      BY <1>8, <1>12, <2>1, <2>2, <2>3
    <3> QED BY <3>1
  <2>6. O(i) \in Nat
    BY <1>8
  <2>7. x \in Nat /\ y \in Nat
    BY <1>5
  <2> QED BY <2>1, <2>2, <2>4, <2>5, <2>6, <2>7
<1>13. f \in Injection(1..v, 1..w)
  <2>1. f \in [1..v -> 1..w]
    BY <1>10
  <2>2. \A x, y \in 1..v : f[x] = f[y] => x = y
    BY <1>12
  <2> HIDE DEF f
  <2> QED BY <2>1, <2>2 DEF Injection, IsInjective
<1>14. Cardinality(1..v) = v /\ Cardinality(1..w) = w /\ IsFiniteSet(1..w)
  <2>1. \A x \in Nat : IsFiniteSet(1..x) /\ Cardinality(1..x) = x
    <3>1. \A x \in Nat : 1 \in Int /\ x \in Int /\ (1 > x => x = 0) /\ x - 1 + 1 = x
      OBVIOUS
    <3> QED BY <3>1, FS_Interval
  <2> QED BY <1>5, <2>1
<1>15. v <= w
  <2> HIDE DEF f
  <2>1. Cardinality(1..v) <= Cardinality(1..w)
    BY <1>13, <1>14, FS_Injection
  <2> QED BY <1>14, <2>1
<1> QED BY <1>5, <1>15 DEF Size, v, w, a, b
\* A pack that is local is within the bound of each of its parts.
LEMMA LocalIsWithin ==
    ASSUME NEW parts \in Seq(Content), NEW i \in DOMAIN parts, Local(parts)
    PROVE  WithinBound(FlattenSeq(parts), parts[i])
<1> DEFINE w == FlattenSeq(parts)
           M == {Larger(1, Len(c)) : c \in ToSet(parts)}
           n == Larger(1, Len(w))
<1>1. parts \in Seq(Seq(Nat)) /\ DOMAIN parts = 1..Len(parts) /\ i \in 1..Len(parts)
  BY DEF Content
<1>2. w \in Seq(Nat)
  BY <1>1, FlattenType
<1>3. Len(w) \in Nat /\ n \in Nat
  BY <1>2 DEF Larger
<1>4. ASSUME NEW k \in 1..Len(parts) PROVE Len(parts[k]) \in Nat /\ Len(parts[k]) <= Len(w)
  <2>1. parts[k] \in Seq(Nat)
    BY <1>1
  <2>2. Offset(parts, k) \in Nat /\ Offset(parts, k) + Len(parts[k]) <= Len(w)
    BY <1>1, PartInWhole
  <2>3. Len(parts[k]) \in Nat
    BY <2>1
  <2> HIDE DEF w
  <2> QED BY <1>3, <2>2, <2>3
<1> HIDE DEF w
<1>5. M \in SUBSET (0..n) /\ M # {}
  <2>1. \A c \in ToSet(parts) : \E k \in 1..Len(parts) : c = parts[k]
    BY <1>1 DEF ToSet
  <2>2. \A c \in ToSet(parts) : Larger(1, Len(c)) \in 0..n
    BY <1>3, <1>4, <2>1 DEF Larger
  <2>3. parts[i] \in ToSet(parts)
    BY DEF ToSet
  <2> HIDE DEF n
  <2> QED BY <2>2, <2>3
<1>6. Larger(1, Len(parts[i])) \in M
  BY DEF ToSet
<1> DEFINE m == Min(M)
           l == Larger(1, Len(parts[i]))
<1>7. m <= l /\ m \in Nat /\ l \in Nat
  <2> HIDE DEF M, n
  <2>1. Min(M) \in M /\ \A y \in M : Min(M) <= y
    BY <1>3, <1>5, MinIsSmallest
  <2>2. M \subseteq 0..n
    BY <1>5
  <2> HIDE DEF l
  <2>3. n \in Nat /\ l \in M
    BY <1>3, <1>6 DEF l
  <2>4. m \in 0..n /\ l \in 0..n /\ m <= l
    BY <2>1, <2>2, <2>3
  <2> QED BY <2>3, <2>4
<1>8. Len(w) <= Smaller(Unit, Amplification * m)
  BY DEF Local, Size, w
<1> HIDE DEF M, m, l
<1>9. Unit \in Nat /\ Amplification \in Nat
  BY BuilderAssumption
<1>10. Amplification * m \in Nat /\ Amplification * l \in Nat
           /\ Amplification * m <= Amplification * l
  <2>1. PICK d \in Nat : l = m + d
    <3>1. l - m \in Nat /\ l = m + (l - m)
      BY <1>7
    <3> QED BY <3>1
  <2>2. Amplification * l = Amplification * m + Amplification * d
    BY <1>7, <1>9, <2>1
  <2>3. Amplification * d \in Nat /\ Amplification * m \in Nat
    BY <1>7, <1>9, <2>1
  <2> QED BY <2>2, <2>3
<1>11. Len(w) <= Smaller(Unit, Amplification * l)
  BY <1>3, <1>8, <1>9, <1>10 DEF Smaller
<1> QED BY <1>11 DEF WithinBound, w, l

\* Reading a container from a local pack of containers.
LEMMA ContainerWithin ==
    ASSUME tree \in Trees, NEW paths \in Seq(Deferred), NEW p \in ToSet(paths),
           Local(BytesOf(paths))
    PROVE  WithinBound(FlattenSeq(BytesOf(paths)), tree[p].bytes)
<1> DEFINE b == BytesOf(paths)
           i == IndexIn(paths, p)
<1>1. i \in DOMAIN paths /\ paths[i] = p
  BY IndexInIs
<1>2. b \in Seq(Content) /\ i \in DOMAIN b /\ b[i] = tree[p].bytes
  BY <1>1, BytesOfIs
<1> HIDE DEF i
<1>3. Local(b)
  OBVIOUS
<1> HIDE DEF b
<1>4. WithinBound(FlattenSeq(b), b[i])
  BY <1>2, <1>3, LocalIsWithin
<1> QED BY <1>2, <1>4 DEF b

\* A cohort in a single group was within the bound from the start.
LEMMA OneGroup ==
    ASSUME tree \in Trees, IsCohort, NEW gs, Divided(gs), Len(gs) = 1, NEW p \in Deferred
    PROVE  WithinBound(CohortPack, tree[p].bytes)
<1>0. PICK paths \in Orders(Deferred) :
          GroupsOf(gs, paths, {g \in Runs(paths) : Local(BytesOf(g))})
  BY DEF Divided
<1> DEFINE fits == {g \in Runs(paths) : Local(BytesOf(g))}
           D == Deferred
<1>1. gs \in Seq(Seq(D)) /\ GroupsOf(gs, paths, fits)
  BY <1>0 DEF Divided
<1>2. paths \in Seq(D) /\ ToSet(paths) = D /\ Len(paths) = Cardinality(D) /\ Cardinality(D) \in Nat
  BY OrdersAre
<1>3. Len(paths) > 1
  <2>1. Cohort \in Nat /\ Cohort > 1
    BY BuilderAssumption
  <2> QED BY <1>2, <2>1 DEF IsCohort
<1>4. gs[1] = paths
  <2> HIDE DEF fits, D
  <2>1. FlattenSeq(gs) = paths
    BY <1>1 DEF GroupsOf
  <2>2. Upto(gs, 0) = << >> /\ Upto(gs, 1) = FlattenSeq(gs)
        /\ \A k \in 1..1 : Upto(gs, k) = Upto(gs, k - 1) \o gs[k]
    BY <1>1, UptoIs
  <2>3. Upto(gs, 1) = Upto(gs, 0) \o gs[1]
    BY <2>2
  <2> DEFINE T == Seq(D)
  <2>4. gs \in Seq(T)
    BY <1>1
  <2> HIDE DEF T
  <2>5. gs[1] \in T
    BY <2>4
  <2>6. << >> \o gs[1] = gs[1]
    BY <2>5 DEF T
  <2> QED BY <2>1, <2>2, <2>3, <2>6
<1>5. gs[1] \in fits
  <2> HIDE DEF fits
  <2>1. 1 \in 1..Len(gs)
    OBVIOUS
  <2> QED BY <1>1, <1>3, <1>4, <2>1 DEF GroupsOf
<1>6. Local(BytesOf(paths))
  BY <1>4, <1>5
<1>7. WithinBound(FlattenSeq(BytesOf(paths)), tree[p].bytes)
  BY <1>2, <1>6, ContainerWithin
<1>8. InOrder(Deferred) \in Orders(Deferred)
  BY PathsAre DEF Orders
<1>9. /\ Len(CohortPack) \in Nat /\ Len(FlattenSeq(BytesOf(paths))) \in Nat
      /\ Len(CohortPack) <= Len(FlattenSeq(BytesOf(paths)))
  BY <1>8, OrderKeepsSize DEF Size, CohortPack
<1> DEFINE bound == Smaller(Unit, Amplification * Larger(1, Len(tree[p].bytes)))
<1>10. bound \in Nat
  <2>1. Len(tree[p].bytes) \in Nat
    <3>1. tree[p].bytes \in Content
      BY DeferredIs
    <3> QED BY <3>1 DEF Content
  <2>2. Unit \in Nat /\ Amplification \in Nat
    BY BuilderAssumption
  <2>3. Larger(1, Len(tree[p].bytes)) \in Nat
    BY <2>1 DEF Larger
  <2> QED BY <2>2, <2>3 DEF Smaller
<1>11. Len(FlattenSeq(BytesOf(paths))) <= bound
  BY <1>7 DEF WithinBound
<1> HIDE DEF bound
<1>12. Len(CohortPack) <= bound
  BY <1>9, <1>10, <1>11
<1> QED BY <1>12 DEF WithinBound, bound

\* After the split, or the decision that none is needed, every container is within its bound.
LEMMA RepartitionLocal ==
    ASSUME RowsInv, LocalInv, Repartition, phase' # "failed", release, IsCohort, NEW p \in Deferred
    PROVE  p \in DOMAIN rows' /\ WithinBound(rows'[p].of, tree[p].bytes)
<1>0. PICK paths \in Orders(Deferred) : SplitPack(paths)
  BY DEF Repartition
<1> DEFINE fits == {g \in Runs(paths) : Fits(BytesOf(g))}
           gs == Grouped(paths, fits)
           group(x) == gs[CHOOSE i \in DOMAIN gs : x \in ToSet(gs[i])]
           slice(x) == SliceOf(BytesOf(group(x)), IndexIn(group(x), x))
           split == rows' = [x \in DOMAIN rows |-> IF x \in Deferred THEN slice(x) ELSE rows[x]]
<1>1. phase = "repartition" /\ tree \in Trees /\ p \in DOMAIN rows /\ rows[p].of = CohortPack
  BY DEF Repartition, LocalInv, RowsInv
<1>2. Divided(gs)
  BY <1>1, DividedIs
<1>3. \/ (~release \/ Cardinality(Deferred) < Cohort \/ Len(gs) = 1) /\ rows' = rows
      \/ (\A i \in DOMAIN gs : Local(BytesOf(gs[i]))) /\ split
  BY <1>0, Zenon DEF SplitPack, tableVars
<1> HIDE DEF gs, split
<1>4. CASE (~release \/ Cardinality(Deferred) < Cohort \/ Len(gs) = 1) /\ rows' = rows
  <2>1. Len(gs) = 1
    <3>1. Cardinality(Deferred) \in Nat /\ Cohort \in Nat
      BY <1>1, PathsAre, BuilderAssumption
    <3> QED BY <1>4, <3>1 DEF IsCohort
  <2>2. WithinBound(CohortPack, tree[p].bytes)
    BY <1>1, <1>2, <2>1, OneGroup
  <2> QED BY <1>1, <1>4, <2>2
<1>5. CASE (\A i \in DOMAIN gs : Local(BytesOf(gs[i]))) /\ split
  <2>1. gs \in Seq(Seq(Deferred)) /\ \E i \in 1..Len(gs) : p \in ToSet(gs[i])
    BY <1>2 DEF Divided
  <2> DEFINE i == CHOOSE i \in DOMAIN gs : p \in ToSet(gs[i])
             T == Seq(Deferred)
  <2>2. DOMAIN gs = 1..Len(gs) /\ \A k \in DOMAIN gs : gs[k] \in T
    <3>1. gs \in Seq(T)
      BY <2>1
    <3> HIDE DEF T
    <3> QED BY <3>1
  <2>3. i \in DOMAIN gs /\ p \in ToSet(gs[i])
    BY <2>1, <2>2
  <2>4. gs[i] \in Seq(Deferred)
    BY <2>2, <2>3
  <2>5. p \in DOMAIN rows' /\ rows'[p] = slice(p)
    <3> HIDE DEF slice
    <3>1. rows' = [x \in DOMAIN rows |-> IF x \in Deferred THEN slice(x) ELSE rows[x]]
      BY <1>5 DEF split
    <3> QED BY <1>1, <3>1
  <2> HIDE DEF i
  <2> DEFINE g == gs[i]
  <2>6. g \in Seq(Deferred) /\ p \in ToSet(g) /\ Local(BytesOf(g))
    BY <1>5, <2>3, <2>4
  <2>7. rows'[p] = SliceOf(BytesOf(g), IndexIn(g, p))
    BY <2>5 DEF i
  <2> HIDE DEF g
  <2>8. WithinBound(FlattenSeq(BytesOf(g)), tree[p].bytes)
    BY <1>1, <2>6, ContainerWithin
  <2>9. rows'[p].of = FlattenSeq(BytesOf(g))
    BY <2>7 DEF SliceOf
  <2> QED BY <2>5, <2>8, <2>9
<1> QED BY <1>3, <1>4, <1>5

\* After the split the rows of a cohort stay as they are.
LEMMA CohortRowsStay ==
    ASSUME RowsInv, IsCohort, PlanMicroPacks \/ FlushMicroPack \/ PrepareDeflateReuse
           \/ TrainDictionary \/ EncodeCandidates \/ MapReferences,
           NEW p \in Deferred, p \in DOMAIN rows
    PROVE  p \in DOMAIN rows' /\ rows'[p] = rows[p]
<1>1. CASE PlanMicroPacks
  BY <1>1 DEF PlanMicroPacks, tableVars
<1>2. CASE FlushMicroPack
  <2>1. tree[p].kind = "zip" /\ Stores(tree[p], rows[p])
    BY DEF RowsInv, RowsSound, Deferred
  <2>2. ~Direct(p)
    BY <2>1 DEF Direct, Stores, SliceIs
  <2>3. rows' = Flushed(Head(groups))
    BY <1>2, FlushIs DEF RowsInv
  <2> QED BY <2>2, <2>3 DEF Flushed
<1>3. CASE PrepareDeflateReuse
  BY <1>3 DEF PrepareDeflateReuse
<1>4. CASE TrainDictionary
  BY <1>4 DEF TrainDictionary
<1>5. CASE EncodeCandidates
  BY <1>5 DEF EncodeCandidates, tableVars
<1>6. CASE MapReferences
  BY <1>6 DEF MapReferences, tableVars
<1> QED BY <1>1, <1>2, <1>3, <1>4, <1>5, <1>6

\* The bound and the rows it is about are the same before and after a step.
LEMMA SameLocal ==
    ASSUME RowsInv, LocalInv, tree' = tree, release' = release, phase' \notin {"scan",
           "repartition"},
           phase \notin {"scan", "repartition", "failed"},
           \A p \in Deferred : IsCohort /\ p \in DOMAIN rows =>
              p \in DOMAIN rows' /\ rows'[p] = rows[p]
    PROVE  LocalInv'
<1>1. Deferred' = Deferred /\ IsCohort' = IsCohort
  BY DEF Deferred, IsCohort
<1>2. release /\ IsCohort => \A p \in Deferred : p \in DOMAIN rows
          /\ WithinBound(rows[p].of, tree[p].bytes)
  BY DEF LocalInv
<1>3. release /\ IsCohort => \A p \in Deferred : p \in DOMAIN rows'
          /\ WithinBound(rows'[p].of, tree[p].bytes)
  BY <1>2
<1>4. ASSUME release', IsCohort', NEW p \in Deferred'
      PROVE  p \in DOMAIN rows' /\ WithinBound(rows[p].of, tree[p].bytes)'
  <2>1. p \in DOMAIN rows' /\ WithinBound(rows'[p].of, tree[p].bytes)
    BY <1>1, <1>3, <1>4
  <2> QED BY <2>1 DEF WithinBound
<1> QED BY <1>4 DEF LocalInv

\* Every step keeps LocalInv.
LEMMA LocalStep ==
    ASSUME RowsInv, LocalInv, [Next]_vars
    PROVE  LocalInv'
<1>1. CASE ScanSymlink \/ ScanHardlink \/ ScanSparse \/ ScanFile
  <2>1. PICK storage : phase = "scan" /\ phase' = "scan" /\ tree' = tree /\ Walking
            /\ rows' = Put(rows, Here, storage)
    BY <1>1, Zenon DEF ScanSymlink, ScanHardlink, ScanSparse, ScanFile, Scanned, Walking, scanVars
  <2>2. Here \notin Deferred
    BY <2>1, HereIs DEF RowsInv
  <2>3. DOMAIN rows' = DOMAIN rows \cup {Here}
    BY <2>1 DEF Put
  <2>4. Deferred' = Deferred /\ IsCohort' = IsCohort
    BY <2>1 DEF Deferred, IsCohort
  <2>5. phase = "scan" /\ IsCohort => Deferred \cap DOMAIN rows = {}
    BY DEF LocalInv
  <2>6. IsCohort => Deferred \cap DOMAIN rows' = {}
    BY <2>1, <2>2, <2>3, <2>5
  <2> QED BY <2>1, <2>4, <2>6 DEF LocalInv
<1>2. CASE PackContainers
  <2> DEFINE paths == InOrder(Deferred)
             slice(p) == SliceOf(BytesOf(paths), IndexIn(paths, p))
  <2>1. /\ phase' = "repartition" /\ tree' = tree
    BY <1>2, Zenon DEF PackContainers, scanVars
  <2>2. rows' = [p \in DOMAIN rows \cup Deferred |-> IF p \in Deferred THEN slice(p) ELSE rows[p]]
    BY <1>2, Zenon DEF PackContainers
  <2>3. \A p \in Deferred : slice(p).of = CohortPack
    BY DEF SliceOf, CohortPack
  <2> HIDE DEF slice
  <2>4. \A p \in Deferred : p \in DOMAIN rows' /\ rows'[p].of = CohortPack
    BY <2>2, <2>3
  <2>5. Deferred' = Deferred /\ CohortPack' = CohortPack
    BY <2>1 DEF Deferred, CohortPack, BytesOf, Bytes
  <2> QED BY <2>1, <2>4, <2>5 DEF LocalInv
<1>3. CASE MakeRecipe
  <2>1. phase' \in {"scan", "failed"} /\ tree' = tree /\ Cardinality(Deferred) < Cohort
    BY <1>3 DEF MakeRecipe, scanVars
  <2>2. ~IsCohort
    <3>1. Cardinality(Deferred) \in Nat /\ Cohort \in Nat
      BY PathsAre, BuilderAssumption DEF RowsInv
    <3> QED BY <2>1, <3>1 DEF IsCohort
  <2>3. IsCohort' = IsCohort
    BY <2>1 DEF Deferred, IsCohort
  <2> QED BY <2>1, <2>2, <2>3 DEF LocalInv
<1>4. CASE ScanDone
  <2>1. phase = "scan" /\ phase' = "repartition" /\ tree' = tree /\ rows' = rows
            /\ DOMAIN rows = DOMAIN tree
    BY <1>4 DEF ScanDone, scanVars, tableVars
  <2>2. Deferred' = Deferred /\ CohortPack' = CohortPack /\ IsCohort' = IsCohort
    BY <2>1 DEF Deferred, CohortPack, BytesOf, Bytes, IsCohort
  <2>3. IsCohort => Deferred = {}
    <3>1. phase = "scan" /\ IsCohort => Deferred \cap DOMAIN rows = {}
      BY DEF LocalInv
    <3>2. Deferred \subseteq DOMAIN rows
      BY <2>1 DEF Deferred
    <3> QED BY <2>1, <3>1, <3>2
  <2> QED BY <2>1, <2>2, <2>3 DEF LocalInv
<1>5. CASE Repartition
  <2>1. phase' \in {"micro", "failed"} /\ tree' = tree /\ release' = release
    BY <1>5, RepartitionEnds DEF scanVars
  <2>2. Deferred' = Deferred /\ IsCohort' = IsCohort
    BY <2>1 DEF Deferred, IsCohort
  <2>3. ASSUME phase' # "failed", release', IsCohort', NEW p \in Deferred'
        PROVE p \in DOMAIN rows' /\ WithinBound(rows[p].of, tree[p].bytes)'
    <3>1. p \in DOMAIN rows' /\ WithinBound(rows'[p].of, tree[p].bytes)
      BY <1>5, <2>1, <2>2, <2>3, RepartitionLocal
    <3> QED BY <2>1, <3>1 DEF WithinBound
  <2> QED BY <2>1, <2>3 DEF LocalInv
<1>6. CASE PlanMicroPacks \/ FlushMicroPack \/ PrepareDeflateReuse
           \/ TrainDictionary \/ EncodeCandidates \/ MapReferences
  <2>1. /\ phase \notin {"scan", "repartition", "failed"} /\ phase' \notin {"scan", "repartition"}
        /\ tree' = tree /\ release' = release
    <3>1. CASE PlanMicroPacks
      BY <3>1 DEF PlanMicroPacks, scanVars
    <3>2. CASE FlushMicroPack
      BY <3>2 DEF FlushMicroPack, scanVars
    <3>3. CASE PrepareDeflateReuse
      BY <3>3 DEF PrepareDeflateReuse, scanVars
    <3>4. CASE TrainDictionary
      BY <3>4 DEF TrainDictionary, scanVars
    <3>5. CASE EncodeCandidates
      BY <3>5 DEF EncodeCandidates, scanVars
    <3>6. CASE MapReferences
      BY <3>6 DEF MapReferences, scanVars
    <3> QED BY <1>6, <3>1, <3>2, <3>3, <3>4, <3>5, <3>6
  <2>2. \A p \in Deferred : IsCohort /\ p \in DOMAIN rows => p \in DOMAIN rows'
            /\ rows'[p] = rows[p]
    BY <1>6, CohortRowsStay
  <2> QED BY <2>1, <2>2, SameLocal
<1>7. CASE UNCHANGED vars
  <2>1. tree' = tree /\ release' = release /\ rows' = rows /\ phase' = phase
    BY <1>7 DEF vars, scanVars, tableVars
  <2> QED BY <2>1 DEF LocalInv, Deferred, IsCohort, CohortPack, WithinBound, BytesOf, Bytes
<1> QED BY <1>1, <1>2, <1>3, <1>4, <1>5, <1>6, <1>7 DEF Next

\* Containers are where they are said to be in every state.
LEMMA LocalHolds == Spec => []LocalInv
<1>1. Init => LocalInv
  <2>1. Init => phase = "scan" /\ DOMAIN rows = {}
    BY DEF Init
  <2> QED BY <2>1 DEF LocalInv
<1>2. RowsInv /\ LocalInv /\ [Next]_vars => LocalInv'
  BY LocalStep
<1> QED BY <1>1, <1>2, RowsHold, PTL DEF Spec

\* Reading a container from a release archive decodes at most Amplification times its
\* size and no more than a unit, for every cohort of containers whatever their sizes
\* (v030_release_locality.py:18-23).
THEOREM ReleasesAreLocal == Spec => []ReleaseIsLocal
<1>1. RowsInv /\ LocalInv => ReleaseIsLocal
  <2> SUFFICES ASSUME RowsInv, LocalInv, Built, release, IsCohort, NEW p \in Deferred
               PROVE  Len(rows[p].of) <= Smaller(Unit, Amplification * Larger(1, rows[p].len))
    BY DEF ReleaseIsLocal
  <2>1. p \in DOMAIN rows /\ WithinBound(rows[p].of, tree[p].bytes)
    BY DEF LocalInv, Built
  <2>2. Stores(tree[p], rows[p]) /\ tree[p].kind = "zip"
    BY <2>1 DEF RowsInv, RowsSound, Deferred
  <2>3. rows[p].len = Len(tree[p].bytes)
    BY <2>2 DEF Stores, SliceIs
  <2> QED BY <2>1, <2>3 DEF WithinBound
<1> QED BY <1>1, RowsHold, LocalHolds, PTL

-----------------------------------------------------------------------------
(* What builds store, and what they may lose.                              *)

\* What rows and recipes refer to, whatever is stored for it.
RecipeContents(r) == {r.skeleton} \cup {pl.raw : pl \in ToSet(r.payloads)}

\* What rows and recipes refer to, before streams are chosen.
TableRefs == UNION ({RowRefs(rows[p]) : p \in DOMAIN rows}
                    \cup {RecipeContents(recipes[p]) : p \in DOMAIN recipes})

\* A content that was removed from the table and is still referred to.
Lost(c) ==
    \/ /\ \E p \in SmallFiles : tree[p].bytes = c
       /\ StoredElsewhere(c) \/ PackOfOthers(c) \/ PackOfCohort(c)
    \/ /\ release /\ IsCohort /\ c = CohortPack
       /\ StoredElsewhere(c) \/ \E p \in DOMAIN tree : tree[p].kind = "file" /\ tree[p].bytes = c

\* What is referred to is in the table, but for what a failing build has lost.
NoneMissing == \A c \in TableRefs : c \in DOMAIN cands \/ Lost(c)

\* The micro-packs still to be written hold different contents, each of a file's row.
GroupsApart ==
    /\ \A i \in DOMAIN groups : groups[i] # << >> /\
          \A c \in ToSet(groups[i]) : c \in Small /\ Len(c) <= MicroMax
    /\ \A i, j \in DOMAIN groups : i # j => ToSet(groups[i]) \cap ToSet(groups[j]) = {}

\* A pack is that of the containers of a cohort, or a micro-pack.
PacksKnown ==
    \A p \in DOMAIN rows : rows[p].tag = "pack" =>
        IF p \in Deferred /\ IsCohort THEN PackOfCohort(rows[p].of)
        ELSE /\ phase \notin {"scan", "repartition", "micro"}
             /\ PackOfOthers(rows[p].of) \/ \A i \in DOMAIN groups :
                    rows[p].of \notin ToSet(groups[i])

\* Streams are those of recipes, or of recipes that were given up.
HasStream(r, c, s) ==
    \E pl \in ToSet(r.payloads) : pl.raw = c /\ pl.stream = s /\ pl.level # Stored

\* Streams of the table come from recipes, or were abandoned.
StreamsKnown ==
    \A c \in DOMAIN cands : \A s \in DOMAIN cands[c].deflates :
        s \in Abandoned \/ \E p \in DOMAIN recipes : HasStream(recipes[p], c, s)

\* What is stored besides, once it was chosen.
Early == phase \in {"scan", "repartition", "micro", "flush"}

\* What each phase may already have decided; what is stored besides is in the table.
ExtrasKnown ==
    /\ phase \in {"scan", "repartition", "micro"} => groups = << >>
    /\ Early => canonical = << >> /\ secondary = {}
    /\ Early \/ phase = "train" => trained = FALSE
    /\ secondary \subseteq DOMAIN cands
    /\ trained => Dictionary \in DOMAIN cands
    /\ phase \in {"map", "built"} => DOMAIN codec = DOMAIN cands

\* All that is stored is referred to, or was left by a recipe that was given up.
NoneIdle ==
    /\ Early => DOMAIN cands \subseteq TableRefs \cup Abandoned
    /\ phase \in {"train", "encode", "map", "built"} => DOMAIN cands \subseteq Refs \cup Abandoned

\* The candidate table against rows and recipes.
TablesKept == NoneMissing /\ StreamsKnown /\ NoneIdle

\* The inductive invariant of NothingIdle and FailsOnlyOver.
KeptInv == TablesKept /\ GroupsApart /\ PacksKnown /\ ExtrasKnown /\ FailsOnlyOver

\* Where the whole holds nothing twice, no two parts hold the same.
LEMMA PartsApart ==
    ASSUME NEW S, NEW parts \in Seq(Seq(S)),
           \A x, y \in 1..Len(FlattenSeq(parts)) : FlattenSeq(parts)[x] = FlattenSeq(parts)[y]
               => x = y
    PROVE  \A i, j \in 1..Len(parts) : i # j => ToSet(parts[i]) \cap ToSet(parts[j]) = {}
<1> DEFINE n == Len(parts)
           w == FlattenSeq(parts)
           O(i) == Offset(parts, i)
<1>0. n \in Nat /\ Len(w) \in Nat /\ \A i \in 1..n : Len(parts[i]) \in Nat
          /\ DOMAIN parts[i] = 1..Len(parts[i])
  BY FlattenType
<1>1. ASSUME NEW i \in 1..n, NEW a \in 1..Len(parts[i])
      PROVE  O(i) + a \in 1..Len(w) /\ w[O(i) + a] = parts[i][a]
  <2>1. O(i) \in Nat /\ O(i) + Len(parts[i]) <= Len(w)
    BY PartInWhole
  <2>2. w[O(i) + a] = parts[i][a]
    BY PartElement
  <2> HIDE DEF w, O
  <2> QED BY <1>0, <2>1, <2>2
<1>2. ASSUME NEW i \in 1..n, NEW j \in 1..n, i < j, NEW a \in 1..Len(parts[i]),
             NEW b \in 1..Len(parts[j]),
             parts[i][a] = parts[j][b]
      PROVE  FALSE
  <2>1. O(i) + a = O(j) + b
    <3>1. O(i) + a \in 1..Len(w) /\ w[O(i) + a] = parts[i][a]
      BY <1>1
    <3>2. O(j) + b \in 1..Len(w) /\ w[O(j) + b] = parts[j][b]
      BY <1>1
    <3> QED BY <1>2, <3>1, <3>2
  <2>2. j \in 1..(n + 1)
    BY <1>0
  <2>3. O(i) \in Nat /\ O(j) \in Nat /\ O(i) + Len(parts[i]) <= O(j)
    BY <1>2, <2>2, OffsetsClimb
  <2> HIDE DEF O
  <2>4. a <= Len(parts[i]) /\ b >= 1 /\ Len(parts[i]) \in Nat /\ a \in Nat /\ b \in Nat
    BY <1>0
  <2> QED BY <2>1, <2>3, <2>4
<1>3. ASSUME NEW i \in 1..n, NEW j \in 1..n, i # j, NEW x \in ToSet(parts[i]), x \in ToSet(parts[j])
      PROVE  FALSE
  <2>1. PICK a \in 1..Len(parts[i]) : x = parts[i][a]
    BY <1>0 DEF ToSet
  <2>2. PICK b \in 1..Len(parts[j]) : x = parts[j][b]
    BY <1>0, <1>3 DEF ToSet
  <2>3. CASE i < j
    BY <1>2, <2>1, <2>2, <2>3
  <2>4. CASE j < i
    BY <1>2, <2>1, <2>2, <2>4
  <2> QED BY <1>0, <1>3, <2>3, <2>4
<1> QED BY <1>3

\* A pack that is none of its parts starts with one that is not empty and ends with
\* another.
LEMMA PackEnds ==
    ASSUME NEW parts \in Seq(Content), parts # << >>, FlattenSeq(parts) \notin ToSet(parts)
    PROVE  \E i, j \in 1..Len(parts) : LET w == FlattenSeq(parts) IN
              /\ parts[i] # << >> /\ parts[j] # << >>
              /\ Len(parts[i]) + Len(parts[j]) <= Len(w)
              /\ Cut(w, 0, Len(parts[i])) = parts[i]
              /\ Cut(w, Len(w) - Len(parts[j]), Len(w)) = parts[j]
<1> DEFINE n == Len(parts)
           w == FlattenSeq(parts)
           l == Len(w)
           O(i) == Offset(parts, i)
           A == {k \in 1..n : O(k) = 0}
           B == {k \in 1..n : O(k + 1) = l}
<1>0. parts \in Seq(Seq(Nat)) /\ w \in Seq(Nat)
  BY FlattenType DEF Content
<1>1. n \in Nat /\ l \in Nat /\ DOMAIN parts = 1..n
  BY <1>0
<1>2. n # 0
  <2> DEFINE T == Seq(Nat)
  <2>1. parts \in Seq(T)
    BY <1>0
  <2> HIDE DEF T
  <2> QED BY <2>1, EmptySeq
<1>3. O(1) = 0
  BY <1>0, Offsets
<1>4. O(n + 1) = l
  BY <1>0, Offsets
<1>5. \A i \in 1..n : O(i + 1) = O(i) + Len(parts[i])
  BY <1>0, Offsets
<1>6. \A i \in 1..(n + 1) : O(i) \in Nat
  BY <1>0, Offsets
<1>7. \A i \in 1..n : Len(parts[i]) \in Nat /\ (Len(parts[i]) # 0 => parts[i] # << >>)
  BY <1>0
<1>8. \A i \in 1..n : Cut(w, O(i), O(i) + Len(parts[i])) = parts[i]
  BY <1>0, PartInWhole
<1>9. \A i \in 1..n : parts[i] # w
  BY <1>1 DEF ToSet
<1>10. Cut(w, 0, l) = w
  BY <1>0, CutAll
<1>11. \A i, j \in 1..n : i < j => O(i + 1) <= O(j)
  <2>1. ASSUME NEW i \in 1..n, NEW j \in 1..n, i < j PROVE O(i + 1) <= O(j)
    <3>1. j \in 1..(n + 1)
      BY <1>1
    <3> QED BY <1>0, <2>1, <3>1, OffsetsClimb
  <2> QED BY <2>1
<1> HIDE DEF w, l, O, n
<1>12. A \in SUBSET (0..n) /\ A # {} /\ B \in SUBSET (0..n) /\ B # {}
  <2>1. 1 \in A /\ n \in B
    BY <1>1, <1>2, <1>3, <1>4
  <2> QED BY <2>1
<1> DEFINE i == Max(A)
           j == Min(B)
<1>13. i \in A /\ \A y \in A : y <= i
  <2> HIDE DEF A, B
  <2> QED BY <1>1, <1>12, MaxIsLargest
<1>14. j \in B /\ \A y \in B : j <= y
  <2> HIDE DEF A, B
  <2> QED BY <1>1, <1>12, MinIsSmallest
<1> HIDE DEF i, j
<1>15. i \in 1..n /\ O(i) = 0 /\ j \in 1..n /\ O(j + 1) = l
  BY <1>13, <1>14
<1>16. O(i + 1) = Len(parts[i]) /\ O(j) = l - Len(parts[j]) /\ O(j) \in Nat /\ O(i + 1) \in Nat
  <2>1. j \in 1..(n + 1) /\ i + 1 \in 1..(n + 1)
    BY <1>1, <1>15
  <2>2. O(i + 1) = O(i) + Len(parts[i]) /\ O(j + 1) = O(j) + Len(parts[j])
    BY <1>5, <1>15
  <2>3. O(j) \in Nat /\ O(i + 1) \in Nat /\ Len(parts[i]) \in Nat /\ Len(parts[j]) \in Nat
    BY <1>6, <1>7, <1>15, <2>1
  <2> QED BY <1>15, <2>2, <2>3
\* No part reaches from one end of the pack to the other.
<1>17. \A k \in 1..n : ~(O(k) = 0 /\ O(k + 1) = l)
  <2>1. ASSUME NEW k \in 1..n, O(k) = 0, O(k + 1) = l PROVE FALSE
    <3>1. Len(parts[k]) = l
      BY <1>5, <1>7, <2>1
    <3>2. parts[k] = Cut(w, 0, 0 + l)
      BY <1>8, <2>1, <3>1
    <3>3. 0 + l = l
      BY <1>1
    <3> QED BY <1>9, <1>10, <3>2, <3>3
  <2> QED BY <2>1
<1>18. Len(parts[i]) # 0
  <2>1. ASSUME Len(parts[i]) = 0 PROVE FALSE
    <3>1. O(i + 1) = 0
      BY <1>16, <2>1
    <3>2. CASE i = n
      <4>1. l = 0
        BY <1>4, <3>1, <3>2
      <4> QED BY <1>15, <1>17, <3>1, <4>1
    <3>3. CASE i # n
      <4>1. i + 1 \in 1..n /\ ~(i + 1 <= i)
        BY <1>1, <1>15, <3>3
      <4> QED BY <1>13, <3>1, <4>1
    <3> QED BY <3>2, <3>3
  <2> QED BY <2>1
<1>19. Len(parts[j]) # 0
  <2>1. ASSUME Len(parts[j]) = 0 PROVE FALSE
    <3>1. O(j) = l
      BY <1>1, <1>16, <2>1
    <3>2. CASE j = 1
      <4>1. O(j) = 0 /\ O(j + 1) = l
        BY <1>3, <1>15, <3>2
      <4> QED BY <1>15, <1>17, <4>1
    <3>3. CASE j # 1
      <4>1. j - 1 \in 1..n /\ (j - 1) + 1 = j /\ ~(j <= j - 1)
        BY <1>1, <1>15, <3>3
      <4>2. j - 1 \in B
        BY <3>1, <4>1
      <4> QED BY <1>14, <4>1, <4>2
    <3> QED BY <3>2, <3>3
  <2> QED BY <2>1
<1>20. i < j
  <2>1. CASE i = j
    BY <1>15, <1>17, <2>1
  <2>2. CASE j < i
    <3>1. O(j + 1) <= O(i)
      BY <1>11, <1>15, <2>2
    <3>2. l = 0
      BY <1>1, <1>15, <3>1
    <3>3. O(i + 1) \in Nat /\ Len(parts[j]) <= l
      BY <1>1, <1>7, <1>15, <1>16
    <3> QED BY <1>7, <1>15, <1>19, <3>2, <3>3
  <2> QED BY <1>1, <1>15, <2>1, <2>2
<1>21. Len(parts[i]) + Len(parts[j]) <= l
  <2>1. O(i + 1) <= O(j)
    BY <1>11, <1>15, <1>20
  <2>2. Len(parts[i]) \in Nat /\ Len(parts[j]) \in Nat
    BY <1>7, <1>15
  <2> DEFINE x == Len(parts[i])
             y == Len(parts[j])
  <2>3. x <= l - y /\ x \in Nat /\ y \in Nat /\ l \in Nat
    BY <1>1, <1>16, <2>1, <2>2
  <2> HIDE DEF x, y
  <2>4. x + y <= l
    BY <2>3
  <2> QED BY <2>4 DEF x, y
<1>22. Cut(w, 0, Len(parts[i])) = parts[i]
  <2>1. 0 + Len(parts[i]) = Len(parts[i])
    BY <1>7, <1>15
  <2> QED BY <1>8, <1>15, <2>1
<1>23. Cut(w, l - Len(parts[j]), l) = parts[j]
  <2>1. O(j) + Len(parts[j]) = l
    BY <1>5, <1>15
  <2> QED BY <1>8, <1>15, <1>16, <2>1
<1>24. parts[i] # << >> /\ parts[j] # << >>
  BY <1>7, <1>15, <1>18, <1>19
<1> QED BY <1>15, <1>21, <1>22, <1>23, <1>24 DEF w, l, n

\* A stream that was known before, or comes with an item.
StreamFrom(cs, items, c, s) ==
    \/ c \in DOMAIN cs /\ s \in DOMAIN cs[c].deflates
    \/ \E i \in DOMAIN items : items[i].of = c /\ s \in items[i].streams

\* What is in the table after items were added, and the streams known of it.
LEMMA AddItemsIs ==
    ASSUME NEW cs, NEW items
    PROVE  /\ DOMAIN AddItems(cs, items) = DOMAIN cs \cup {items[i].of : i \in DOMAIN items}
           /\ \A c \in DOMAIN AddItems(cs, items) :
                  \A s \in DOMAIN AddItems(cs, items)[c].deflates :
                 StreamFrom(cs, items, c, s)
<1> DEFINE old(c) == IF c \in DOMAIN cs THEN cs[c] ELSE [hints |-> {}, deflates |-> << >>]
           of(c) == {i \in DOMAIN items : items[i].of = c}
           count(d, s) == IF s \in DOMAIN d THEN d[s] ELSE 0
           streams(c) == DOMAIN old(c).deflates \cup UNION {items[i].streams : i \in of(c)}
           num(c, s) == count(old(c).deflates,
               s) + Cardinality({i \in of(c) : s \in items[i].streams})
           hints(c) == old(c).hints \cup {items[i].hint : i \in of(c)}
           D == DOMAIN cs \cup {items[i].of : i \in DOMAIN items}
           t == AddItems(cs, items)
<1>1. t = [c \in D |-> [hints |-> hints(c), deflates |-> [s \in streams(c) |-> num(c, s)]]]
  BY DEF AddItems
<1>2. ASSUME NEW c \in D, NEW s \in streams(c)
      PROVE  StreamFrom(cs, items, c, s)
  <2>1. CASE s \in DOMAIN old(c).deflates
    <3>1. c \in DOMAIN cs
      <4>1. ASSUME c \notin DOMAIN cs PROVE FALSE
        <5>1. old(c).deflates = << >>
          BY <4>1
        <5> QED BY <2>1, <5>1
      <4> QED BY <4>1
    <3> QED BY <2>1, <3>1 DEF StreamFrom
  <2>2. CASE s \in UNION {items[i].streams : i \in of(c)}
    BY <2>2 DEF StreamFrom
  <2> QED BY <2>1, <2>2
<1> HIDE DEF streams, num, hints, D, t
<1>3. DOMAIN t = D /\ \A c \in D : DOMAIN t[c].deflates = streams(c)
  BY <1>1
<1> QED BY <1>2, <1>3 DEF D, t

\* Adding contents without streams adds no stream.
LEMMA AddAllIs ==
    ASSUME NEW cs, NEW S, NEW hint
    PROVE  /\ DOMAIN AddAll(cs, S, hint) = DOMAIN cs \cup S
           /\ \A c \in DOMAIN AddAll(cs, S, hint) :
                  \A s \in DOMAIN AddAll(cs, S, hint)[c].deflates :
                 c \in DOMAIN cs /\ s \in DOMAIN cs[c].deflates
<1> DEFINE items == [c \in S |-> Item(c, hint, {})]
<1>1. DOMAIN items = S /\ \A c \in S : items[c].of = c /\ items[c].streams = {}
  BY DEF Item
<1>2. AddAll(cs, S, hint) = AddItems(cs, items)
  BY DEF AddAll
<1> HIDE DEF items
<1>3. {items[c].of : c \in DOMAIN items} = S
  BY <1>1
<1>4. DOMAIN AddItems(cs, items) = DOMAIN cs \cup S
  BY <1>3, AddItemsIs
<1> DEFINE t == AddItems(cs, items)
<1>6. \A c \in DOMAIN t : \A s \in DOMAIN t[c].deflates : StreamFrom(cs, items, c, s)
  BY AddItemsIs
<1>5. \A c \in DOMAIN t : \A s \in DOMAIN t[c].deflates : c \in DOMAIN cs
          /\ s \in DOMAIN cs[c].deflates
  <2> HIDE DEF t
  <2> QED BY <1>1, <1>6 DEF StreamFrom
<1> QED BY <1>2, <1>4, <1>5

\* What a table holds once some contents left.
LEMMA WithoutIs ==
    ASSUME NEW cs, NEW S
    PROVE  /\ DOMAIN Without(cs, S) = DOMAIN cs \ S
           /\ \A c \in DOMAIN Without(cs, S) : Without(cs, S)[c] = cs[c]
BY DEF Without, Restrict

\* Chunks of a file, and those of its extents, are cuts of it.
LEMMA CutsOfExtents ==
    ASSUME NEW e \in Entry, SparseEntry(e), NEW x \in ToSet(Extents(e)), NEW c \in ToSet(x.parts)
    PROVE  \E i, j \in 0..Len(e.bytes) : Cut(e.bytes, i, j) = c
<1>1. e.bytes \in Seq(Nat) /\ Len(e.bytes) \in Nat /\ e.extents \in Seq(Nat \X Nat)
  BY EntryIs DEF Content
<1>2. PICK k \in DOMAIN e.extents : x = Extents(e)[k]
  BY DEF ToSet, Extents
<1> DEFINE a == e.extents[k][1]
           b == e.extents[k][2]
           d == Cut(e.bytes, a, b)
<1>3. a \in Nat /\ b \in Nat /\ a < b /\ b <= Len(e.bytes)
  <2> DEFINE T == Nat \X Nat
  <2>1. e.extents \in Seq(T)
    BY <1>1
  <2> HIDE DEF T
  <2>2. e.extents[k] \in T
    BY <2>1
  <2>3. e.extents[k] \in Nat \X Nat
    BY <2>2 DEF T
  <2>4. a < b /\ b <= Len(e.bytes)
    BY DEF SparseEntry
  <2> QED BY <2>3, <2>4
<1>4. x.parts = Fixed(d)
  BY <1>2 DEF Extents
<1> HIDE DEF a, b
<1>5. d \in Seq(Nat) /\ Len(d) = b - a
  <2>1. a \in Nat /\ b \in Nat
    BY <1>3
  <2>2. a <= b /\ b <= Len(e.bytes)
    BY <1>3
  <2>3. e.bytes \in Seq(Nat)
    BY <1>1
  <2> QED BY <2>1, <2>2, <2>3, CutIs
<1> HIDE DEF d
<1>6. ChunksOf(Fixed(d), d)
  BY <1>5, FixedChunks DEF Content
<1>7. Fixed(d) \in Seq(Content)
  BY <1>6 DEF ChunksOf
<1>8. PICK y \in 1..Len(Fixed(d)) : c = Fixed(d)[y]
  BY <1>4, <1>7 DEF ToSet
<1>9. PICK u, v \in 0..Len(d) : c = Cut(d, u, v)
  BY <1>6, <1>8 DEF ChunksOf
<1>10. CASE u <= v
  <2>0. e.bytes \in Seq(Nat)
    BY <1>1
  <2>1. a \in Nat /\ b \in Nat
    BY <1>3
  <2>2. a <= b /\ b <= Len(e.bytes)
    BY <1>3
  <2>3. u \in Nat /\ v \in Nat
    BY <1>5, <1>9
  <2>4. u <= v /\ v <= b - a
    BY <1>3, <1>5, <1>9, <1>10
  <2>5. Cut(Cut(e.bytes, a, b), u, v) = Cut(e.bytes, a + u, a + v)
    BY <2>0, <2>1, <2>2, <2>3, <2>4, CutOfCut
  <2>6. a + u \in 0..Len(e.bytes) /\ a + v \in 0..Len(e.bytes)
    BY <1>1, <2>1, <2>2, <2>3, <2>4
  <2> QED BY <1>9, <2>5, <2>6 DEF d
<1>11. CASE ~(u <= v)
  <2>1. u \in Nat /\ v \in Nat /\ v <= u
    BY <1>5, <1>9, <1>11
  <2>2. Cut(d, u, v) = << >>
    BY <2>1, CutNothing
  <2>3. Cut(e.bytes, 0, 0) = << >>
    BY CutNothing
  <2>4. 0 \in 0..Len(e.bytes)
    BY <1>1
  <2> QED BY <1>9, <2>2, <2>3, <2>4
<1> QED BY <1>10, <1>11

\* What a row refers to is stored by others too, unless it is the row of a whole file
\* or of a pack.
LEMMA RowStores ==
    ASSUME tree \in Trees, NEW p \in DOMAIN tree, NEW r, Stores(tree[p], r), NEW c \in RowRefs(r)
    PROVE  \/ StoredElsewhere(c)
           \/ r.tag = "blob" /\ r.of = c /\ tree[p].bytes = c
              /\ (tree[p].kind = "file" \/ (tree[p].kind = "zip" /\ ~IsCohort))
           \/ r.tag = "pack" /\ r.of = c
<1> DEFINE e == tree[p]
<1>1. e \in Entry
  BY TreeIs
<1>2. CASE /\ e.kind \in {"symlink", "file"} \/ (e.kind = "zip" /\ ~IsCohort)
           /\ r = [tag |-> "blob", of |-> e.bytes]
  <2>1. r.tag = "blob" /\ r.of = c /\ e.bytes = c
    BY <1>2 DEF RowRefs
  <2>2. CASE e.kind = "symlink"
    BY <2>1, <2>2 DEF StoredElsewhere
  <2> QED BY <1>2, <2>1, <2>2
<1>3. CASE e.kind = "hardlink" /\ r = [tag |-> "link", to |-> e.to]
  BY <1>3 DEF RowRefs
<1>4. CASE /\ e.kind = "file" /\ Len(e.bytes) > Large /\ r.tag = "cdc"
           /\ r = [tag |-> "cdc", parts |-> r.parts] /\ ChunksOf(r.parts, e.bytes)
  <2>1. c \in ToSet(r.parts)
    BY <1>4 DEF RowRefs
  <2>2. r.parts \in Seq(Content)
    BY <1>4 DEF ChunksOf
  <2>3. PICK k \in 1..Len(r.parts) : c = r.parts[k]
    BY <2>1, <2>2 DEF ToSet
  <2>4. \E i, j \in 0..Len(e.bytes) : Cut(e.bytes, i, j) = c
    BY <1>4, <2>3 DEF ChunksOf
  <2> QED BY <1>4, <2>4 DEF StoredElsewhere
<1>5. CASE e.kind = "file" /\ e.extents # << >> /\ r = [tag |-> "sparse", extents |-> Extents(e)]
  <2>1. SparseEntry(e)
    BY <1>5, TreeIs DEF Scannable
  <2>2. PICK x \in ToSet(Extents(e)) : c \in ToSet(x.parts)
    BY <1>5 DEF RowRefs
  <2> HIDE DEF e
  <2>3. \E i, j \in 0..Len(e.bytes) : Cut(e.bytes, i, j) = c
    BY <1>1, <2>1, <2>2, CutsOfExtents
  <2> QED BY <1>5, <2>3 DEF StoredElsewhere, e
<1>6. CASE e.kind \in {"file", "zip"} /\ SliceIs(r, e.bytes)
  BY <1>6 DEF SliceIs, RowRefs
<1>7. CASE e.kind = "zip" /\ ~IsCohort /\ e.gaps # << >> /\ r = [tag |-> "vzip"]
  BY <1>7 DEF RowRefs
<1> QED BY <1>2, <1>3, <1>4, <1>5, <1>6, <1>7 DEF Stores

\* So is all a recipe refers to.
LEMMA RecipeStores ==
    ASSUME NEW p \in DOMAIN tree, tree[p].kind = "zip", NEW c \in RecipeContents(Recipe(tree[p]))
    PROVE  StoredElsewhere(c)
<1> DEFINE e == tree[p]
<1>1. \/ c = FlattenSeq(e.gaps)
      \/ \E i \in DOMAIN e.members : c = e.members[i].raw
  <2> DEFINE r == Recipe(e)
  <2>1. r.skeleton = FlattenSeq(e.gaps) /\ DOMAIN r.payloads = DOMAIN e.members
        /\ \A i \in DOMAIN e.members : r.payloads[i].raw = e.members[i].raw
    BY DEF Recipe
  <2>2. c \in RecipeContents(r)
    OBVIOUS
  <2> HIDE DEF r
  <2>3. c = r.skeleton \/ \E pl \in ToSet(r.payloads) : c = pl.raw
    BY <2>2 DEF RecipeContents
  <2>4. (\E pl \in ToSet(r.payloads) : c = pl.raw)
            => \E i \in DOMAIN r.payloads : c = r.payloads[i].raw
    BY DEF ToSet
  <2> QED BY <2>1, <2>3, <2>4
<1>2. (\E i \in DOMAIN e.members : c = e.members[i].raw) => \E m \in ToSet(e.members) : m.raw = c
  BY DEF ToSet
<1> QED BY <1>1, <1>2 DEF StoredElsewhere

\* What only depends on what was scanned.
LEMMA SameTree ==
    ASSUME tree' = tree, release' = release
    PROVE  /\ Deferred' = Deferred /\ IsCohort' = IsCohort /\ CohortPack' = CohortPack
           /\ SmallFiles' = SmallFiles
           /\ \A c : /\ StoredElsewhere(c)' <=> StoredElsewhere(c)
                     /\ PackOfOthers(c)' <=> PackOfOthers(c)
                     /\ PackOfCohort(c)' <=> PackOfCohort(c)
                     /\ Lost(c)' <=> Lost(c)
<1>1. Deferred' = Deferred
  BY DEF Deferred
<1>2. IsCohort' = IsCohort
  BY <1>1 DEF IsCohort
<1>3. CohortPack' = CohortPack
  BY <1>1 DEF CohortPack, BytesOf, Bytes
<1>4. SmallFiles' = SmallFiles
  BY <1>2 DEF SmallFiles
<1>5. ASSUME NEW c PROVE StoredElsewhere(c)' <=> StoredElsewhere(c)
  BY DEF StoredElsewhere
<1>6. ASSUME NEW c PROVE PackOfOthers(c)' <=> PackOfOthers(c)
  BY <1>4 DEF PackOfOthers
<1>7. ASSUME NEW c PROVE PackOfCohort(c)' <=> PackOfCohort(c)
  BY <1>1, <1>2 DEF PackOfCohort, BytesOf, Bytes
<1>8. ASSUME NEW c PROVE Lost(c)' <=> Lost(c)
  BY <1>2, <1>3, <1>4, <1>5, <1>6, <1>7 DEF Lost
<1> QED BY <1>1, <1>2, <1>3, <1>4, <1>5, <1>6, <1>7, <1>8

\* What a build may fail over does not change either.
MayFail ==
    \/ \E p \in SmallFiles : LET c == tree[p].bytes
                            IN  StoredElsewhere(c) \/ PackOfOthers(c) \/ PackOfCohort(c)
    \/ release /\ IsCohort /\ (\/ StoredElsewhere(CohortPack)
                              \/ \E p \in DOMAIN tree : /\ tree[p].kind = "file"
                                                        /\ tree[p].bytes = CohortPack)
    \/ ~IsCohort /\ \E p \in Deferred : tree[p].gaps = << >>
    \/ release /\ IsCohort /\ \E p \in Deferred : Len(Bytes(p)) > Unit

\* FailsOnlyOver is about the tree, which no step changes.
LEMMA SameFailures ==
    ASSUME tree' = tree, release' = release, MayFail
    PROVE  FailsOnlyOver'
<1>1. /\ Deferred' = Deferred /\ IsCohort' = IsCohort /\ CohortPack' = CohortPack
      /\ SmallFiles' = SmallFiles
      /\ \A c : /\ StoredElsewhere(c)' <=> StoredElsewhere(c)
                /\ PackOfOthers(c)' <=> PackOfOthers(c)
                /\ PackOfCohort(c)' <=> PackOfCohort(c)
  BY SameTree
<1> QED BY <1>1 DEF FailsOnlyOver, MayFail, Bytes

-----------------------------------------------------------------------------
(* The candidate table, step by step.                                      *)

\* A content that recipes or rows refer to.
LEMMA TableRefsAre ==
    ASSUME NEW c
    PROVE  c \in TableRefs <=> \/ \E p \in DOMAIN rows : c \in RowRefs(rows[p])
                               \/ \E p \in DOMAIN recipes : c \in RecipeContents(recipes[p])
BY DEF TableRefs

\* TableRefs after a step.
LEMMA TableRefsAreNext ==
    ASSUME NEW c
    PROVE  c \in TableRefs' <=> \/ \E p \in DOMAIN rows' : c \in RowRefs(rows'[p])
                                \/ \E p \in DOMAIN recipes' : c \in RecipeContents(recipes'[p])
BY DEF TableRefs, RowRefs, RecipeContents

\* Without secondary streams and a dictionary a build refers to what its rows and
\* recipes do.
LEMMA RefsCover ==
    TableRefs \subseteq Refs
<1>1. ASSUME NEW p \in DOMAIN recipes
      PROVE  RecipeContents(recipes[p]) \subseteq RecipeRefs(recipes[p])
  BY DEF RecipeContents, RecipeRefs
<1> QED BY <1>1 DEF TableRefs, Refs

\* The table grows by what becomes needed, or by what a recipe that is given up leaves.
LEMMA TableGrows ==
    ASSUME TablesKept, tree' = tree, release' = release, Early, Early',
           TableRefs \subseteq TableRefs', Abandoned \subseteq Abandoned',
           DOMAIN cands \subseteq DOMAIN cands', TableRefs' \subseteq TableRefs \cup DOMAIN cands',
           DOMAIN cands' \subseteq DOMAIN cands \cup TableRefs' \cup Abandoned',
           \A p \in DOMAIN recipes : p \in DOMAIN recipes' /\ recipes'[p] = recipes[p],
           \A c \in DOMAIN cands' : \A s \in DOMAIN cands'[c].deflates :
              \/ c \in DOMAIN cands /\ s \in DOMAIN cands[c].deflates
              \/ s \in Abandoned'
              \/ \E p \in DOMAIN recipes' : HasStream(recipes'[p], c, s)
    PROVE  TablesKept'
<1>1. NoneMissing'
  <2>1. \A c \in TableRefs' : c \in DOMAIN cands' \/ Lost(c)
    BY DEF TablesKept, NoneMissing
  <2>2. \A c : Lost(c)' <=> Lost(c)
    BY SameTree
  <2> QED BY <2>1, <2>2 DEF NoneMissing
<1>2. StreamsKnown'
  <2>1. ASSUME NEW c \in DOMAIN cands', NEW s \in DOMAIN cands'[c].deflates
        PROVE  s \in Abandoned' \/ \E p \in DOMAIN recipes' : HasStream(recipes'[p], c, s)
    <3>1. CASE c \in DOMAIN cands /\ s \in DOMAIN cands[c].deflates
      <4>1. s \in Abandoned \/ \E p \in DOMAIN recipes : HasStream(recipes[p], c, s)
        BY <3>1 DEF TablesKept, StreamsKnown
      <4> QED BY <4>1
    <3> QED BY <3>1
  <2> QED BY <2>1 DEF StreamsKnown, HasStream
<1>3. NoneIdle'
  <2>1. DOMAIN cands' \subseteq TableRefs' \cup Abandoned'
    BY DEF TablesKept, NoneIdle
  <2> QED BY <2>1 DEF NoneIdle, Early
<1> QED BY <1>1, <1>2, <1>3 DEF TablesKept

\* What was given up stays so while no row of a ZIP file changes.
LEMMA AbandonedStays ==
    ASSUME tree' = tree,
           \A p \in Deferred \cap DOMAIN rows :
              ~IsCohort => p \in DOMAIN rows' /\ (rows'[p].tag = "vzip" => rows[p].tag = "vzip")
    PROVE  Abandoned \subseteq Abandoned'
<1>1. Deferred' = Deferred /\ IsCohort' = IsCohort
  BY DEF Deferred, IsCohort
<1>2. GivenUp \subseteq GivenUp'
  BY <1>1 DEF GivenUp
<1>3. Abandoned' = UNION {UNION {{m.raw, Stream(m)} : m \in ToSet(tree[p].members)} :
          p \in GivenUp'}
  BY DEF Abandoned, Stream, Deflate
<1> QED BY <1>2, <1>3 DEF Abandoned

\* A row scanned, and what it refers to in the table.
LEMMA ScannedKept ==
    ASSUME RowsInv, TablesKept, Walking, NEW storage, NEW hint, Scanned(storage, hint)
    PROVE  TablesKept'
<1> DEFINE N == RowRefs(storage)
<1>1. /\ tree' = tree /\ release' = release /\ phase' = phase /\ recipes' = recipes
      /\ rows' = Put(rows, Here, storage) /\ cands' = AddAll(cands, N, hint)
  BY DEF Scanned, scanVars
<1>2. Here \notin DOMAIN rows /\ phase = "scan"
  BY HereIs DEF RowsInv, Walking
<1>3. DOMAIN rows' = DOMAIN rows \cup {Here} /\ rows'[Here] = storage
      /\ \A p \in DOMAIN rows : rows'[p] = rows[p]
  BY <1>1, <1>2 DEF Put
<1> HIDE DEF N
<1>4. DOMAIN cands' = DOMAIN cands \cup N
  BY <1>1, AddAllIs
<1>5. \A c \in DOMAIN cands' : \A s \in DOMAIN cands'[c].deflates :
          c \in DOMAIN cands /\ s \in DOMAIN cands[c].deflates
  BY <1>1, AddAllIs
<1>6. ASSUME NEW c PROVE c \in TableRefs' <=> c \in TableRefs \/ c \in N
  <2>1. c \in TableRefs' <=> \/ \E p \in DOMAIN rows' : c \in RowRefs(rows'[p])
                             \/ \E p \in DOMAIN recipes : c \in RecipeContents(recipes[p])
    BY <1>1, TableRefsAreNext
  <2>2. (\E p \in DOMAIN rows' : c \in RowRefs(rows'[p]))
            <=> (\E p \in DOMAIN rows : c \in RowRefs(rows[p])) \/ c \in N
    BY <1>3 DEF N
  <2> QED BY <2>1, <2>2, TableRefsAre
<1>7. Abandoned \subseteq Abandoned'
  BY <1>1, <1>3, AbandonedStays
<1>8. Early /\ Early'
  BY <1>1, <1>2 DEF Early
<1> QED BY <1>1, <1>4, <1>5, <1>6, <1>7, <1>8, TableGrows

\* The walk adds to the table what its row refers to, and nothing else.
LEMMA ScanKept ==
    ASSUME RowsInv, TablesKept, ScanSymlink \/ ScanHardlink \/ ScanSparse \/ ScanFile
    PROVE  TablesKept'
<1>1. PICK storage, hint : Walking /\ Scanned(storage, hint)
  BY Zenon DEF ScanSymlink, ScanHardlink, ScanSparse, ScanFile
<1> QED BY <1>1, ScannedKept

\* So does the packing of a cohort.
LEMMA PackContainersKept ==
    ASSUME RowsInv, LocalInv, TablesKept, PackContainers
    PROVE  TablesKept'
<1> DEFINE paths == InOrder(Deferred)
           slice(p) == SliceOf(BytesOf(paths), IndexIn(paths, p))
<1>1. /\ phase = "scan" /\ IsCohort /\ phase' = "repartition"
      /\ tree' = tree /\ release' = release /\ recipes' = recipes
  BY Zenon DEF PackContainers, IsCohort, scanVars
<1>2. rows' = [p \in DOMAIN rows \cup Deferred |-> IF p \in Deferred THEN slice(p) ELSE rows[p]]
  BY Zenon DEF PackContainers
<1>3. cands' = AddAll(cands, {CohortPack}, ".container")
  BY Zenon DEF PackContainers, CohortPack
<1>4. ASSUME NEW p PROVE RowRefs(slice(p)) = {CohortPack}
  BY DEF SliceOf, RowRefs, CohortPack
<1> HIDE DEF slice
<1>5. DOMAIN rows' = DOMAIN rows \cup Deferred /\ Deferred \cap DOMAIN rows = {}
      /\ \A p \in DOMAIN rows' : rows'[p] = IF p \in Deferred THEN slice(p) ELSE rows[p]
  BY <1>1, <1>2 DEF LocalInv
<1>6. Deferred # {}
  <2>1. Cardinality({}) = 0 /\ Cohort \in Nat /\ Cohort > 1
    BY BuilderAssumption, FS_EmptySet
  <2> QED BY <1>1, <2>1 DEF IsCohort
<1>7. DOMAIN cands' = DOMAIN cands \cup {CohortPack}
  BY <1>3, AddAllIs
<1>8. \A c \in DOMAIN cands' : \A s \in DOMAIN cands'[c].deflates :
          c \in DOMAIN cands /\ s \in DOMAIN cands[c].deflates
  BY <1>3, AddAllIs
<1>9. ASSUME NEW c PROVE c \in TableRefs' <=> c \in TableRefs \/ c = CohortPack
  <2>1. c \in TableRefs' <=> \/ \E p \in DOMAIN rows' : c \in RowRefs(rows'[p])
                             \/ \E p \in DOMAIN recipes : c \in RecipeContents(recipes[p])
    BY <1>1, TableRefsAreNext
  <2>2. (\E p \in DOMAIN rows' : c \in RowRefs(rows'[p]))
            <=> (\E p \in DOMAIN rows : c \in RowRefs(rows[p])) \/ c = CohortPack
    BY <1>4, <1>5, <1>6
  <2> QED BY <2>1, <2>2, TableRefsAre
<1>10. Abandoned \subseteq Abandoned'
  BY <1>1, <1>5, AbandonedStays
<1>11. Early /\ Early'
  BY <1>1 DEF Early
<1> QED BY <1>1, <1>7, <1>8, <1>9, <1>10, <1>11, TableGrows

\* The table with the members of a recipe, as far as they can be regenerated, and a
\* content besides.
WithMembers(t, cs, ms, K, x) ==
    /\ DOMAIN t = DOMAIN cs \cup {ms[i].raw : i \in K} \cup {x}
    /\ \A c \in DOMAIN t : \A s \in DOMAIN t[c].deflates :
          \/ c \in DOMAIN cs /\ s \in DOMAIN cs[c].deflates
          \/ \E i \in K : ms[i].raw = c /\ s = Stream(ms[i]) /\ ms[i].level # Stored

\* What adding members and the skeleton, or the whole file, makes of the table.
LEMMA MembersAdded ==
    ASSUME NEW ms, NEW K \in SUBSET DOMAIN ms, NEW x, NEW hint, NEW cs
    PROVE  WithMembers(AddAll(AddItems(cs, [i \in K |-> MemberItem(ms[i])]), {x}, hint),
                       cs, ms, K, x)
<1> DEFINE items == [i \in K |-> MemberItem(ms[i])]
           a == AddItems(cs, items)
           t == AddAll(a, {x}, hint)
<1>1. DOMAIN items = K /\ \A i \in K : /\ items[i].of = ms[i].raw
                                       /\ items[i].streams = IF ms[i].level = Stored THEN {}
                                              ELSE {Stream(ms[i])}
  BY DEF MemberItem, Item
<1> HIDE DEF items
<1>2. DOMAIN a = DOMAIN cs \cup {items[i].of : i \in DOMAIN items}
  BY AddItemsIs
<1>3. \A c \in DOMAIN a : \A s \in DOMAIN a[c].deflates : StreamFrom(cs, items, c, s)
  BY AddItemsIs
<1> HIDE DEF a
<1>4. DOMAIN t = DOMAIN a \cup {x}
  BY AddAllIs
<1>5. \A c \in DOMAIN t : \A s \in DOMAIN t[c].deflates : c \in DOMAIN a
          /\ s \in DOMAIN a[c].deflates
  BY AddAllIs
<1> HIDE DEF t
<1>6. {items[i].of : i \in DOMAIN items} = {ms[i].raw : i \in K}
  <2>1. DOMAIN items = K /\ \A i \in K : items[i].of = ms[i].raw
    BY <1>1
  <2> QED BY <2>1, Zenon
<1>7. ASSUME NEW c \in DOMAIN t, NEW s \in DOMAIN t[c].deflates
      PROVE  \/ c \in DOMAIN cs /\ s \in DOMAIN cs[c].deflates
             \/ \E i \in K : ms[i].raw = c /\ s = Stream(ms[i]) /\ ms[i].level # Stored
  <2>1. StreamFrom(cs, items, c, s)
    BY <1>3, <1>5
  <2> QED BY <1>1, <2>1 DEF StreamFrom
<1> QED BY <1>2, <1>4, <1>6, <1>7 DEF WithMembers, t, a, items

\* A recipe, and the members it leads to.
LEMMA RecipeIs ==
    ASSUME NEW e
    PROVE  /\ RecipeContents(Recipe(e))
                = {e.members[i].raw : i \in DOMAIN e.members} \cup {FlattenSeq(e.gaps)}
           /\ \A i \in DOMAIN e.members : e.members[i].level # Stored =>
                 HasStream(Recipe(e), e.members[i].raw, Stream(e.members[i]))
<1> DEFINE r == Recipe(e)
<1>1. r.skeleton = FlattenSeq(e.gaps)
      /\ r.payloads = [i \in DOMAIN e.members |-> PayloadOf(e.members[i])]
  BY DEF Recipe, PayloadOf
<1>2. \A i \in DOMAIN e.members : /\ PayloadOf(e.members[i]).raw = e.members[i].raw
                                  /\ PayloadOf(e.members[i]).stream = Stream(e.members[i])
                                  /\ PayloadOf(e.members[i]).level = e.members[i].level
  BY DEF PayloadOf
<1> HIDE DEF r
<1>3. ToSet(r.payloads) = {PayloadOf(e.members[i]) : i \in DOMAIN e.members}
  BY <1>1 DEF ToSet
<1>4. RecipeContents(r) = {e.members[i].raw : i \in DOMAIN e.members} \cup {FlattenSeq(e.gaps)}
  BY <1>1, <1>2, <1>3 DEF RecipeContents
<1>5. ASSUME NEW i \in DOMAIN e.members, e.members[i].level # Stored
      PROVE  HasStream(r, e.members[i].raw, Stream(e.members[i]))
  <2>1. PayloadOf(e.members[i]) \in ToSet(r.payloads)
    BY <1>3
  <2> QED BY <1>2, <1>5, <2>1 DEF HasStream
<1> QED BY <1>4, <1>5 DEF r

\* A ZIP file whose recipe was made or given up.
LEMMA MadeKept ==
    ASSUME RowsInv, TablesKept, MakeRecipe, phase' = phase
    PROVE  TablesKept'
<1> DEFINE p == Min(Waiting)
           e == tree[p]
           ms == e.members
           known == {i \in DOMAIN ms : \A j \in 1..i : Reproducible(ms[j])}
           added == AddItems(cands, [i \in known |-> MemberItem(ms[i])])
           r == Recipe(e)
           b == [tag |-> "blob", of |-> Bytes(p)]
           v == [tag |-> "vzip"]
<1>1. /\ phase = "scan" /\ Waiting # {} /\ Cardinality(Deferred) < Cohort
      /\ tree' = tree /\ release' = release
  BY DEF MakeRecipe, scanVars
<1>2. \/ /\ known = DOMAIN ms /\ rows' = Put(rows, p, v) /\ recipes' = Put(recipes, p, r)
         /\ cands' = AddAll(added, {r.skeleton}, ".skeleton")
      \/ /\ rows' = Put(rows, p, b) /\ recipes' = recipes
         /\ cands' = AddAll(added, {Bytes(p)}, ".zip")
  <2>1. phase' # "failed"
    BY <1>1
  <2> QED BY <2>1, Zenon DEF MakeRecipe
<1>3. tree \in Trees /\ p \in Deferred /\ p \notin DOMAIN rows
  BY <1>1, WaitingIs DEF RowsInv
<1>4. ~IsCohort
  <2>1. Cardinality(Deferred) \in Nat /\ Cohort \in Nat
    BY <1>3, PathsAre, BuilderAssumption
  <2> QED BY <1>1, <2>1 DEF IsCohort
<1>5. Early /\ Early'
  BY <1>1 DEF Early
<1>6. p \notin DOMAIN recipes
  BY <1>3 DEF RowsInv, RecipesSound
<1>7. known \in SUBSET DOMAIN ms
  OBVIOUS
<1> HIDE DEF p, known
<1>8. CASE /\ known = DOMAIN ms /\ rows' = Put(rows, p, v) /\ recipes' = Put(recipes, p, r)
           /\ cands' = AddAll(added, {r.skeleton}, ".skeleton")
  <2> DEFINE x == FlattenSeq(e.gaps)
  <2>1. r.skeleton = x
    BY DEF Recipe
  <2>2. /\ DOMAIN cands' = DOMAIN cands \cup {ms[i].raw : i \in known} \cup {x}
        /\ \A c \in DOMAIN cands' : \A s \in DOMAIN cands'[c].deflates :
                 \/ c \in DOMAIN cands /\ s \in DOMAIN cands[c].deflates
                 \/ \E i \in known : ms[i].raw = c /\ s = Stream(ms[i]) /\ ms[i].level # Stored
    <3>1. cands' = AddAll(added, {x}, ".skeleton")
      BY <1>8, <2>1
    <3> HIDE DEF ms, x
    <3>2. known \in SUBSET DOMAIN ms
      BY <1>7
    <3>4. WithMembers(cands', cands, ms, known, x)
      BY <3>1, <3>2, MembersAdded
    <3> QED BY <3>4 DEF WithMembers
  <2>3. RecipeContents(r) = {ms[i].raw : i \in DOMAIN ms} \cup {x}
    <3> HIDE DEF e
    <3> QED BY RecipeIs
  <2>4. \A i \in DOMAIN ms : ms[i].level # Stored => HasStream(r, ms[i].raw, Stream(ms[i]))
    <3> HIDE DEF e
    <3> QED BY RecipeIs
  <2> HIDE DEF e, r, x, ms
  <2>5. DOMAIN rows' = DOMAIN rows \cup {p} /\ rows'[p] = v
        /\ \A q \in DOMAIN rows : rows'[q] = rows[q]
    BY <1>3, <1>8 DEF Put
  <2>6. DOMAIN recipes' = DOMAIN recipes \cup {p} /\ recipes'[p] = r
        /\ \A q \in DOMAIN recipes : recipes'[q] = recipes[q]
    BY <1>6, <1>8 DEF Put
  <2>7. ASSUME NEW c PROVE c \in TableRefs' <=> c \in TableRefs \/ c \in RecipeContents(r)
    <3>1. c \in TableRefs' <=> \/ \E q \in DOMAIN rows' : c \in RowRefs(rows'[q])
                               \/ \E q \in DOMAIN recipes' : c \in RecipeContents(recipes'[q])
      BY TableRefsAreNext
    <3>2. RowRefs(v) = {}
      BY DEF RowRefs
    <3>3. (\E q \in DOMAIN rows' : c \in RowRefs(rows'[q]))
              <=> \E q \in DOMAIN rows : c \in RowRefs(rows[q])
      BY <2>5, <3>2
    <3>4. (\E q \in DOMAIN recipes' : c \in RecipeContents(recipes'[q]))
              <=> (\E q \in DOMAIN recipes : c \in RecipeContents(recipes[q]))
                  \/ c \in RecipeContents(r)
      BY <2>6
    <3> QED BY <3>1, <3>3, <3>4, TableRefsAre
  <2>8. Abandoned \subseteq Abandoned'
    BY <1>1, <2>5, AbandonedStays
  <2>9. DOMAIN cands' = DOMAIN cands \cup RecipeContents(r)
    BY <1>8, <2>2, <2>3
  <2>10. ASSUME NEW c \in DOMAIN cands', NEW s \in DOMAIN cands'[c].deflates
         PROVE  \/ c \in DOMAIN cands /\ s \in DOMAIN cands[c].deflates
                \/ \E q \in DOMAIN recipes' : HasStream(recipes'[q], c, s)
    <3>1. CASE \E i \in known : ms[i].raw = c /\ s = Stream(ms[i]) /\ ms[i].level # Stored
      <4>1. HasStream(r, c, s)
        BY <1>7, <2>4, <3>1
      <4> QED BY <2>6, <4>1
    <3> QED BY <2>2, <3>1
  <2> QED BY <1>1, <1>5, <2>6, <2>7, <2>8, <2>9, <2>10, TableGrows
<1>9. CASE /\ rows' = Put(rows, p, b) /\ recipes' = recipes
           /\ cands' = AddAll(added, {Bytes(p)}, ".zip")
  <2> DEFINE x == Bytes(p)
  <2>2. /\ DOMAIN cands' = DOMAIN cands \cup {ms[i].raw : i \in known} \cup {x}
        /\ \A c \in DOMAIN cands' : \A s \in DOMAIN cands'[c].deflates :
                 \/ c \in DOMAIN cands /\ s \in DOMAIN cands[c].deflates
                 \/ \E i \in known : ms[i].raw = c /\ s = Stream(ms[i]) /\ ms[i].level # Stored
    <3>1. cands' = AddAll(added, {x}, ".zip")
      BY <1>9
    <3> HIDE DEF ms, x
    <3>2. known \in SUBSET DOMAIN ms
      BY <1>7
    <3>4. WithMembers(cands', cands, ms, known, x)
      BY <3>1, <3>2, MembersAdded
    <3> QED BY <3>4 DEF WithMembers
  <2>3. DOMAIN rows' = DOMAIN rows \cup {p} /\ rows'[p] = b
        /\ \A q \in DOMAIN rows : rows'[q] = rows[q]
    BY <1>3, <1>9 DEF Put
  <2>4. RowRefs(b) = {x} /\ b.tag = "blob"
    BY DEF RowRefs
  <2> HIDE DEF x, b
  <2>5. ASSUME NEW c PROVE c \in TableRefs' <=> c \in TableRefs \/ c = x
    <3>1. c \in TableRefs' <=> \/ \E q \in DOMAIN rows' : c \in RowRefs(rows'[q])
                               \/ \E q \in DOMAIN recipes : c \in RecipeContents(recipes[q])
      BY <1>9, TableRefsAreNext
    <3>3. (\E q \in DOMAIN rows' : c \in RowRefs(rows'[q]))
              <=> (\E q \in DOMAIN rows : c \in RowRefs(rows[q])) \/ c = x
      BY <2>3, <2>4
    <3> QED BY <3>1, <3>3, TableRefsAre
  <2>6. Abandoned \subseteq Abandoned'
    BY <1>1, <2>3, AbandonedStays
  <2>7. p \in GivenUp'
    <3>1. Deferred' = Deferred /\ IsCohort' = IsCohort
      BY <1>1 DEF Deferred, IsCohort
    <3> QED BY <1>3, <1>4, <2>3, <2>4, <3>1 DEF GivenUp
  <2>8. Abandoned' = UNION {UNION {{m.raw, Stream(m)} : m \in ToSet(tree[q].members)} :
            q \in GivenUp'}
    BY <1>1 DEF Abandoned, Stream, Deflate
  <2>9. \A i \in DOMAIN ms : ms[i].raw \in Abandoned' /\ Stream(ms[i]) \in Abandoned'
    <3>1. \A i \in DOMAIN ms : ms[i] \in ToSet(tree[p].members)
      BY DEF ToSet
    <3> HIDE DEF ms
    <3> QED BY <2>7, <2>8, <3>1
  <2> HIDE DEF ms
  <2>10. \A c \in DOMAIN cands' : \A s \in DOMAIN cands'[c].deflates :
            (c \in DOMAIN cands /\ s \in DOMAIN cands[c].deflates) \/ s \in Abandoned'
    BY <1>7, <2>2, <2>9
  <2>11. DOMAIN cands' \subseteq DOMAIN cands \cup TableRefs' \cup Abandoned'
    BY <1>7, <2>2, <2>5, <2>9
  <2>12. DOMAIN cands \subseteq DOMAIN cands' /\ TableRefs' \subseteq TableRefs \cup DOMAIN cands'
         /\ TableRefs \subseteq TableRefs'
    BY <2>2, <2>5
  <2>13. \A q \in DOMAIN recipes : q \in DOMAIN recipes' /\ recipes'[q] = recipes[q]
    BY <1>9
  <2> QED BY <1>1, <1>5, <2>6, <2>10, <2>11, <2>12, <2>13, TableGrows
<1> QED BY <1>2, <1>8, <1>9

\* What a build refers to, now and after a step.
LEMMA RefsAre ==
    ASSUME NEW c
    PROVE  c \in Refs <=> \/ \E p \in DOMAIN rows : c \in RowRefs(rows[p])
                          \/ \E p \in DOMAIN recipes : c \in RecipeRefs(recipes[p])
                          \/ trained /\ c = Dictionary
BY DEF Refs

\* Refs after a step.
LEMMA RefsAreNext ==
    ASSUME NEW c
    PROVE  c \in Refs' <=> \/ \E p \in DOMAIN rows' : c \in RowRefs(rows'[p])
                           \/ \E p \in DOMAIN recipes' : c \in RecipeRefs(recipes[p])'
                           \/ trained' /\ c = Dictionary
BY DEF Refs, RowRefs

\* All that rows and recipes refer to stays referred to once streams are chosen.
LEMMA RefsCoverNext ==
    TableRefs' \subseteq Refs'
<1>1. ASSUME NEW p \in DOMAIN recipes'
      PROVE  RecipeContents(recipes'[p]) \subseteq RecipeRefs(recipes[p])'
  BY DEF RecipeContents, RecipeRefs
<1>2. ASSUME NEW c \in TableRefs' PROVE c \in Refs'
  BY <1>1, RefsAreNext, TableRefsAreNext
<1> QED BY <1>2

\* Nothing that refers to contents changes.
LEMMA RefsStay ==
    ASSUME rows' = rows, recipes' = recipes, canonical' = canonical, secondary' = secondary,
           trained' = trained
    PROVE  Refs' = Refs
BY DEF Refs, RowRefs, RecipeRefs, Mode

\* The table and what it is for stay as they are.
LEMMA SameTables ==
    ASSUME TablesKept, tree' = tree, release' = release, rows' = rows, recipes' = recipes,
           cands' = cands, Early' => Early,
           phase' \in {"train", "encode", "map", "built"} =>
              phase \in {"train", "encode", "map", "built"} /\ Refs' = Refs
    PROVE  TablesKept'
<1>1. TableRefs' = TableRefs
  BY DEF TableRefs, RowRefs, RecipeContents
<1>2. Abandoned \subseteq Abandoned'
  BY AbandonedStays
<1>3. NoneMissing'
  <2>1. \A c : Lost(c)' <=> Lost(c)
    BY SameTree
  <2>2. \A c \in TableRefs' : c \in DOMAIN cands' \/ Lost(c)
    BY <1>1 DEF TablesKept, NoneMissing
  <2> QED BY <2>1, <2>2 DEF NoneMissing
<1>4. StreamsKnown'
  <2>1. \A c \in DOMAIN cands' : \A s \in DOMAIN cands'[c].deflates :
            s \in Abandoned' \/ \E p \in DOMAIN recipes' : HasStream(recipes'[p], c, s)
    BY <1>2 DEF TablesKept, StreamsKnown
  <2> QED BY <2>1 DEF StreamsKnown, HasStream
<1>5. NoneIdle'
  <2>1. Early' => DOMAIN cands' \subseteq TableRefs' \cup Abandoned'
    BY <1>1, <1>2 DEF TablesKept, NoneIdle
  <2>2. phase' \in {"train", "encode", "map", "built"}
            => DOMAIN cands' \subseteq Refs' \cup Abandoned'
    BY <1>2 DEF TablesKept, NoneIdle
  <2> QED BY <2>1, <2>2 DEF NoneIdle
<1> QED BY <1>3, <1>4, <1>5 DEF TablesKept

\* Of a cohort no recipes are made.
LEMMA NoRecipes ==
    ASSUME RowsInv, IsCohort
    PROVE  DOMAIN recipes = {}
<1>1. \A p \in DOMAIN rows : rows[p].tag # "vzip"
  BY DEF RowsInv, RowsSound, Stores, SliceIs
<1> QED BY <1>1 DEF RowsInv, RecipesSound

\* The groups a cohort is divided into hold each container once.
LEMMA GroupsOfCohort ==
    ASSUME tree \in Trees, NEW gs, Divided(gs)
    PROVE  \A i, j \in 1..Len(gs) : i # j => ToSet(gs[i]) \cap ToSet(gs[j]) = {}
<1> DEFINE D == Deferred
<1>1. gs \in Seq(Seq(D))
  BY DEF Divided
<1>2. PICK w \in Orders(Deferred) : FlattenSeq(gs) = w
  BY DEF Divided, GroupsOf
<1>3. \A x, y \in 1..Len(w) : w[x] = w[y] => x = y
  BY OrdersAre
<1> HIDE DEF D
<1> QED BY <1>1, <1>2, <1>3, PartsApart

\* The pack of a cohort is split in these groups.
PackOf(gs, i) == FlattenSeq(BytesOf(gs[i]))

\* The contents of the split packs.
PacksOf(gs) == {PackOf(gs, i) : i \in 1..Len(gs)}

\* A split: the containers read from new packs, the old one has left the table.
Split(gs) ==
    /\ release /\ IsCohort /\ Divided(gs)
    /\ DOMAIN rows' = DOMAIN rows /\ Deferred \subseteq DOMAIN rows
    /\ \A p \in Deferred : \E i \in 1..Len(gs) :
          p \in ToSet(gs[i]) /\ rows'[p].tag = "pack" /\ rows'[p].of = PackOf(gs, i)
    /\ \A p \in DOMAIN rows \ Deferred : rows'[p] = rows[p]
    /\ cands' = Without(AddAll(cands, PacksOf(gs), ".container"), {CohortPack} \ PacksOf(gs))

\* Repartition splits, fails, or finds nothing to do.
LEMMA SplitIs ==
    ASSUME RowsInv, LocalInv, Repartition
    PROVE  /\ phase = "repartition" /\ tree' = tree /\ release' = release /\ recipes' = recipes
           /\ UNCHANGED planVars
           /\ \/ phase' \in {"micro", "failed"} /\ rows' = rows /\ cands' = cands
              \/ phase' = "micro" /\ \E gs : Split(gs)
<1>0. PICK paths \in Orders(Deferred) : SplitPack(paths)
  BY DEF Repartition
<1> DEFINE fits == {g \in Runs(paths) : Fits(BytesOf(g))}
           gs == Grouped(paths, fits)
           packs == {FlattenSeq(BytesOf(gs[i])) : i \in DOMAIN gs}
           group(x) == gs[CHOOSE i \in DOMAIN gs : x \in ToSet(gs[i])]
           slice(x) == SliceOf(BytesOf(group(x)), IndexIn(group(x), x))
           split == rows' = [x \in DOMAIN rows |-> IF x \in Deferred THEN slice(x) ELSE rows[x]]
           table == cands' = Without(AddAll(cands, packs, ".container"),
               {FlattenSeq(BytesOf(InOrder(Deferred)))} \ packs)
<1>1. /\ phase = "repartition" /\ UNCHANGED scanVars /\ UNCHANGED planVars
  BY Zenon DEF Repartition
<1>2. \/ phase' \in {"micro", "failed"} /\ UNCHANGED tableVars
      \/ /\ ~(~release \/ Cardinality(Deferred) < Cohort \/ Len(gs) = 1)
         /\ phase' = "micro" /\ split /\ table /\ recipes' = recipes
  BY <1>0, Zenon DEF SplitPack
<1>3. tree \in Trees
  BY DEF RowsInv
<1>4. Divided(gs)
  BY <1>3, DividedIs
<1>5. CASE phase' \in {"micro", "failed"} /\ UNCHANGED tableVars
  BY <1>1, <1>5 DEF scanVars, tableVars
<1>6. CASE /\ ~(~release \/ Cardinality(Deferred) < Cohort \/ Len(gs) = 1)
           /\ phase' = "micro" /\ split /\ table /\ recipes' = recipes
  <2>1. release /\ IsCohort
    <3>1. Cardinality(Deferred) \in Nat /\ Cohort \in Nat
      BY <1>3, PathsAre, BuilderAssumption
    <3> HIDE DEF split, table, gs
    <3> QED BY <1>6, <3>1 DEF IsCohort
  <2> HIDE DEF gs
  <2> DEFINE T == Seq(Deferred)
  <2>2. DOMAIN gs = 1..Len(gs) /\ \A p \in Deferred : \E i \in 1..Len(gs) : p \in ToSet(gs[i])
    <3>1. gs \in Seq(T) /\ \A p \in Deferred : \E i \in 1..Len(gs) : p \in ToSet(gs[i])
      BY <1>4 DEF Divided
    <3> HIDE DEF T
    <3> QED BY <3>1
  <2>3. ASSUME NEW p \in Deferred
        PROVE  \E i \in 1..Len(gs) : p \in ToSet(gs[i]) /\ slice(p).tag = "pack"
               /\ slice(p).of = PackOf(gs, i)
    <3> DEFINE i == CHOOSE i \in DOMAIN gs : p \in ToSet(gs[i])
    <3>1. i \in DOMAIN gs /\ p \in ToSet(gs[i])
      BY <2>2
    <3>2. slice(p) = SliceOf(BytesOf(gs[i]), IndexIn(gs[i], p))
      OBVIOUS
    <3> HIDE DEF i, slice
    <3>3. slice(p).tag = "pack" /\ slice(p).of = PackOf(gs, i)
      BY <3>2 DEF SliceOf, PackOf
    <3> QED BY <2>2, <3>1, <3>3
  <2>4. packs = PacksOf(gs)
    BY <2>2 DEF PacksOf, PackOf
  <2> HIDE DEF packs
  <2>5. cands' = Without(AddAll(cands, PacksOf(gs), ".container"), {CohortPack} \ PacksOf(gs))
    BY <1>6, <2>4 DEF CohortPack
  <2> HIDE DEF slice
  <2>6. DOMAIN rows' = DOMAIN rows /\ \A p \in DOMAIN rows :
            rows'[p] = IF p \in Deferred THEN slice(p) ELSE rows[p]
    BY <1>6
  <2>7. Deferred \subseteq DOMAIN rows
    BY <1>1, <2>1 DEF LocalInv
  <2>8. \A p \in Deferred : \E i \in 1..Len(gs) :
          p \in ToSet(gs[i]) /\ rows'[p].tag = "pack" /\ rows'[p].of = PackOf(gs, i)
    BY <2>3, <2>6, <2>7
  <2>9. Split(gs)
    BY <1>4, <2>1, <2>5, <2>6, <2>7, <2>8 DEF Split
  <2> QED BY <1>1, <1>6, <2>9 DEF scanVars
<1> QED BY <1>2, <1>5, <1>6

\* The packs take the place of the one they split.
LEMMA SplitKept ==
    ASSUME RowsInv, LocalInv, PacksKnown, TablesKept, tree' = tree, release' = release,
           recipes' = recipes, phase = "repartition", phase' = "micro", NEW gs, Split(gs)
    PROVE  TablesKept'
<1>1. /\ release /\ IsCohort /\ Divided(gs)
      /\ DOMAIN rows' = DOMAIN rows /\ Deferred \subseteq DOMAIN rows
      /\ \A p \in DOMAIN rows \ Deferred : rows'[p] = rows[p]
  BY DEF Split
<1>2. \A p \in Deferred : \E i \in 1..Len(gs) :
          p \in ToSet(gs[i]) /\ rows'[p].tag = "pack" /\ rows'[p].of = PackOf(gs, i)
  BY DEF Split
<1>3. DOMAIN recipes = {} /\ tree \in Trees
  BY <1>1, NoRecipes DEF RowsInv
<1> DEFINE packs == PacksOf(gs)
           added == AddAll(cands, packs, ".container")
           gone == {CohortPack} \ packs
<1>4. cands' = Without(added, gone)
  BY DEF Split
<1>5. DOMAIN added = DOMAIN cands \cup packs
      /\ \A c \in DOMAIN added : \A s \in DOMAIN added[c].deflates : c \in DOMAIN cands
             /\ s \in DOMAIN cands[c].deflates
  <2>1. DOMAIN added = DOMAIN cands \cup packs
    BY AddAllIs
  <2>2. \A c \in DOMAIN added : \A s \in DOMAIN added[c].deflates : c \in DOMAIN cands
            /\ s \in DOMAIN cands[c].deflates
    BY AddAllIs
  <2> QED BY <2>1, <2>2
<1> HIDE DEF packs, added
<1>6. DOMAIN cands' = DOMAIN added \ gone /\ \A c \in DOMAIN cands' : cands'[c] = added[c]
  <2>1. DOMAIN Without(added, gone) = DOMAIN added \ gone
    <3> HIDE DEF gone
    <3> QED BY WithoutIs
  <2>2. \A c \in DOMAIN Without(added, gone) : Without(added, gone)[c] = added[c]
    <3> HIDE DEF gone
    <3> QED BY WithoutIs
  <2> QED BY <1>4, <2>1, <2>2
<1> HIDE DEF gone
<1>7. gone = {CohortPack} \ packs
  BY DEF gone
<1>8. \A p \in Deferred : rows[p].tag = "pack" /\ rows[p].of = CohortPack
  <2>1. \A p \in Deferred : rows[p].of = CohortPack
    BY <1>1 DEF LocalInv
  <2>2. \A p \in Deferred : Stores(tree[p], rows[p]) /\ tree[p].kind = "zip"
    BY <1>1 DEF RowsInv, RowsSound, Deferred
  <2>3. \A p \in Deferred : rows[p].tag = "pack"
    BY <1>1, <2>2 DEF Stores, SliceIs
  <2> QED BY <2>1, <2>3
<1>9. ASSUME NEW r, r.tag = "pack" PROVE RowRefs(r) = {r.of}
  BY <1>9 DEF RowRefs
<1>10. Abandoned \subseteq Abandoned'
  BY <1>1, AbandonedStays
<1>11. NoneMissing'
  <2>1. ASSUME NEW c \in TableRefs' PROVE c \in DOMAIN cands' \/ Lost(c)
    <3>1. PICK p \in DOMAIN rows' : c \in RowRefs(rows'[p])
      BY <1>3, <2>1, TableRefsAreNext
    <3>2. CASE p \in Deferred
      <4>1. \E i \in 1..Len(gs) : rows'[p].tag = "pack" /\ rows'[p].of = PackOf(gs, i)
        BY <1>2, <3>2
      <4>2. c \in packs
        BY <1>9, <3>1, <4>1 DEF packs, PacksOf
      <4> QED BY <1>5, <1>6, <1>7, <4>2
    <3>3. CASE p \notin Deferred
      <4>1. p \in DOMAIN rows /\ c \in RowRefs(rows[p])
        BY <1>1, <3>1, <3>3
      <4>2. c \in DOMAIN cands \/ Lost(c)
        BY <4>1, TableRefsAre DEF TablesKept, NoneMissing
      <4>3. CASE c \in DOMAIN cands /\ c \in gone
        <5>1. c = CohortPack
          BY <1>7, <4>3
        <5>2. p \in DOMAIN tree /\ Stores(tree[p], rows[p])
          BY <4>1 DEF RowsInv, RowsSound
        <5>3. \/ StoredElsewhere(c)
              \/ rows[p].tag = "blob" /\ tree[p].bytes = c /\ tree[p].kind = "file"
              \/ rows[p].tag = "pack" /\ rows[p].of = c
          BY <1>1, <1>3, <4>1, <5>2, RowStores
        <5>4. rows[p].tag # "pack"
          BY <3>3, <4>1 DEF PacksKnown
        <5> QED BY <1>1, <5>1, <5>2, <5>3, <5>4 DEF Lost
      <4> QED BY <1>5, <1>6, <4>2, <4>3
    <3> QED BY <3>2, <3>3
  <2>2. \A c : Lost(c)' <=> Lost(c)
    BY SameTree
  <2> QED BY <2>1, <2>2 DEF NoneMissing
<1>12. StreamsKnown'
  <2>1. ASSUME NEW c \in DOMAIN cands', NEW s \in DOMAIN cands'[c].deflates
        PROVE  s \in Abandoned' \/ \E p \in DOMAIN recipes' : HasStream(recipes'[p], c, s)
    <3>1. c \in DOMAIN cands /\ s \in DOMAIN cands[c].deflates
      BY <1>5, <1>6
    <3> QED BY <1>10, <3>1 DEF TablesKept, StreamsKnown
  <2> QED BY <2>1 DEF StreamsKnown, HasStream
<1>13. NoneIdle'
  <2>1. ASSUME NEW c \in DOMAIN cands' PROVE c \in TableRefs' \cup Abandoned'
    <3>1. CASE c \in packs
      <4>1. PICK i \in 1..Len(gs) : c = PackOf(gs, i)
        BY <3>1 DEF packs, PacksOf
      <4>2. PICK p \in Deferred : p \in ToSet(gs[i])
        <5> DEFINE D == Deferred
                   T == Seq(D)
        <5>1. gs[i] \in Seq(D) /\ gs[i] # << >>
          <6>1. gs \in Seq(T) /\ gs[i] # << >>
            BY <1>1 DEF Divided, GroupsOf
          <6> HIDE DEF T
          <6>2. gs[i] \in T
            BY <6>1
          <6> QED BY <6>1, <6>2 DEF T
        <5> HIDE DEF D
        <5>2. gs[i][1] \in D /\ 1 \in DOMAIN gs[i]
          BY <5>1
        <5> QED BY <5>2 DEF D, ToSet
      <4>3. PICK j \in 1..Len(gs) : p \in ToSet(gs[j]) /\ rows'[p].tag = "pack"
                 /\ rows'[p].of = PackOf(gs, j)
        BY <1>2
      <4>4. i = j
        BY <1>1, <1>3, <4>2, <4>3, GroupsOfCohort
      <4>5. c \in RowRefs(rows'[p]) /\ p \in DOMAIN rows'
        BY <1>1, <1>9, <4>1, <4>3, <4>4
      <4> QED BY <4>5, TableRefsAreNext
    <3>2. CASE c \notin packs
      <4>1. c \in DOMAIN cands /\ c # CohortPack
        BY <1>5, <1>6, <1>7, <3>2
      <4>2. c \in TableRefs \/ c \in Abandoned
        BY <4>1 DEF TablesKept, NoneIdle, Early
      <4>3. CASE c \in TableRefs
        <5>1. PICK p \in DOMAIN rows : c \in RowRefs(rows[p])
          BY <1>3, <4>3, TableRefsAre
        <5>2. p \notin Deferred
          BY <1>8, <1>9, <4>1, <5>1
        <5>3. p \in DOMAIN rows' /\ c \in RowRefs(rows'[p])
          BY <1>1, <5>1, <5>2
        <5> QED BY <5>3, TableRefsAreNext
      <4> QED BY <1>10, <4>2, <4>3
    <3> QED BY <3>1, <3>2
  <2> QED BY <2>1 DEF NoneIdle
<1> QED BY <1>11, <1>12, <1>13 DEF TablesKept

\* The row of a small file that waits to be packed.
WaitsWith(q, c) == q \in DOMAIN rows /\ Direct(q) /\ rows[q].of = c

\* A content that waits in a pack is that of a small file whose row waits with it.
LEMMA InGroupIs ==
    ASSUME RowsInv, GroupsApart, NEW i \in DOMAIN groups, NEW c \in ToSet(groups[i])
    PROVE  \E q \in SmallFiles : tree[q].bytes = c /\ WaitsWith(q, c)
<1>1. c \in Small /\ Len(c) <= MicroMax
  BY DEF GroupsApart
<1>2. PICK q \in DOMAIN rows : Direct(q) /\ rows[q].of = c
  BY <1>1 DEF Small
<1>3. q \in DOMAIN tree /\ rows[q].of = tree[q].bytes
      /\ (tree[q].kind = "file" \/ (tree[q].kind = "zip" /\ ~IsCohort))
  BY <1>2, DirectIs
<1> QED BY <1>1, <1>2, <1>3 DEF SmallFiles, WaitsWith

\* A micro-pack takes the place of its members.
FlushesTo(g) ==
    /\ groups # << >> /\ g = groups[1] /\ 1 \in DOMAIN groups /\ g \in Seq(Content) /\ g # << >>
    /\ rows' = Flushed(g)
    /\ DOMAIN cands' = (DOMAIN cands \cup {FlattenSeq(g)}) \ (ToSet(g) \ {FlattenSeq(g)})
    /\ \A c \in DOMAIN cands' : \A s \in DOMAIN cands'[c].deflates :
          c \in DOMAIN cands /\ s \in DOMAIN cands[c].deflates

\* What writing the first pack does to the rows of its files.
LEMMA FlushedTo ==
    ASSUME RowsInv, GroupsApart, FlushMicroPack
    PROVE  FlushesTo(Head(groups))
<1> DEFINE g == Head(groups)
           w == FlattenSeq(g)
           added == AddAll(cands, {w}, ".pack")
           gone == ToSet(g) \ {w}
           T == Seq(Content)
<1>1. /\ groups # << >> /\ g \in Seq(Content) /\ rows' = Flushed(g)
  BY FlushIs DEF RowsInv
<1>2. g = groups[1] /\ 1 \in DOMAIN groups
  <2>1. groups \in Seq(T)
    BY DEF RowsInv, GroupsTyped
  <2> HIDE DEF T
  <2> QED BY <1>1, <2>1
<1>3. g # << >>
  BY <1>2 DEF GroupsApart
<1>4. cands' = Without(added, gone)
  BY Zenon DEF FlushMicroPack, Packed
<1>5. DOMAIN added = DOMAIN cands \cup {w}
  BY AddAllIs
<1>6. \A c \in DOMAIN added : \A s \in DOMAIN added[c].deflates : c \in DOMAIN cands
          /\ s \in DOMAIN cands[c].deflates
  BY AddAllIs
<1> HIDE DEF added, gone
<1>7. DOMAIN Without(added, gone) = DOMAIN added \ gone
  BY WithoutIs
<1>8. \A c \in DOMAIN Without(added, gone) : Without(added, gone)[c] = added[c]
  BY WithoutIs
<1>9. DOMAIN cands' = (DOMAIN cands \cup {w}) \ (ToSet(g) \ {w})
  BY <1>4, <1>5, <1>7 DEF gone
<1>10. \A c \in DOMAIN cands' : \A s \in DOMAIN cands'[c].deflates :
          c \in DOMAIN cands /\ s \in DOMAIN cands[c].deflates
  BY <1>4, <1>6, <1>7, <1>8
<1> QED BY <1>1, <1>2, <1>3, <1>9, <1>10 DEF FlushesTo

\* Writing a micro-pack removes nothing still referred to, or the failure is explained.
LEMMA FlushKept ==
    ASSUME RowsInv, GroupsApart, PacksKnown, TablesKept, FlushMicroPack
    PROVE  TablesKept'
<1> DEFINE g == Head(groups)
           w == FlattenSeq(g)
           out(p) == Direct(p) /\ rows[p].of \in ToSet(g)
           slice(p) == SliceOf(g, IndexIn(g, rows[p].of))
<1>1. /\ phase = "flush" /\ phase' = "flush" /\ tree' = tree /\ release' = release
      /\ recipes' = recipes
  BY FlushIs DEF RowsInv
<1>2. FlushesTo(g)
  BY FlushedTo
<1>3. rows' = [p \in DOMAIN rows |-> IF out(p) THEN slice(p) ELSE rows[p]]
  BY <1>2 DEF FlushesTo, Flushed
<1>4. /\ g = groups[1] /\ 1 \in DOMAIN groups /\ g \in Seq(Content) /\ g # << >>
      /\ DOMAIN cands' = (DOMAIN cands \cup {w}) \ (ToSet(g) \ {w})
      /\ \A c \in DOMAIN cands' : \A s \in DOMAIN cands'[c].deflates :
            c \in DOMAIN cands /\ s \in DOMAIN cands[c].deflates
  BY <1>2 DEF FlushesTo
<1>5. \A p \in DOMAIN rows : slice(p).tag = "pack" /\ RowRefs(slice(p)) = {w}
  BY DEF SliceOf, RowRefs
<1>6. \A p \in DOMAIN rows : out(p) => RowRefs(rows[p]) = {rows[p].of}
  BY DEF RowRefs, Direct
<1> HIDE DEF slice, w
<1>7. DOMAIN rows' = DOMAIN rows
      /\ \A p \in DOMAIN rows : rows'[p] = IF out(p) THEN slice(p) ELSE rows[p]
  BY <1>3
<1>8. Abandoned \subseteq Abandoned'
  <2>1. \A p \in Deferred \cap DOMAIN rows :
              ~IsCohort => p \in DOMAIN rows' /\ (rows'[p].tag = "vzip" => rows[p].tag = "vzip")
    <3> HIDE DEF out
    <3> QED BY <1>5, <1>7
  <2> QED BY <1>1, <2>1, AbandonedStays
<1>9. tree \in Trees
  BY DEF RowsInv
<1>10. NoneMissing'
  <2>1. ASSUME NEW c \in TableRefs', c # w, c \in ToSet(g) PROVE Lost(c)
    <3>1. PICK q \in SmallFiles : tree[q].bytes = c
      BY <1>4, <2>1, InGroupIs
    <3>2. StoredElsewhere(c) \/ PackOfOthers(c) \/ PackOfCohort(c)
      <4>1. CASE \E p \in DOMAIN rows' : c \in RowRefs(rows'[p])
        <5>1. PICK p \in DOMAIN rows : c \in RowRefs(rows'[p])
          BY <1>7, <4>1
        <5>2. ~out(p) /\ c \in RowRefs(rows[p])
          <6> HIDE DEF out
          <6> QED BY <1>5, <1>7, <2>1, <5>1
        <5>3. p \in DOMAIN tree /\ Stores(tree[p], rows[p])
          BY DEF RowsInv, RowsSound
        <5>4. \/ StoredElsewhere(c)
              \/ rows[p].tag = "blob" /\ rows[p].of = c /\ tree[p].bytes = c
                 /\ (tree[p].kind = "file" \/ (tree[p].kind = "zip" /\ ~IsCohort))
              \/ rows[p].tag = "pack" /\ rows[p].of = c
          BY <1>9, <5>2, <5>3, RowStores
        <5>5. ~(/\ rows[p].tag = "blob" /\ rows[p].of = c /\ tree[p].bytes = c
                /\ (tree[p].kind = "file" \/ (tree[p].kind = "zip" /\ ~IsCohort)))
          BY <2>1, <5>2 DEF Direct
        <5>6. CASE rows[p].tag = "pack" /\ rows[p].of = c
          <6>1. CASE p \in Deferred /\ IsCohort
            BY <5>6, <6>1 DEF PacksKnown
          <6>2. CASE ~(p \in Deferred /\ IsCohort)
            BY <1>4, <2>1, <5>6, <6>2 DEF PacksKnown
          <6> QED BY <6>1, <6>2
        <5> QED BY <5>4, <5>5, <5>6
      <4>2. CASE \E p \in DOMAIN recipes' : c \in RecipeContents(recipes'[p])
        <5>1. PICK p \in DOMAIN recipes : c \in RecipeContents(recipes[p])
          BY <1>1, <4>2
        <5>2. recipes[p] = Recipe(tree[p]) /\ p \in DOMAIN rows /\ rows[p].tag = "vzip"
          BY DEF RowsInv, RecipesSound
        <5>3. p \in DOMAIN tree /\ Stores(tree[p], rows[p])
          BY <5>2 DEF RowsInv, RowsSound
        <5>4. tree[p].kind = "zip"
          BY <5>2, <5>3 DEF Stores, SliceIs
        <5> QED BY <5>1, <5>2, <5>3, <5>4, RecipeStores
      <4> QED BY <2>1, <4>1, <4>2, TableRefsAreNext
    <3> QED BY <3>1, <3>2 DEF Lost
  <2>2. ASSUME NEW c \in TableRefs', c \notin TableRefs PROVE c = w
    <3>1. \/ \E p \in DOMAIN rows' : c \in RowRefs(rows'[p])
          \/ \E p \in DOMAIN recipes : c \in RecipeContents(recipes[p])
      BY <1>1, <2>2, TableRefsAreNext
    <3>2. ~(\E p \in DOMAIN rows : c \in RowRefs(rows[p])) /\ ~ \E p \in DOMAIN recipes :
              c \in RecipeContents(recipes[p])
      BY <2>2, TableRefsAre
    <3> HIDE DEF out
    <3> QED BY <1>5, <1>7, <3>1, <3>2
  <2>3. ASSUME NEW c \in TableRefs' PROVE c \in DOMAIN cands' \/ Lost(c)
    <3>1. CASE c = w
      BY <1>4, <3>1
    <3>2. CASE c # w
      <4>1. c \in DOMAIN cands \/ Lost(c)
        BY <2>2, <2>3, <3>2 DEF TablesKept, NoneMissing
      <4> QED BY <1>4, <2>1, <2>3, <3>2, <4>1
    <3> QED BY <3>1, <3>2
  <2>4. \A c : Lost(c)' <=> Lost(c)
    BY <1>1, SameTree
  <2> QED BY <2>3, <2>4 DEF NoneMissing
<1>11. StreamsKnown'
  <2>1. ASSUME NEW c \in DOMAIN cands', NEW s \in DOMAIN cands'[c].deflates
        PROVE  s \in Abandoned' \/ \E p \in DOMAIN recipes' : HasStream(recipes'[p], c, s)
    <3>1. c \in DOMAIN cands /\ s \in DOMAIN cands[c].deflates
      BY <1>4
    <3> QED BY <1>1, <1>8, <3>1 DEF TablesKept, StreamsKnown
  <2> QED BY <2>1 DEF StreamsKnown, HasStream
<1>12. NoneIdle'
  <2>1. ASSUME NEW c \in DOMAIN cands' PROVE c \in TableRefs' \cup Abandoned'
    <3>1. CASE c = w
      <4>1. g[1] \in ToSet(groups[1])
        <5> DEFINE T == Content
        <5>1. g \in Seq(T) /\ g # << >> /\ g = groups[1]
          BY <1>4
        <5> HIDE DEF T, g
        <5> QED BY <5>1 DEF ToSet
      <4>2. PICK q \in SmallFiles : WaitsWith(q, g[1])
        BY <1>4, <4>1, InGroupIs
      <4>3. q \in DOMAIN rows /\ out(q)
        BY <1>4, <4>1, <4>2 DEF WaitsWith
      <4>4. c \in RowRefs(rows'[q]) /\ q \in DOMAIN rows'
        BY <1>5, <1>7, <3>1, <4>3
      <4> QED BY <4>4, TableRefsAreNext
    <3>2. CASE c # w
      <4>1. c \in DOMAIN cands /\ c \notin ToSet(g)
        BY <1>4, <2>1, <3>2
      <4>2. c \in TableRefs \/ c \in Abandoned
        BY <1>1, <4>1 DEF TablesKept, NoneIdle, Early
      <4>3. CASE c \in TableRefs
        <5>1. CASE \E p \in DOMAIN rows : c \in RowRefs(rows[p])
          <6>1. PICK p \in DOMAIN rows : c \in RowRefs(rows[p])
            BY <5>1
          <6>2. ~out(p)
            BY <1>6, <4>1, <6>1
          <6>3. p \in DOMAIN rows' /\ c \in RowRefs(rows'[p])
            <7> HIDE DEF out
            <7> QED BY <1>7, <6>1, <6>2
          <6> QED BY <6>3, TableRefsAreNext
        <5>2. CASE \E p \in DOMAIN recipes : c \in RecipeContents(recipes[p])
          BY <1>1, <5>2, TableRefsAreNext
        <5> QED BY <4>3, <5>1, <5>2, TableRefsAre
      <4> QED BY <1>8, <4>2, <4>3
    <3> QED BY <3>1, <3>2
  <2> QED BY <1>1, <2>1 DEF NoneIdle
<1> QED BY <1>10, <1>11, <1>12 DEF TablesKept

\* The streams that are chosen, and those kept besides.
Preferred(d) ==
    CHOOSE s \in DOMAIN d : \A t \in DOMAIN d : d[s] > d[t] \/ (d[s] = d[t] /\ Len(s) <= Len(t))

\* What choosing streams does.
LEMMA PreparedIs ==
    ASSUME PrepareDeflateReuse
    PROVE  /\ phase = "flush" /\ phase' = "train" /\ tree' = tree /\ release' = release
           /\ rows' = rows /\ recipes' = recipes /\ groups' = groups /\ groups = << >>
           /\ trained' = trained
           /\ \A c \in DOMAIN canonical' : canonical'[c] = Preferred(cands[c].deflates)
           /\ \A s \in secondary' : \E c \in DOMAIN cands :
                 s \in DOMAIN cands[c].deflates /\ s # Preferred(cands[c].deflates)
           /\ cands' = AddAll(cands, secondary', ".opaque-deflate")
<1> DEFINE zipped == {c \in DOMAIN cands : cands[c].deflates # << >>}
           others == UNION {DOMAIN cands[c].deflates \ {Preferred(cands[c].deflates)} :
               c \in zipped}
<1>1. /\ phase = "flush" /\ phase' = "train" /\ UNCHANGED scanVars
      /\ rows' = rows /\ recipes' = recipes /\ groups' = groups /\ groups = << >>
      /\ trained' = trained
  BY Zenon DEF PrepareDeflateReuse
<1>2. cands' = AddAll(cands, secondary', ".opaque-deflate")
  BY Zenon DEF PrepareDeflateReuse
<1>3. canonical' = [c \in {c \in zipped : Len(Preferred(cands[c].deflates)) >= ReuseMin}
                               |-> Preferred(cands[c].deflates)]
  BY Zenon DEF PrepareDeflateReuse, Preferred
<1>4. secondary' = {s \in others : Len(s) >= ReuseMin}
  BY Zenon DEF PrepareDeflateReuse, Preferred
<1>5. \A c \in DOMAIN canonical' : canonical'[c] = Preferred(cands[c].deflates)
  BY <1>3
<1>6. \A s \in others : \E c \in DOMAIN cands :
                 s \in DOMAIN cands[c].deflates /\ s # Preferred(cands[c].deflates)
  OBVIOUS
<1> HIDE DEF others
<1>7. \A s \in secondary' : s \in others
  BY <1>4
<1> QED BY <1>1, <1>2, <1>5, <1>6, <1>7 DEF scanVars

\* Retained streams are referred to by a recipe, or were abandoned.
LEMMA PrepareKept ==
    ASSUME TablesKept, PrepareDeflateReuse
    PROVE  TablesKept'
<1>1. /\ phase = "flush" /\ phase' = "train" /\ tree' = tree /\ release' = release
      /\ rows' = rows /\ recipes' = recipes
  BY PreparedIs
<1>2. \A c \in DOMAIN canonical' : canonical'[c] = Preferred(cands[c].deflates)
  BY PreparedIs
<1>3. \A s \in secondary' : \E c \in DOMAIN cands :
          s \in DOMAIN cands[c].deflates /\ s # Preferred(cands[c].deflates)
  BY PreparedIs
<1>4. cands' = AddAll(cands, secondary', ".opaque-deflate")
  BY PreparedIs
<1>5. DOMAIN cands' = DOMAIN cands \cup secondary'
  BY <1>4, AddAllIs
<1>6. \A c \in DOMAIN cands' : \A s \in DOMAIN cands'[c].deflates : c \in DOMAIN cands
          /\ s \in DOMAIN cands[c].deflates
  BY <1>4, AddAllIs
<1>7. TableRefs' = TableRefs
  BY <1>1 DEF TableRefs, RowRefs, RecipeContents
<1>8. Abandoned \subseteq Abandoned'
  BY <1>1, AbandonedStays
<1>9. NoneMissing'
  <2>1. \A c : Lost(c)' <=> Lost(c)
    BY <1>1, SameTree
  <2>2. \A c \in TableRefs' : c \in DOMAIN cands' \/ Lost(c)
    BY <1>5, <1>7 DEF TablesKept, NoneMissing
  <2> QED BY <2>1, <2>2 DEF NoneMissing
<1>10. StreamsKnown'
  <2>1. \A c \in DOMAIN cands' : \A s \in DOMAIN cands'[c].deflates :
            s \in Abandoned' \/ \E p \in DOMAIN recipes' : HasStream(recipes'[p], c, s)
    BY <1>1, <1>6, <1>8 DEF TablesKept, StreamsKnown
  <2> QED BY <2>1 DEF StreamsKnown, HasStream
<1>11. ASSUME NEW s \in secondary' PROVE s \in Refs' \cup Abandoned'
  <2>1. PICK c \in DOMAIN cands : s \in DOMAIN cands[c].deflates /\ s # Preferred(cands[c].deflates)
    BY <1>3
  <2>2. CASE s \in Abandoned
    BY <1>8, <2>2
  <2>3. CASE \E p \in DOMAIN recipes : HasStream(recipes[p], c, s)
    <3>1. PICK p \in DOMAIN recipes : HasStream(recipes[p], c, s)
      BY <2>3
    <3>2. PICK pl \in ToSet(recipes[p].payloads) : pl.raw = c /\ pl.stream = s /\ pl.level # Stored
      BY <3>1 DEF HasStream
    <3>3. ~(pl.raw \in DOMAIN canonical' /\ canonical'[pl.raw] = pl.stream)
      BY <1>2, <2>1, <3>2
    <3>4. Mode(pl)' = "secondary"
      BY <1>11, <3>2, <3>3 DEF Mode
    <3>5. s \in RecipeRefs(recipes[p])'
      BY <1>1, <3>2, <3>4 DEF RecipeRefs
    <3>6. p \in DOMAIN recipes'
      BY <1>1
    <3> QED BY <3>5, <3>6, RefsAreNext
  <2> QED BY <2>1, <2>2, <2>3 DEF TablesKept, StreamsKnown
<1>12. NoneIdle'
  <2>1. ASSUME NEW c \in DOMAIN cands PROVE c \in Refs' \cup Abandoned'
    <3>1. c \in TableRefs \/ c \in Abandoned
      BY <1>1 DEF TablesKept, NoneIdle, Early
    <3> QED BY <1>7, <1>8, <3>1, RefsCoverNext
  <2>2. DOMAIN cands' \subseteq Refs' \cup Abandoned'
    BY <1>5, <1>11, <2>1
  <2> QED BY <1>1, <2>2 DEF NoneIdle, Early
<1> QED BY <1>9, <1>10, <1>12 DEF TablesKept

\* A dictionary in the table is referred to.
LEMMA TrainKept ==
    ASSUME ExtrasKnown, TablesKept, TrainDictionary
    PROVE  TablesKept'
<1>1. /\ phase = "train" /\ phase' = "encode" /\ tree' = tree /\ release' = release
      /\ rows' = rows /\ recipes' = recipes /\ canonical' = canonical /\ secondary' = secondary
  BY DEF TrainDictionary, scanVars
<1>2. cands' = IF trained' THEN AddAll(cands, {Dictionary}, ".zdict") ELSE cands
  BY Zenon DEF TrainDictionary
<1>3. trained = FALSE
  BY <1>1 DEF ExtrasKnown
<1>4. DOMAIN cands' = DOMAIN cands \cup (IF trained' THEN {Dictionary} ELSE {})
  <2>1. DOMAIN AddAll(cands, {Dictionary}, ".zdict") = DOMAIN cands \cup {Dictionary}
    BY AddAllIs
  <2> QED BY <1>2, <2>1
<1>5. \A c \in DOMAIN cands' : \A s \in DOMAIN cands'[c].deflates : c \in DOMAIN cands
          /\ s \in DOMAIN cands[c].deflates
  <2> DEFINE t == AddAll(cands, {Dictionary}, ".zdict")
  <2>1. \A c \in DOMAIN t : \A s \in DOMAIN t[c].deflates : c \in DOMAIN cands
            /\ s \in DOMAIN cands[c].deflates
    BY AddAllIs
  <2> HIDE DEF t
  <2>2. cands' = t \/ cands' = cands
    BY <1>2 DEF t
  <2> QED BY <2>1, <2>2
<1>6. TableRefs' = TableRefs
  BY <1>1 DEF TableRefs, RowRefs, RecipeContents
<1>7. Abandoned \subseteq Abandoned'
  BY <1>1, AbandonedStays
<1>8. NoneMissing'
  <2>1. \A c : Lost(c)' <=> Lost(c)
    BY <1>1, SameTree
  <2>2. \A c \in TableRefs' : c \in DOMAIN cands' \/ Lost(c)
    BY <1>4, <1>6 DEF TablesKept, NoneMissing
  <2> QED BY <2>1, <2>2 DEF NoneMissing
<1>9. StreamsKnown'
  <2>1. \A c \in DOMAIN cands' : \A s \in DOMAIN cands'[c].deflates :
            s \in Abandoned' \/ \E p \in DOMAIN recipes' : HasStream(recipes'[p], c, s)
    BY <1>1, <1>5, <1>7 DEF TablesKept, StreamsKnown
  <2> QED BY <2>1 DEF StreamsKnown, HasStream
<1>10. Refs \subseteq Refs'
  <2>1. \A p \in DOMAIN recipes : RecipeRefs(recipes[p])' = RecipeRefs(recipes[p])
    BY <1>1 DEF RecipeRefs, Mode
  <2>2. ASSUME NEW c \in Refs PROVE c \in Refs'
    BY <1>1, <1>3, <2>1, <2>2, RefsAre, RefsAreNext
  <2> QED BY <2>2
<1>11. NoneIdle'
  <2>1. DOMAIN cands \subseteq Refs \cup Abandoned
    BY <1>1 DEF TablesKept, NoneIdle
  <2>2. trained' => Dictionary \in Refs'
    BY RefsAreNext
  <2>3. DOMAIN cands' \subseteq Refs' \cup Abandoned'
    BY <1>4, <1>7, <1>10, <2>1, <2>2
  <2> QED BY <1>1, <2>3 DEF NoneIdle, Early
<1> QED BY <1>8, <1>9, <1>11 DEF TablesKept

\* No step loses what is needed or keeps what is not.
LEMMA TablesStep ==
    ASSUME RowsInv, LocalInv, GroupsApart, PacksKnown, ExtrasKnown, TablesKept, [Next]_vars
    PROVE  TablesKept'
<1>1. CASE ScanSymlink \/ ScanHardlink \/ ScanSparse \/ ScanFile
  BY <1>1, ScanKept
<1>2. CASE PackContainers
  BY <1>2, PackContainersKept
<1>3. CASE MakeRecipe
  <2>1. CASE phase' = phase
    BY <1>3, <2>1, MadeKept
  <2>2. CASE phase' # phase
    <3>1. UNCHANGED scanVars /\ phase' = "failed" /\ UNCHANGED tableVars
      BY <1>3, <2>2, Zenon DEF MakeRecipe
    <3> QED BY <3>1, SameTables DEF scanVars, tableVars, Early
  <2> QED BY <2>1, <2>2
<1>4. CASE ScanDone
  <2>1. UNCHANGED scanVars /\ UNCHANGED tableVars /\ phase = "scan" /\ phase' = "repartition"
    BY <1>4 DEF ScanDone
  <2> QED BY <2>1, SameTables DEF scanVars, tableVars, Early
<1>5. CASE Repartition
  <2>1. /\ phase = "repartition" /\ tree' = tree /\ release' = release /\ recipes' = recipes
    BY <1>5, SplitIs
  <2>2. \/ phase' \in {"micro", "failed"} /\ rows' = rows /\ cands' = cands
        \/ phase' = "micro" /\ \E gs : Split(gs)
    BY <1>5, SplitIs
  <2>3. CASE phase' \in {"micro", "failed"} /\ rows' = rows /\ cands' = cands
    BY <2>1, <2>3, SameTables DEF Early
  <2>4. CASE phase' = "micro" /\ \E gs : Split(gs)
    BY <2>1, <2>4, SplitKept
  <2> QED BY <2>2, <2>3, <2>4
<1>6. CASE PlanMicroPacks
  <2>1. UNCHANGED scanVars /\ UNCHANGED tableVars /\ phase = "micro" /\ phase' = "flush"
    BY <1>6 DEF PlanMicroPacks
  <2> QED BY <2>1, SameTables DEF scanVars, tableVars, Early
<1>7. CASE FlushMicroPack
  BY <1>7, FlushKept
<1>8. CASE PrepareDeflateReuse
  BY <1>8, PrepareKept
<1>9. CASE TrainDictionary
  BY <1>9, TrainKept
<1>10. CASE EncodeCandidates
  <2>1. /\ UNCHANGED scanVars /\ UNCHANGED tableVars /\ phase = "encode" /\ phase' = "map"
        /\ canonical' = canonical /\ secondary' = secondary /\ trained' = trained
    BY <1>10 DEF EncodeCandidates
  <2>2. Refs' = Refs
    BY <2>1, RefsStay DEF tableVars
  <2> QED BY <2>1, <2>2, SameTables DEF scanVars, tableVars, Early
<1>11. CASE MapReferences
  <2>1. /\ UNCHANGED scanVars /\ UNCHANGED tableVars /\ phase = "map"
        /\ phase' \in {"built", "failed"}
        /\ UNCHANGED planVars
    BY <1>11 DEF MapReferences
  <2>2. Refs' = Refs
    BY <2>1, RefsStay DEF tableVars, planVars
  <2> QED BY <2>1, <2>2, SameTables DEF scanVars, tableVars, Early
<1>12. CASE UNCHANGED vars
  <2>1. UNCHANGED scanVars /\ UNCHANGED tableVars /\ UNCHANGED planVars /\ phase' = phase
    BY <1>12 DEF vars
  <2>2. Refs' = Refs
    BY <2>1, RefsStay DEF tableVars, planVars
  <2> QED BY <2>1, <2>2, SameTables DEF scanVars, tableVars, Early
<1> QED BY <1>1, <1>2, <1>3, <1>4, <1>5, <1>6, <1>7, <1>8, <1>9, <1>10, <1>11, <1>12 DEF Next

-----------------------------------------------------------------------------
(* Packs, what is stored besides, and failures.                            *)

\* Planned packs have no content in common.
LEMMA PlanApart ==
    ASSUME RowsInv, PlanMicroPacks
    PROVE  GroupsApart'
<1>1. tree' = tree /\ rows' = rows
  BY DEF PlanMicroPacks, scanVars, tableVars
<1>2. PICK s : Planned(s, groups')
  BY PlannedIs
<1> DEFINE E == Eligible
           T == Seq(E)
           gs == groups'
<1>3. s \in Seq(E) /\ s \in Bijection(1..Len(s), E) /\ gs \in Seq(Seq(E)) /\ FlattenSeq(gs) = s
      /\ \A i \in 1..Len(gs) : gs[i] # << >>
  BY <1>2 DEF Planned, GroupsOf
<1>4. \A c \in E : c \in Small /\ Len(c) <= MicroMax
  BY DEF Eligible
<1> HIDE DEF E, gs
<1>5. \A x, y \in 1..Len(s) : s[x] = s[y] => x = y
  BY <1>3 DEF Bijection, Injection, IsInjective
<1>6. \A i, j \in 1..Len(gs) : i # j => ToSet(gs[i]) \cap ToSet(gs[j]) = {}
  BY <1>3, <1>5, PartsApart
<1>7. DOMAIN gs = 1..Len(gs) /\ \A i \in 1..Len(gs) : gs[i] \in Seq(E)
  <2>1. gs \in Seq(T)
    BY <1>3
  <2> HIDE DEF T
  <2>2. DOMAIN gs = 1..Len(gs) /\ \A i \in 1..Len(gs) : gs[i] \in T
    BY <2>1
  <2> QED BY <2>2 DEF T
<1>8. ASSUME NEW i \in DOMAIN gs, NEW c \in ToSet(gs[i]) PROVE c \in Small /\ Len(c) <= MicroMax
  <2>1. gs[i] \in Seq(E)
    BY <1>7
  <2>2. c \in E
    BY <2>1 DEF ToSet
  <2> QED BY <1>4, <2>2
<1>9. Small' = Small
  BY <1>1 DEF Small, Direct
<1> QED BY <1>3, <1>6, <1>7, <1>8, <1>9 DEF GroupsApart, gs

\* The packs that still wait.
LEMMA TailOfGroups ==
    ASSUME GroupsTyped, groups # << >>, groups' = Tail(groups), NEW i \in DOMAIN groups'
    PROVE  i + 1 \in DOMAIN groups /\ groups'[i] = groups[i + 1] /\ i + 1 # 1
           /\ \A j \in DOMAIN groups' : i # j => i + 1 # j + 1
<1> DEFINE T == Seq(Content)
<1>1. groups \in Seq(T)
  BY DEF GroupsTyped
<1> HIDE DEF T
<1>2. /\ Len(groups) \in Nat /\ Tail(groups) \in Seq(T) /\ Len(Tail(groups)) = Len(groups) - 1
      /\ \A k \in 1..Len(Tail(groups)) : Tail(groups)[k] = groups[k + 1]
  BY <1>1
<1>3. DOMAIN groups = 1..Len(groups) /\ DOMAIN groups' = 1..(Len(groups) - 1)
  BY <1>1, <1>2
<1>4. \A j \in DOMAIN groups' : j \in Nat
  BY <1>3
<1> QED BY <1>2, <1>3, <1>4

\* They keep apart as packs are written.
LEMMA FlushApart ==
    ASSUME RowsInv, GroupsApart, FlushMicroPack
    PROVE  GroupsApart'
<1> DEFINE g == Head(groups)
           out(p) == Direct(p) /\ rows[p].of \in ToSet(g)
           slice(p) == SliceOf(g, IndexIn(g, rows[p].of))
<1>1. /\ tree' = tree /\ groups # << >> /\ groups' = Tail(groups) /\ rows' = Flushed(g)
  BY FlushIs DEF RowsInv
<1>2. g = groups[1] /\ 1 \in DOMAIN groups
  BY FlushedTo DEF FlushesTo
<1>3. rows' = [p \in DOMAIN rows |-> IF out(p) THEN slice(p) ELSE rows[p]]
  BY <1>1 DEF Flushed
<1> HIDE DEF slice
<1>4. \A p \in DOMAIN rows : p \in DOMAIN rows' /\ (~out(p) => rows'[p] = rows[p])
  BY <1>3
<1>5. GroupsTyped
  BY DEF RowsInv
<1> HIDE DEF g
<1>6. ASSUME NEW i \in DOMAIN groups'
      PROVE  /\ groups'[i] # << >>
             /\ \A c \in ToSet(groups'[i]) : c \in Small' /\ Len(c) <= MicroMax
             /\ \A j \in DOMAIN groups' : i # j => ToSet(groups'[i]) \cap ToSet(groups'[j]) = {}
  <2>1. i + 1 \in DOMAIN groups /\ groups'[i] = groups[i + 1] /\ i + 1 # 1
        /\ \A j \in DOMAIN groups' : i # j => i + 1 # j + 1
    BY <1>1, <1>5, TailOfGroups
  <2>2. groups'[i] # << >>
    BY <2>1 DEF GroupsApart
  <2>3. ASSUME NEW c \in ToSet(groups'[i]) PROVE c \in Small' /\ Len(c) <= MicroMax
    <3>1. Len(c) <= MicroMax /\ c \in ToSet(groups[i + 1])
      BY <2>1 DEF GroupsApart
    <3>2. c \notin ToSet(g)
      BY <1>2, <2>1, <3>1 DEF GroupsApart
    <3>3. PICK q \in SmallFiles : WaitsWith(q, c)
      BY <2>1, InGroupIs
    <3>4. q \in DOMAIN rows /\ Direct(q) /\ rows[q].of = c
      BY <3>3 DEF WaitsWith
    <3>5. q \in DOMAIN rows' /\ rows'[q] = rows[q]
      BY <1>4, <3>2, <3>4
    <3>6. Direct(q)'
      BY <1>1, <3>4, <3>5 DEF Direct
    <3> QED BY <3>1, <3>4, <3>5, <3>6 DEF Small
  <2>4. ASSUME NEW j \in DOMAIN groups', i # j PROVE ToSet(groups'[i]) \cap ToSet(groups'[j]) = {}
    <3>1. j + 1 \in DOMAIN groups /\ groups'[j] = groups[j + 1]
      BY <1>1, <1>5, TailOfGroups
    <3>2. ToSet(groups[i + 1]) \cap ToSet(groups[j + 1]) = {}
      BY <2>1, <2>4, <3>1 DEF GroupsApart
    <3> QED BY <2>1, <3>1, <3>2
  <2> QED BY <2>2, <2>3, <2>4
<1> QED BY <1>6 DEF GroupsApart

\* No step makes two packs share a content.
LEMMA ApartStep ==
    ASSUME RowsInv, GroupsApart, ExtrasKnown, [Next]_vars
    PROVE  GroupsApart'
<1>1. ASSUME groups' = << >> PROVE GroupsApart'
  <2>1. DOMAIN groups' = {}
    BY <1>1
  <2> QED BY <2>1 DEF GroupsApart
<1>2. ASSUME groups' = groups, tree' = tree, rows' = rows PROVE GroupsApart'
  <2>1. Small' = Small
    BY <1>2 DEF Small, Direct
  <2> QED BY <1>2, <2>1 DEF GroupsApart
<1>3. CASE \/ ScanSymlink \/ ScanHardlink \/ ScanSparse \/ ScanFile
           \/ PackContainers \/ MakeRecipe \/ ScanDone \/ Repartition
  <2>1. phase \in {"scan", "repartition"} /\ groups' = groups
    <3>1. CASE ScanSymlink \/ ScanHardlink \/ ScanSparse \/ ScanFile
      BY <3>1, Zenon DEF ScanSymlink, ScanHardlink, ScanSparse, ScanFile, Scanned, Walking, planVars
    <3>2. CASE PackContainers
      BY <3>2, Zenon DEF PackContainers, planVars
    <3>3. CASE MakeRecipe
      BY <3>3, Zenon DEF MakeRecipe, planVars
    <3>4. CASE ScanDone
      BY <3>4 DEF ScanDone, planVars
    <3>5. CASE Repartition
      BY <3>5, Zenon DEF Repartition, planVars
    <3> QED BY <1>3, <3>1, <3>2, <3>3, <3>4, <3>5
  <2>2. groups = << >>
    BY <2>1 DEF ExtrasKnown
  <2> QED BY <1>1, <2>1, <2>2
<1>4. CASE PlanMicroPacks
  BY <1>4, PlanApart
<1>5. CASE FlushMicroPack
  BY <1>5, FlushApart
<1>6. CASE PrepareDeflateReuse
  BY <1>2, <1>6 DEF PrepareDeflateReuse, scanVars
<1>7. CASE TrainDictionary
  BY <1>2, <1>7 DEF TrainDictionary, scanVars
<1>8. CASE EncodeCandidates
  BY <1>2, <1>8 DEF EncodeCandidates, scanVars, tableVars
<1>9. CASE MapReferences
  BY <1>2, <1>9 DEF MapReferences, scanVars, tableVars, planVars
<1>10. CASE UNCHANGED vars
  BY <1>2, <1>10 DEF vars, scanVars, tableVars, planVars
<1> QED BY <1>3, <1>4, <1>5, <1>6, <1>7, <1>8, <1>9, <1>10 DEF Next

\* Where no row but those of a cohort is a slice, none may become one.
Unpacked == phase \in {"scan", "repartition", "micro"}

\* PacksKnown after a step, row by row.
LEMMA PacksKnownNext ==
    ASSUME \A p \in DOMAIN rows' : \A c : rows'[p].tag = "pack" /\ c = rows'[p].of =>
             IF p \in Deferred' /\ IsCohort' THEN PackOfCohort(c)'
             ELSE /\ phase' \notin {"scan", "repartition", "micro"}
                  /\ PackOfOthers(c)' \/ \A i \in DOMAIN groups' : c \notin ToSet(groups'[i])
    PROVE  PacksKnown'
<1>1. ASSUME NEW p \in DOMAIN rows', rows'[p].tag = "pack", p \in Deferred' /\ IsCohort'
      PROVE  PackOfCohort(rows[p].of)'
  <2>1. PICK c : c = rows'[p].of
    OBVIOUS
  <2>2. PackOfCohort(c)'
    BY <1>1, <2>1
  <2> QED BY <2>1, <2>2 DEF PackOfCohort
<1>2. ASSUME NEW p \in DOMAIN rows', rows'[p].tag = "pack", ~(p \in Deferred' /\ IsCohort')
      PROVE  /\ phase' \notin {"scan", "repartition", "micro"}
             /\ PackOfOthers(rows[p].of)' \/ \A i \in DOMAIN groups' :
                    rows'[p].of \notin ToSet(groups'[i])
  <2>1. PICK c : c = rows'[p].of
    OBVIOUS
  <2>2. /\ phase' \notin {"scan", "repartition", "micro"}
        /\ PackOfOthers(c)' \/ \A i \in DOMAIN groups' : c \notin ToSet(groups'[i])
    BY <1>2, <2>1
  <2> QED BY <2>1, <2>2 DEF PackOfOthers
<1> QED BY <1>1, <1>2 DEF PacksKnown

\* Steps that make no slices keep PacksKnown.
LEMMA SamePacks ==
    ASSUME PacksKnown, tree' = tree, release' = release,
           \A p \in DOMAIN rows' : rows'[p].tag = "pack" => p \in DOMAIN rows /\ rows'[p] = rows[p],
           Unpacked' => Unpacked, Unpacked \/ groups' = groups
    PROVE  PacksKnown'
<1>1. Deferred' = Deferred /\ IsCohort' = IsCohort
  BY SameTree
<1>2. \A c : (PackOfOthers(c)' <=> PackOfOthers(c)) /\ (PackOfCohort(c)' <=> PackOfCohort(c))
  BY SameTree
<1>3. ASSUME NEW p \in DOMAIN rows', rows'[p].tag = "pack"
      PROVE  IF p \in Deferred /\ IsCohort THEN PackOfCohort(rows'[p].of)
             ELSE ~Unpacked' /\ (PackOfOthers(rows'[p].of) \/ \A i \in DOMAIN groups' :
                 rows'[p].of \notin ToSet(groups'[i]))
  <2>1. p \in DOMAIN rows /\ rows'[p] = rows[p]
    BY <1>3
  <2>2. IF p \in Deferred /\ IsCohort THEN PackOfCohort(rows[p].of)
        ELSE ~Unpacked /\ (PackOfOthers(rows[p].of) \/ \A i \in DOMAIN groups :
            rows[p].of \notin ToSet(groups[i]))
    BY <1>3, <2>1 DEF PacksKnown, Unpacked
  <2> QED BY <2>1, <2>2
<1>4. ASSUME NEW p \in DOMAIN rows', rows'[p].tag = "pack", NEW c, c = rows'[p].of
      PROVE  IF p \in Deferred' /\ IsCohort' THEN PackOfCohort(c)'
             ELSE /\ phase' \notin {"scan", "repartition", "micro"}
                  /\ PackOfOthers(c)' \/ \A i \in DOMAIN groups' : c \notin ToSet(groups'[i])
  BY <1>1, <1>2, <1>3, <1>4 DEF Unpacked
<1> QED BY <1>4, PacksKnownNext

\* A cohort in any order is a run, and so is each group it is divided into.
LEMMA RunsOfCohort ==
    ASSUME tree \in Trees, IsCohort, NEW w \in Orders(Deferred)
    PROVE  /\ w \in Runs(w)
           /\ \A gs \in Seq(Seq(Deferred)) : FlattenSeq(gs) = w =>
                  \A i \in 1..Len(gs) : gs[i] # << >> => gs[i] \in Runs(w)
<1> DEFINE D == Deferred
           T == Seq(D)
<1>1. w \in Seq(D) /\ Len(w) = Cardinality(Deferred) /\ Len(w) \in Nat
  BY OrdersAre
<1>2. Len(w) >= 1
  <2>1. Cohort \in Nat /\ Cohort > 1
    BY BuilderAssumption
  <2> QED BY <1>1, <2>1 DEF IsCohort
<1>3. ASSUME NEW i \in 1..Len(w), NEW j \in i..Len(w) PROVE SubSeq(w, i, j) \in Runs(w)
  <2>1. i \in DOMAIN w
    BY <1>1
  <2> QED BY <2>1 DEF Runs
<1>4. w \in Runs(w)
  <2>1. SubSeq(w, 1, Len(w)) \in Runs(w)
    BY <1>1, <1>2, <1>3
  <2>2. SubSeq(w, 1, Len(w)) = w
    <3> HIDE DEF D
    <3> QED BY <1>1
  <2> QED BY <2>1, <2>2
<1>5. ASSUME NEW gs \in Seq(Seq(D)), FlattenSeq(gs) = w, NEW i \in 1..Len(gs), gs[i] # << >>
      PROVE  gs[i] \in Runs(w)
  <2>1. gs \in Seq(T) /\ gs \in Seq(Seq(D))
    OBVIOUS
  <2>3. Offset(gs, i) \in Nat /\ Offset(gs, i) + Len(gs[i]) <= Len(w)
        /\ Cut(w, Offset(gs, i), Offset(gs, i) + Len(gs[i])) = gs[i]
    <3> HIDE DEF D
    <3> QED BY <1>5, <2>1, PartInWhole
  <2>4. Len(gs[i]) \in Nat /\ Len(gs[i]) >= 1
    <3> HIDE DEF T
    <3>1. gs[i] \in T
      BY <1>5, <2>1
    <3> HIDE DEF D
    <3>2. gs[i] \in Seq(D)
      BY <3>1 DEF T
    <3> QED BY <1>5, <3>2
  <2> DEFINE a == Offset(gs, i) + 1
             b == Offset(gs, i) + Len(gs[i])
  <2>5. a \in 1..Len(w) /\ b \in a..Len(w)
    <3> DEFINE o == Offset(gs, i)
               l == Len(gs[i])
               n == Len(w)
    <3>1. o \in Nat /\ l \in Nat /\ l >= 1 /\ n \in Nat /\ o + l <= n
      BY <1>1, <2>3, <2>4
    <3> HIDE DEF o, l, n
    <3>2. o + 1 \in 1..n /\ o + l \in (o + 1)..n
      BY <3>1
    <3> QED BY <3>2 DEF o, l, n
  <2>6. SubSeq(w, a, b) \in Runs(w)
    <3> HIDE DEF a, b
    <3> QED BY <1>3, <2>5
  <2>7. gs[i] \in Runs(w)
    BY <2>3, <2>6 DEF Cut
  <2> QED BY <2>7
<1> QED BY <1>4, <1>5

\* The whole of a cohort, and each group it is divided into, packs containers of it.
LEMMA CohortRuns ==
    ASSUME tree \in Trees, IsCohort
    PROVE  /\ PackOfCohort(CohortPack)
           /\ \A gs : Divided(gs) => \A i \in 1..Len(gs) : PackOfCohort(PackOf(gs, i))
<1>1. InOrder(Deferred) \in Orders(Deferred)
  BY PathsAre DEF Orders
<1>2. PackOfCohort(CohortPack)
  <2>1. InOrder(Deferred) \in Runs(InOrder(Deferred))
    BY <1>1, RunsOfCohort
  <2> QED BY <1>1, <2>1 DEF PackOfCohort, CohortPack
<1>3. ASSUME NEW gs, Divided(gs), NEW i \in 1..Len(gs) PROVE PackOfCohort(PackOf(gs, i))
  <2>1. gs \in Seq(Seq(Deferred)) /\ gs[i] # << >>
    BY <1>3 DEF Divided, GroupsOf
  <2>2. PICK w \in Orders(Deferred) : FlattenSeq(gs) = w
    BY <1>3 DEF Divided, GroupsOf
  <2>3. gs[i] \in Runs(w)
    BY <2>1, <2>2, RunsOfCohort
  <2> QED BY <2>2, <2>3 DEF PackOfCohort, PackOf
<1> QED BY <1>2, <1>3

\* A micro-pack is one of its members, or made up of several.
LEMMA MicroPackIs ==
    ASSUME RowsInv, GroupsApart, groups # << >>, NEW g, g = groups[1], 1 \in DOMAIN groups,
           g \in Seq(Content), g # << >>
    PROVE  FlattenSeq(g) \in ToSet(g) \/ PackOfOthers(FlattenSeq(g))
<1> DEFINE w == FlattenSeq(g)
<1>1. ASSUME w \notin ToSet(g) PROVE PackOfOthers(w)
  <2>1. PICK i, j \in 1..Len(g) :
              /\ g[i] # << >> /\ g[j] # << >>
              /\ Len(g[i]) + Len(g[j]) <= Len(w)
              /\ Cut(w, 0, Len(g[i])) = g[i]
              /\ Cut(w, Len(w) - Len(g[j]), Len(w)) = g[j]
    BY <1>1, PackEnds
  <2>2. g[i] \in ToSet(g) /\ g[j] \in ToSet(g)
    <3>1. DOMAIN g = 1..Len(g)
      OBVIOUS
    <3> QED BY <3>1 DEF ToSet
  <2>3. PICK p \in SmallFiles : tree[p].bytes = g[i]
    BY <2>2, InGroupIs
  <2>4. PICK q \in SmallFiles : tree[q].bytes = g[j]
    BY <2>2, InGroupIs
  <2>5. {tree[p].bytes, tree[q].bytes} \cap {<< >>, w} = {}
    BY <1>1, <2>1, <2>2, <2>3, <2>4
  <2> HIDE DEF w
  <2> QED BY <2>1, <2>3, <2>4, <2>5 DEF PackOfOthers
<1> QED BY <1>1

\* A micro-pack is made of small files.
LEMMA FlushPacks ==
    ASSUME RowsInv, GroupsApart, PacksKnown, FlushMicroPack
    PROVE  PacksKnown'
<1> DEFINE g == Head(groups)
           w == FlattenSeq(g)
           out(p) == Direct(p) /\ rows[p].of \in ToSet(g)
           slice(p) == SliceOf(g, IndexIn(g, rows[p].of))
           Others(c) == PackOfOthers(c) \/ \A i \in DOMAIN groups' : c \notin ToSet(groups'[i])
<1>1. /\ phase' = "flush" /\ tree' = tree /\ release' = release /\ groups # << >>
      /\ groups' = Tail(groups)
  BY FlushIs DEF RowsInv
<1>2. /\ g = groups[1] /\ 1 \in DOMAIN groups /\ g \in Seq(Content) /\ g # << >>
      /\ rows' = Flushed(g)
  BY FlushedTo DEF FlushesTo
<1>3. rows' = [p \in DOMAIN rows |-> IF out(p) THEN slice(p) ELSE rows[p]]
  BY <1>2 DEF Flushed
<1>4. \A p \in DOMAIN rows : slice(p).of = w
  BY DEF SliceOf
<1>5. \A p \in DOMAIN rows : out(p) => ~(p \in Deferred /\ IsCohort)
  BY DirectIs DEF Deferred
<1>6. w \in ToSet(g) \/ PackOfOthers(w)
  BY <1>1, <1>2, MicroPackIs
<1> HIDE DEF slice, out, w, g
<1>7. \A p \in DOMAIN rows' : p \in DOMAIN rows /\ rows'[p] = IF out(p) THEN slice(p) ELSE rows[p]
  BY <1>3
<1>8. ASSUME NEW i \in DOMAIN groups'
      PROVE  /\ i + 1 \in DOMAIN groups /\ groups'[i] = groups[i + 1]
             /\ ToSet(groups[1]) \cap ToSet(groups'[i]) = {}
  <2>1. i + 1 \in DOMAIN groups /\ groups'[i] = groups[i + 1] /\ i + 1 # 1
    BY <1>1, TailOfGroups DEF RowsInv
  <2> QED BY <1>2, <2>1 DEF GroupsApart
<1>9. Others(w)
  BY <1>2, <1>6, <1>8
<1>10. ASSUME NEW p \in DOMAIN rows', rows'[p].tag = "pack"
       PROVE  IF p \in Deferred /\ IsCohort THEN PackOfCohort(rows'[p].of) ELSE Others(rows'[p].of)
  <2>1. CASE out(p)
    <3>1. rows'[p].of = w /\ ~(p \in Deferred /\ IsCohort)
      BY <1>4, <1>5, <1>7, <2>1
    <3> HIDE DEF Others
    <3> QED BY <1>9, <3>1
  <2>2. CASE ~out(p)
    <3>1. p \in DOMAIN rows /\ rows'[p] = rows[p]
      BY <1>7, <2>2
    <3>2. IF p \in Deferred /\ IsCohort THEN PackOfCohort(rows[p].of)
          ELSE PackOfOthers(rows[p].of) \/ \A i \in DOMAIN groups :
              rows[p].of \notin ToSet(groups[i])
      BY <1>10, <3>1 DEF PacksKnown
    <3> QED BY <1>8, <3>1, <3>2
  <2> QED BY <2>1, <2>2
<1>11. Deferred' = Deferred /\ IsCohort' = IsCohort
  BY <1>1, SameTree
<1>12. \A c : (PackOfOthers(c)' <=> PackOfOthers(c)) /\ (PackOfCohort(c)' <=> PackOfCohort(c))
  BY <1>1, SameTree
<1>13. ASSUME NEW p \in DOMAIN rows', rows'[p].tag = "pack", NEW c, c = rows'[p].of
      PROVE  IF p \in Deferred' /\ IsCohort' THEN PackOfCohort(c)'
             ELSE /\ phase' \notin {"scan", "repartition", "micro"}
                  /\ PackOfOthers(c)' \/ \A i \in DOMAIN groups' : c \notin ToSet(groups'[i])
  BY <1>1, <1>10, <1>11, <1>12, <1>13
<1> QED BY <1>13, PacksKnownNext

\* The pack of a cohort, whole or split.
LEMMA CohortPacks ==
    ASSUME RowsInv, PacksKnown, IsCohort, tree' = tree, release' = release,
           Unpacked, Unpacked',
           \A p \in DOMAIN rows' : IF p \in Deferred THEN PackOfCohort(rows'[p].of)
                                   ELSE p \in DOMAIN rows /\ rows'[p] = rows[p]
    PROVE  PacksKnown'
<1>1. Deferred' = Deferred /\ IsCohort' = IsCohort
  BY SameTree
<1>2. \A c : PackOfCohort(c)' <=> PackOfCohort(c)
  BY SameTree
<1>3. \A p \in DOMAIN rows : p \notin Deferred => rows[p].tag # "pack"
  BY DEF PacksKnown, Unpacked
<1>4. ASSUME NEW p \in DOMAIN rows', rows'[p].tag = "pack", NEW c, c = rows'[p].of
      PROVE  p \in Deferred' /\ IsCohort' /\ PackOfCohort(c)'
  BY <1>1, <1>2, <1>3, <1>4
<1> QED BY <1>4, PacksKnownNext

\* Every step keeps PacksKnown.
LEMMA PacksStep ==
    ASSUME RowsInv, LocalInv, GroupsApart, PacksKnown, [Next]_vars
    PROVE  PacksKnown'
<1>0. tree \in Trees
  BY DEF RowsInv
<1>1. CASE ScanSymlink \/ ScanHardlink \/ ScanSparse \/ ScanFile
  <2>1. PICK storage, hint : storage.tag # "pack" /\ Walking /\ Scanned(storage, hint)
    <3>1. CASE ScanSymlink
      <4> DEFINE r == [tag |-> "blob", of |-> tree[Here].bytes]
      <4>1. Walking /\ Scanned(r, ".symlink")
        BY <3>1 DEF ScanSymlink
      <4> QED BY <4>1
    <3>2. CASE ScanHardlink
      <4> DEFINE r == [tag |-> "link", to |-> tree[Here].to]
      <4>1. Walking /\ Scanned(r, "")
        BY <3>2 DEF ScanHardlink
      <4> QED BY <4>1
    <3>3. CASE ScanSparse
      <4> DEFINE r == [tag |-> "sparse", extents |-> Extents(tree[Here])]
      <4>1. Walking /\ Scanned(r, tree[Here].ext)
        BY <3>3 DEF ScanSparse
      <4>2. r.tag # "pack"
        OBVIOUS
      <4> QED BY <4>1, <4>2
    <3>4. CASE ScanFile
      <4> DEFINE c == tree[Here].bytes
                 r == [tag |-> "blob", of |-> c]
                 k(parts) == [tag |-> "cdc", parts |-> parts]
      <4>1. Walking /\ (Scanned(r, tree[Here].ext) \/ \E parts : Scanned(k(parts), tree[Here].ext))
        BY <3>4, Zenon DEF ScanFile
      <4>2. r.tag # "pack" /\ \A parts : k(parts).tag # "pack"
        OBVIOUS
      <4> QED BY <4>1, <4>2
    <3> QED BY <1>1, <3>1, <3>2, <3>3, <3>4
  <2>2. /\ tree' = tree /\ release' = release /\ phase' = phase /\ phase = "scan"
        /\ rows' = Put(rows, Here, storage) /\ groups' = groups
    BY <2>1 DEF Scanned, scanVars, planVars, Walking
  <2>3. \A p \in DOMAIN rows' : rows'[p].tag = "pack" => p \in DOMAIN rows /\ rows'[p] = rows[p]
    <3>1. \A p \in DOMAIN rows' : p \in DOMAIN rows \cup {Here}
              /\ rows'[p] = IF p = Here THEN storage ELSE rows[p]
      BY <2>2 DEF Put
    <3> QED BY <2>1, <3>1
  <2> QED BY <2>2, <2>3, SamePacks DEF Unpacked
<1>2. CASE PackContainers
  <2> DEFINE paths == InOrder(Deferred)
             slice(p) == SliceOf(BytesOf(paths), IndexIn(paths, p))
  <2>1. /\ phase = "scan" /\ IsCohort /\ phase' = "repartition" /\ tree' = tree
        /\ release' = release
    BY <1>2, Zenon DEF PackContainers, IsCohort, scanVars
  <2>2. rows' = [p \in DOMAIN rows \cup Deferred |-> IF p \in Deferred THEN slice(p) ELSE rows[p]]
    BY <1>2, Zenon DEF PackContainers
  <2>3. \A p \in Deferred : slice(p).of = CohortPack
    BY DEF SliceOf, CohortPack
  <2> HIDE DEF slice
  <2>4. PackOfCohort(CohortPack)
    BY <1>0, <2>1, CohortRuns
  <2>5. \A p \in DOMAIN rows' : IF p \in Deferred THEN PackOfCohort(rows'[p].of)
                                   ELSE p \in DOMAIN rows /\ rows'[p] = rows[p]
    BY <2>2, <2>3, <2>4
  <2> QED BY <2>1, <2>5, CohortPacks DEF Unpacked
<1>3. CASE MakeRecipe
  <2> DEFINE p == Min(Waiting)
             b == [tag |-> "blob", of |-> Bytes(p)]
             v == [tag |-> "vzip"]
  <2>1. /\ phase = "scan" /\ phase' \in {"scan", "failed"} /\ tree' = tree
        /\ release' = release /\ groups' = groups
    BY <1>3 DEF MakeRecipe, scanVars, planVars
  <2>2. rows' = rows \/ rows' = Put(rows, p, v) \/ rows' = Put(rows, p, b)
    BY <1>3, Zenon DEF MakeRecipe, tableVars
  <2>3. \A q \in DOMAIN rows' : rows'[q].tag = "pack" => q \in DOMAIN rows /\ rows'[q] = rows[q]
    <3>1. v.tag # "pack" /\ b.tag # "pack"
      OBVIOUS
    <3> HIDE DEF p, v, b
    <3>2. CASE rows' = rows
      BY <3>2
    <3>3. ASSUME NEW r, r.tag # "pack", rows' = Put(rows, p, r), NEW q \in DOMAIN rows',
                 rows'[q].tag = "pack"
          PROVE  q \in DOMAIN rows /\ rows'[q] = rows[q]
      <4>1. q \in DOMAIN rows \cup {p} /\ rows'[q] = IF q = p THEN r ELSE rows[q]
        BY <3>3 DEF Put
      <4> QED BY <3>3, <4>1
    <3> QED BY <2>2, <3>1, <3>2, <3>3
  <2> QED BY <2>1, <2>3, SamePacks DEF Unpacked
<1>4. CASE ScanDone
  BY <1>4, SamePacks DEF ScanDone, Unpacked, scanVars, tableVars, planVars
<1>5. CASE Repartition
  <2>1. /\ phase = "repartition" /\ tree' = tree /\ release' = release /\ UNCHANGED planVars
    BY <1>5, SplitIs
  <2>2. \/ phase' \in {"micro", "failed"} /\ rows' = rows /\ cands' = cands
        \/ phase' = "micro" /\ \E gs : Split(gs)
    BY <1>5, SplitIs
  <2>3. CASE phase' \in {"micro", "failed"} /\ rows' = rows
    BY <2>1, <2>3, SamePacks DEF Unpacked
  <2>4. CASE phase' = "micro" /\ \E gs : Split(gs)
    <3>1. PICK gs : Split(gs)
      BY <2>4
    <3>2. /\ IsCohort /\ Divided(gs) /\ DOMAIN rows' = DOMAIN rows
          /\ \A p \in Deferred : \E i \in 1..Len(gs) : rows'[p].of = PackOf(gs, i)
          /\ \A p \in DOMAIN rows \ Deferred : rows'[p] = rows[p]
      BY <3>1 DEF Split
    <3>3. \A i \in 1..Len(gs) : PackOfCohort(PackOf(gs, i))
      BY <1>0, <3>2, CohortRuns
    <3>4. \A p \in DOMAIN rows' : IF p \in Deferred THEN PackOfCohort(rows'[p].of)
                                   ELSE p \in DOMAIN rows /\ rows'[p] = rows[p]
      BY <3>2, <3>3
    <3> QED BY <2>1, <2>4, <3>2, <3>4, CohortPacks DEF Unpacked
  <2> QED BY <2>2, <2>3, <2>4
<1>6. CASE PlanMicroPacks
  BY <1>6, SamePacks DEF PlanMicroPacks, Unpacked, scanVars, tableVars
<1>7. CASE FlushMicroPack
  BY <1>7, FlushPacks
<1>8. CASE PrepareDeflateReuse
  <2>1. /\ phase' = "train" /\ tree' = tree /\ release' = release /\ rows' = rows
        /\ groups' = groups
    BY <1>8, PreparedIs
  <2> QED BY <2>1, SamePacks DEF Unpacked
<1>9. CASE TrainDictionary
  BY <1>9, SamePacks DEF TrainDictionary, Unpacked, scanVars
<1>10. CASE EncodeCandidates
  BY <1>10, SamePacks DEF EncodeCandidates, Unpacked, scanVars, tableVars
<1>11. CASE MapReferences
  BY <1>11, SamePacks DEF MapReferences, Unpacked, scanVars, tableVars, planVars
<1>12. CASE UNCHANGED vars
  BY <1>12, SamePacks DEF vars, Unpacked, scanVars, tableVars, planVars
<1> QED BY <1>1, <1>2, <1>3, <1>4, <1>5, <1>6, <1>7, <1>8, <1>9, <1>10, <1>11, <1>12 DEF Next

\* Before streams are chosen nothing is stored besides.
LEMMA EarlyExtras ==
    ASSUME ExtrasKnown, Early, canonical' = canonical, secondary' = secondary, trained' = trained,
           Early' \/ phase' = "failed", Unpacked' => groups' = << >>
    PROVE  ExtrasKnown'
<1>1. canonical = << >> /\ secondary = {} /\ trained = FALSE
  BY DEF ExtrasKnown
<1> QED BY <1>1 DEF ExtrasKnown, Early, Unpacked

\* Every step keeps ExtrasKnown.
LEMMA ExtrasStep ==
    ASSUME ExtrasKnown, [Next]_vars
    PROVE  ExtrasKnown'
<1>1. CASE \/ ScanSymlink \/ ScanHardlink \/ ScanSparse \/ ScanFile
           \/ PackContainers \/ MakeRecipe \/ ScanDone \/ Repartition
  <2>1. /\ phase \in {"scan", "repartition"}
        /\ phase' \in {"scan", "repartition", "micro", "failed"}
        /\ UNCHANGED planVars
    <3>1. CASE ScanSymlink \/ ScanHardlink \/ ScanSparse \/ ScanFile
      <4>1. phase = "scan" /\ phase' = phase /\ UNCHANGED planVars
        BY <3>1, Zenon DEF ScanSymlink, ScanHardlink, ScanSparse, ScanFile, Scanned, Walking
      <4> QED BY <4>1
    <3>2. CASE PackContainers
      <4>1. phase = "scan" /\ phase' = "repartition" /\ UNCHANGED planVars
        BY <3>2, Zenon DEF PackContainers
      <4> QED BY <4>1
    <3>3. CASE MakeRecipe
      <4>1. phase = "scan" /\ (phase' = "failed" \/ phase' = phase) /\ UNCHANGED planVars
        BY <3>3, Zenon DEF MakeRecipe
      <4> QED BY <4>1
    <3>4. CASE ScanDone
      BY <3>4 DEF ScanDone
    <3>5. CASE Repartition
      <4>1. phase = "repartition" /\ (phase' = "failed" \/ phase' = "micro") /\ UNCHANGED planVars
        BY <3>5, RepartitionEnds
      <4> QED BY <4>1
    <3> QED BY <1>1, <3>1, <3>2, <3>3, <3>4, <3>5
  <2>2. groups' = << >>
    BY <2>1 DEF ExtrasKnown, planVars
  <2> QED BY <2>1, <2>2, EarlyExtras DEF Early, Unpacked, planVars
<1>2. CASE PlanMicroPacks
  BY <1>2, EarlyExtras DEF PlanMicroPacks, Early, Unpacked
<1>3. CASE FlushMicroPack
  BY <1>3, EarlyExtras DEF FlushMicroPack, Early, Unpacked
<1>4. CASE PrepareDeflateReuse
  <2>1. phase = "flush" /\ phase' = "train" /\ trained' = trained
    BY <1>4, PreparedIs
  <2>2. cands' = AddAll(cands, secondary', ".opaque-deflate")
    BY <1>4, PreparedIs
  <2>3. DOMAIN cands' = DOMAIN cands \cup secondary'
    BY <2>2, AddAllIs
  <2>4. trained = FALSE
    BY <2>1 DEF ExtrasKnown, Early
  <2> QED BY <2>1, <2>3, <2>4 DEF ExtrasKnown, Early
<1>5. CASE TrainDictionary
  <2>1. phase' = "encode" /\ secondary' = secondary
    BY <1>5 DEF TrainDictionary
  <2>2. cands' = IF trained' THEN AddAll(cands, {Dictionary}, ".zdict") ELSE cands
    BY <1>5, Zenon DEF TrainDictionary
  <2>3. DOMAIN AddAll(cands, {Dictionary}, ".zdict") = DOMAIN cands \cup {Dictionary}
    BY AddAllIs
  <2>4. DOMAIN cands \subseteq DOMAIN cands' /\ (trained' => Dictionary \in DOMAIN cands')
    BY <2>2, <2>3
  <2> QED BY <2>1, <2>4 DEF ExtrasKnown, Early
<1>6. CASE EncodeCandidates
  <2>1. /\ phase = "encode" /\ phase' = "map" /\ secondary' = secondary /\ trained' = trained
        /\ cands' = cands
    BY <1>6 DEF EncodeCandidates, tableVars
  <2>2. PICK thread : codec' = [c \in DOMAIN cands |-> Encoded(c, thread)]
    BY <1>6 DEF EncodeCandidates
  <2>3. DOMAIN codec' = DOMAIN cands
    BY <2>2
  <2> QED BY <2>1, <2>3 DEF ExtrasKnown, Early
<1>7. CASE MapReferences
  BY <1>7 DEF MapReferences, ExtrasKnown, Early, tableVars, planVars
<1>8. CASE UNCHANGED vars
  BY <1>8 DEF vars, ExtrasKnown, Early, tableVars, planVars
<1> QED BY <1>1, <1>2, <1>3, <1>4, <1>5, <1>6, <1>7, <1>8 DEF Next

-----------------------------------------------------------------------------
\* A group on its own that is not local is one container beyond the decode unit.
LEMMA TooLarge ==
    ASSUME tree \in Trees, NEW gs, Divided(gs), NEW i \in 1..Len(gs), ~Local(BytesOf(gs[i]))
    PROVE  \E p \in Deferred : Len(Bytes(p)) > Unit
<1> DEFINE D == Deferred
           T == Seq(D)
           g == gs[i]
<1>1. gs \in Seq(T) /\ g # << >> /\ (Len(g) > 1 => Local(BytesOf(g)))
  BY DEF Divided, GroupsOf
<1>2. g \in T
  <2> HIDE DEF T, D
  <2> QED BY <1>1
<1> HIDE DEF g
<1>3. Len(g) = 1 /\ g[1] \in D /\ 1 \in DOMAIN g
  <2>1. ~(Len(g) > 1)
    BY <1>1 DEF g
  <2> HIDE DEF D
  <2>2. g \in Seq(D) /\ g # << >>
    BY <1>1, <1>2
  <2>3. Len(g) \in Nat /\ Len(g) # 0 /\ DOMAIN g = 1..Len(g)
    BY <2>2
  <2>4. Len(g) = 1
    BY <2>1, <2>3
  <2>5. g[1] \in D
    BY <2>2, <2>4
  <2> QED BY <2>3, <2>4, <2>5
<1> DEFINE p == g[1]
           b == BytesOf(g)
           c == tree[p].bytes
<1>4. /\ b \in Seq(Content) /\ Len(b) = 1 /\ DOMAIN b = {1} /\ b[1] = c
  <2>1. g \in Seq(Deferred)
    BY <1>2
  <2>2. b \in Seq(Content) /\ Len(b) = Len(g)
    BY <2>1, BytesOfIs
  <2>3. b[1] = c
    BY <1>3, <2>1, BytesOfIs
  <2> HIDE DEF b, c
  <2> QED BY <1>3, <2>2, <2>3
<1>5. Bytes(p) = c /\ c \in Content
  BY <1>3, DeferredIs
<1> HIDE DEF b, c, p
<1>6. Len(c) \in Nat
  BY <1>5 DEF Content
<1>7. Size(b) = Len(c)
  <2>1. b \in Seq(Seq(Nat))
    BY <1>4 DEF Content
  <2>2. 1 \in 1..Len(b) /\ Offset(b, 1 + 1) = Len(FlattenSeq(b)) /\ Offset(b, 1) = 0
    <3>1. Offset(b, Len(b) + 1) = Len(FlattenSeq(b)) /\ Offset(b, 1) = 0
      BY <2>1, Offsets
    <3> QED BY <1>4, <3>1
  <2>3. \A k \in 1..Len(b) : Offset(b, k + 1) = Offset(b, k) + Len(b[k])
    BY <2>1, Offsets
  <2>4. Offset(b, 1 + 1) = Offset(b, 1) + Len(b[1])
    BY <2>2, <2>3
  <2> QED BY <1>4, <1>6, <2>2, <2>4 DEF Size
<1> DEFINE m == Larger(1, Len(c))
<1>8. Min({Larger(1, Len(x)) : x \in ToSet(b)}) = m
  <2>1. ToSet(b) = {c}
    BY <1>4 DEF ToSet
  <2>2. {Larger(1, Len(x)) : x \in ToSet(b)} = {m}
    BY <2>1
  <2>3. m \in Nat
    BY <1>6 DEF Larger
  <2> HIDE DEF m
  <2>4. {m} \in SUBSET (0..m) /\ {m} # {}
    BY <2>3
  <2>5. Min({m}) \in {m}
    BY <2>3, <2>4, MinIsSmallest
  <2> QED BY <2>2, <2>5
<1>9. Len(c) > Unit
  <2>1. m \in Nat /\ m >= Len(c)
    BY <1>6 DEF Larger
  <2>2. Amplification \in Nat /\ Amplification >= 1 /\ Unit \in Nat
    BY BuilderAssumption
  <2>3. ~(Len(c) <= Smaller(Unit, Amplification * m))
    BY <1>7, <1>8 DEF Local, b, g
  <2> HIDE DEF m
  <2>4. Amplification * m \in Nat /\ Amplification * m >= m
    BY <2>1, <2>2
  <2> DEFINE k == Amplification * m
  <2> HIDE DEF k
  <2>5. k \in Nat /\ k >= m /\ ~(Len(c) <= Smaller(Unit, k))
    BY <2>3, <2>4 DEF k
  <2> QED BY <1>6, <2>1, <2>2, <2>5 DEF Smaller
<1> QED BY <1>3, <1>5, <1>9 DEF p

\* A step that fails does so over what the tree holds.
LEMMA FailsStep ==
    ASSUME RowsInv, LocalInv, TablesKept, ExtrasKnown, FailsOnlyOver, [Next]_vars
    PROVE  FailsOnlyOver'
<1>0. tree \in Trees
  BY DEF RowsInv
<1>1. ASSUME phase' # "failed" PROVE FailsOnlyOver'
  BY <1>1 DEF FailsOnlyOver
<1>2. CASE \/ ScanSymlink \/ ScanHardlink \/ ScanSparse \/ ScanFile
           \/ PackContainers \/ ScanDone \/ PlanMicroPacks \/ FlushMicroPack
           \/ PrepareDeflateReuse \/ TrainDictionary \/ EncodeCandidates
  <2>1. CASE ScanSymlink \/ ScanHardlink \/ ScanSparse \/ ScanFile
    <3>1. phase = "scan" /\ phase' = phase
      BY <2>1, Zenon DEF ScanSymlink, ScanHardlink, ScanSparse, ScanFile, Scanned, Walking
    <3> QED BY <1>1, <3>1
  <2>2. CASE PackContainers
    <3>1. phase' = "repartition"
      BY <2>2, Zenon DEF PackContainers
    <3> QED BY <1>1, <3>1
  <2>3. CASE PrepareDeflateReuse
    BY <1>1, <2>3, PreparedIs
  <2>4. CASE ScanDone \/ PlanMicroPacks \/ FlushMicroPack \/ TrainDictionary \/ EncodeCandidates
    <3>1. phase' # "failed"
      <4>1. CASE ScanDone
        BY <4>1 DEF ScanDone
      <4>2. CASE PlanMicroPacks
        BY <4>2 DEF PlanMicroPacks
      <4>3. CASE FlushMicroPack
        BY <4>3 DEF FlushMicroPack
      <4>4. CASE TrainDictionary
        BY <4>4 DEF TrainDictionary
      <4>5. CASE EncodeCandidates
        BY <4>5 DEF EncodeCandidates
      <4> QED BY <2>4, <4>1, <4>2, <4>3, <4>4, <4>5
    <3> QED BY <1>1, <3>1
  <2> QED BY <1>2, <2>1, <2>2, <2>3, <2>4
<1>3. CASE MakeRecipe
  <2> SUFFICES ASSUME phase' = "failed" PROVE FailsOnlyOver'
    BY <1>1
  <2> DEFINE p == Min(Waiting)
  <2>1. phase = "scan" /\ UNCHANGED scanVars /\ Cardinality(Deferred) < Cohort /\ Waiting # {}
    BY <1>3 DEF MakeRecipe
  <2>2. phase' = phase \/ tree[p].gaps = << >>
    BY <1>3, Zenon DEF MakeRecipe
  <2>3. p \in Deferred
    BY <1>0, <2>1, WaitingIs
  <2>4. ~IsCohort
    <3>1. Cardinality(Deferred) \in Nat /\ Cohort \in Nat
      BY <1>0, PathsAre, BuilderAssumption
    <3> QED BY <2>1, <3>1 DEF IsCohort
  <2>5. MayFail
    BY <2>1, <2>2, <2>3, <2>4 DEF MayFail
  <2> QED BY <2>1, <2>5, SameFailures DEF scanVars
<1>4. CASE Repartition
  <2> SUFFICES ASSUME phase' = "failed" PROVE FailsOnlyOver'
    BY <1>1
  <2>0. PICK paths \in Orders(Deferred) : SplitPack(paths)
    BY <1>4 DEF Repartition
  <2> DEFINE gs == Grouped(paths, {g \in Runs(paths) : Fits(BytesOf(g))})
  <2>1. UNCHANGED scanVars
    BY <1>4, Zenon DEF Repartition
  <2>2. \/ phase' = "micro"
        \/ ~(~release \/ Cardinality(Deferred) < Cohort \/ Len(gs) = 1)
           /\ \E i \in DOMAIN gs : ~Local(BytesOf(gs[i]))
    BY <2>0, Zenon DEF SplitPack
  <2>3. Divided(gs)
    BY <1>0, DividedIs
  <2> HIDE DEF gs
  <2>4. release /\ ~(Cardinality(Deferred) < Cohort)
    BY <2>2
  <2>5. PICK i \in DOMAIN gs : ~Local(BytesOf(gs[i]))
    BY <2>2
  <2>6. i \in 1..Len(gs)
    <3> DEFINE T == Seq(Deferred)
    <3>1. gs \in Seq(T)
      BY <2>3 DEF Divided
    <3> HIDE DEF T
    <3> QED BY <3>1, <2>5
  <2>7. \E p \in Deferred : Len(Bytes(p)) > Unit
    BY <1>0, <2>3, <2>5, <2>6, TooLarge
  <2>8. IsCohort
    <3>1. Cardinality(Deferred) \in Nat /\ Cohort \in Nat
      BY <1>0, PathsAre, BuilderAssumption
    <3> QED BY <2>4, <3>1 DEF IsCohort
  <2>9. MayFail
    BY <2>4, <2>7, <2>8 DEF MayFail
  <2> QED BY <2>1, <2>9, SameFailures DEF scanVars
<1>5. CASE MapReferences
  <2> SUFFICES ASSUME phase' = "failed" PROVE FailsOnlyOver'
    BY <1>1
  <2>1. phase = "map" /\ UNCHANGED scanVars /\ ~(Refs \subseteq DOMAIN codec)
    BY <1>5 DEF MapReferences
  <2>2. DOMAIN codec = DOMAIN cands
    BY <2>1 DEF ExtrasKnown
  <2>3. PICK c \in Refs : c \notin DOMAIN cands
    BY <2>1, <2>2
  <2>4. c \in TableRefs
    <3>1. CASE \E p \in DOMAIN rows : c \in RowRefs(rows[p])
      BY <3>1, TableRefsAre
    <3>2. CASE \E p \in DOMAIN recipes : c \in RecipeRefs(recipes[p])
      <4>1. PICK p \in DOMAIN recipes : c \in RecipeRefs(recipes[p])
        BY <3>2
      <4>2. \/ c \in RecipeContents(recipes[p])
            \/ \E pl \in ToSet(recipes[p].payloads) : Mode(pl) = "secondary" /\ c = pl.stream
        BY <4>1 DEF RecipeContents, RecipeRefs
      <4>3. c \notin secondary
        BY <2>3 DEF ExtrasKnown
      <4>4. \A pl : Mode(pl) = "secondary" => pl.stream \in secondary
        BY DEF Mode
      <4> QED BY <4>2, <4>3, <4>4, TableRefsAre
    <3>3. CASE trained /\ c = Dictionary
      BY <2>3, <3>3 DEF ExtrasKnown
    <3> QED BY <3>1, <3>2, <3>3, RefsAre
  <2>5. Lost(c)
    BY <2>3, <2>4 DEF TablesKept, NoneMissing
  <2>6. MayFail
    BY <2>5 DEF Lost, MayFail
  <2> QED BY <2>1, <2>6, SameFailures DEF scanVars
<1>6. CASE UNCHANGED vars
  <2> SUFFICES ASSUME phase' = "failed" PROVE FailsOnlyOver'
    BY <1>1
  <2>1. UNCHANGED scanVars /\ phase = "failed"
    BY <1>6 DEF vars
  <2>2. MayFail
    BY <2>1 DEF FailsOnlyOver, MayFail
  <2> QED BY <2>1, <2>2, SameFailures DEF scanVars
<1> QED BY <1>2, <1>3, <1>4, <1>5, <1>6 DEF Next

\* Every step keeps KeptInv.
LEMMA KeptStep ==
    ASSUME RowsInv, LocalInv, KeptInv, [Next]_vars
    PROVE  KeptInv'
<1>1. TablesKept /\ GroupsApart /\ PacksKnown /\ ExtrasKnown /\ FailsOnlyOver
  BY DEF KeptInv
<1>2. TablesKept'
  BY <1>1, TablesStep
<1>3. GroupsApart'
  BY <1>1, ApartStep
<1>4. PacksKnown'
  BY <1>1, PacksStep
<1>5. ExtrasKnown'
  BY <1>1, ExtrasStep
<1>6. FailsOnlyOver'
  BY <1>1, FailsStep
<1> QED BY <1>2, <1>3, <1>4, <1>5, <1>6 DEF KeptInv

\* An empty build has nothing to keep.
LEMMA KeptInitially ==
    ASSUME Init PROVE KeptInv
<1>1. /\ phase = "scan" /\ DOMAIN rows = {} /\ DOMAIN recipes = {} /\ DOMAIN cands = {}
      /\ groups = << >>
      /\ canonical = << >> /\ secondary = {} /\ trained = FALSE /\ DOMAIN groups = {}
  BY DEF Init
<1>2. TablesKept
  <2>1. \A c : c \notin TableRefs
    BY <1>1, TableRefsAre
  <2> QED BY <1>1, <2>1 DEF TablesKept, NoneMissing, StreamsKnown, NoneIdle
<1>3. GroupsApart /\ PacksKnown /\ ExtrasKnown /\ FailsOnlyOver
  BY <1>1 DEF GroupsApart, PacksKnown, ExtrasKnown, FailsOnlyOver, Early
<1> QED BY <1>2, <1>3 DEF KeptInv

\* The table agrees with rows, recipes and packs in every state.
LEMMA KeptHolds == Spec => []KeptInv
<1>1. Init => KeptInv
  BY KeptInitially
<1>2. RowsInv /\ LocalInv /\ KeptInv /\ [Next]_vars => KeptInv'
  BY KeptStep
<1> QED BY <1>1, <1>2, RowsHold, LocalHolds, PTL DEF Spec

\* Nothing is stored that no file needs, but what a recipe that was given up left, for
\* any tree (builder.py:180-184, codec.py:178-184, v030_release_locality.py:162-163).
THEOREM NothingIdleStored == Spec => []NothingIdle
<1>1. KeptInv => NothingIdle
  BY DEF KeptInv, TablesKept, NoneIdle, ExtrasKnown, NothingIdle, Built
<1> QED BY <1>1, KeptHolds, PTL

\* A build fails only over what the tree holds, whatever the tree (builder.py:183,
\* v030_release_locality.py:163, codec.py:178, v030_release_locality.py:150).
THEOREM FailuresExplained == Spec => []FailsOnlyOver
<1>1. KeptInv => FailsOnlyOver
  BY DEF KeptInv
<1> QED BY <1>1, KeptHolds, PTL
=============================================================================
