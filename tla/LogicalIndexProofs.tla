------------------------ MODULE LogicalIndexProofs ------------------------
(***************************************************************************)
(* Proofs about the file table.  Checkpoints are invisible: what an open    *)
(* replays from the last checkpoint is what it would replay had none been   *)
(* written.  Rows stay sorted, one for each path.  An update changes its    *)
(* row and what hard links make of it.  A compaction writes a sound table   *)
(* that shows the tree the old one showed.                                  *)
(*   FoldLeft of the library, Chains, Above and Holder choose recursive     *)
(* functions; each is shown to exist, so that it can be unfolded.           *)
(***************************************************************************)
EXTENDS LogicalIndex, Extrema, SequenceTheorems

\* One step of a replay, h giving the replay of the operations at fewer places.
ReplayBody(b, s, h, t) ==
    IF t = {} THEN b ELSE Replayed(h[t \ {Max(t)}], s[Max(t)])

IsReplay(b, s, h) == h = [t \in SUBSET DOMAIN s |-> ReplayBody(b, s, h, t)]

LEMMA ReplayChosen ==
    ASSUME NEW b, NEW s, NEW h, IsReplay(b, s, h)
    PROVE  \E g : /\ IsReplay(b, s, g)
                  /\ FoldLeft(Replayed, b, s) = g[DOMAIN s]
<1> DEFINE g == CHOOSE f : f = [t \in SUBSET DOMAIN s |-> ReplayBody(b, s, f, t)]
<1>1. g = [t \in SUBSET DOMAIN s |-> ReplayBody(b, s, g, t)]
  BY Zenon DEF IsReplay
<1>2. FoldLeft(Replayed, b, s) = g[DOMAIN s]
  BY DEF FoldLeft, MapThenFoldSet, ReplayBody
<1> QED BY <1>1, <1>2, Zenon DEF IsReplay

\* A step of a replay goes on from fewer places.
LEMMA FewerPlaces ==
    ASSUME NEW n \in Nat, NEW t \in SUBSET (1..n)
    PROVE  /\ Cardinality(t) \in 0..n
           /\ t # {} => /\ Max(t) \in t
                        /\ t \ {Max(t)} \in SUBSET (1..n)
                        /\ Cardinality(t \ {Max(t)}) < Cardinality(t)
<1>1. IsFiniteSet(1..n) /\ Cardinality(1..n) = n
  <2>1. IsFiniteSet(1..n) /\ Cardinality(1..n) = IF 1 > n THEN 0 ELSE n - 1 + 1
    BY FS_Interval
  <2> QED BY <2>1
<1>2. IsFiniteSet(t) /\ Cardinality(t) <= n /\ Cardinality(t) \in Nat
  BY <1>1, FS_Subset, FS_CardinalityType
<1>3. ASSUME t # {} PROVE Max(t) \in t
  <2>1. t \in SUBSET (0..n)
    OBVIOUS
  <2> QED BY <1>3, <2>1, MaxIsLargest
<1>4. ASSUME t # {} PROVE Cardinality(t \ {Max(t)}) < Cardinality(t)
  <2>1. Cardinality(t \ {Max(t)}) = Cardinality(t) - 1
    BY <1>2, <1>3, <1>4, FS_RemoveElement
  <2> QED BY <1>2, <2>1
<1>5. ASSUME t # {} PROVE t \ {Max(t)} \in SUBSET (1..n)
  OBVIOUS
<1>6. Cardinality(t) \in 0..n
  BY <1>2
<1> QED BY <1>3, <1>4, <1>5, <1>6

LEMMA ReplayExists ==
    ASSUME NEW S, NEW s \in Seq(S), NEW b
    PROVE  \E h : IsReplay(b, s, h)
<1> DEFINE N == Len(s)
           Upto(n) == {t \in SUBSET (1..N) : Cardinality(t) <= n}
           G == {n \in 0..N : \E h : h = [t \in Upto(n) |-> ReplayBody(b, s, h, t)]}
<1>0. N \in Nat /\ DOMAIN s = 1..N
  OBVIOUS
<1> HIDE DEF N
<1>1. ASSUME NEW n \in 0..N, \A j \in 0..N : j < n => j \in G
      PROVE  n \in G
  <2>1. PICK g : \A t \in SUBSET (1..N) : Cardinality(t) < n => g[t] = ReplayBody(b, s, g, t)
    <3>1. CASE n = 0
      <4>1. ASSUME NEW t \in SUBSET (1..N) PROVE ~(Cardinality(t) < n)
        <5>1. Cardinality(t) \in 0..N
          BY <1>0, FewerPlaces
        <5> QED BY <3>1, <5>1
      <4> QED BY <4>1
    <3>2. CASE n # 0
      <4>1. n - 1 \in 0..N /\ n - 1 < n
        BY <3>2, <1>0
      <4>2. PICK g : g = [t \in Upto(n - 1) |-> ReplayBody(b, s, g, t)]
        BY <1>1, <4>1
      <4>3. ASSUME NEW t \in SUBSET (1..N), Cardinality(t) < n
            PROVE  g[t] = ReplayBody(b, s, g, t)
        <5>1. Cardinality(t) \in 0..N
          BY <1>0, FewerPlaces
        <5>2. t \in Upto(n - 1)
          BY <4>1, <4>3, <5>1
        <5> HIDE DEF Upto
        <5> QED BY <4>2, <5>2
      <4> QED BY <4>3
    <3> QED BY <3>1, <3>2
  <2> DEFINE h == [t \in Upto(n) |-> ReplayBody(b, s, g, t)]
  <2>2. ASSUME NEW t \in Upto(n) PROVE ReplayBody(b, s, g, t) = ReplayBody(b, s, h, t)
    <3>1. CASE t = {}
      <4> HIDE DEF h
      <4> QED BY <3>1 DEF ReplayBody
    <3>2. CASE t # {}
      <4> DEFINE u == t \ {Max(t)}
      <4>1. u \in SUBSET (1..N) /\ Cardinality(u) < Cardinality(t) /\ Cardinality(u) \in 0..N
            /\ Cardinality(t) \in 0..N /\ Cardinality(t) <= n
        BY <1>0, <3>2, FewerPlaces
      <4>2. Cardinality(u) < n /\ u \in Upto(n)
        BY <1>0, <4>1
      <4> HIDE DEF u
      <4>3. h[u] = ReplayBody(b, s, g, u) /\ g[u] = ReplayBody(b, s, g, u)
        BY <2>1, <4>1, <4>2
      <4>4. h[u] = g[u]
        BY <4>3
      <4> HIDE DEF h
      <4> QED BY <4>4 DEF ReplayBody, u
    <3> QED BY <3>1, <3>2
  <2>3. h = [t \in Upto(n) |-> ReplayBody(b, s, h, t)]
    <3> HIDE DEF Upto
    <3>1. \A t \in Upto(n) : ReplayBody(b, s, g, t) = ReplayBody(b, s, h, t)
      BY <2>2
    <3> QED BY <3>1, Zenon
  <2> HIDE DEF h
  <2> QED BY <2>3
<1>2. N \in G
  <2> HIDE DEF G
  <2>1. \A n \in 0..N : n \in G
    BY <1>0, <1>1, Climb
  <2> QED BY <2>1, <1>0
<1>3. PICK h : h = [t \in Upto(N) |-> ReplayBody(b, s, h, t)]
  BY <1>2
<1>4. Upto(N) = SUBSET DOMAIN s
  <2>1. ASSUME NEW t \in SUBSET (1..N) PROVE Cardinality(t) <= N
    <3>1. Cardinality(t) \in 0..N
      BY <1>0, FewerPlaces
    <3> QED BY <1>0, <3>1
  <2> QED BY <1>0, <2>1
<1>5. h = [t \in SUBSET DOMAIN s |-> ReplayBody(b, s, h, t)]
  BY <1>3, <1>4
<1> QED BY <1>5 DEF IsReplay

\* g holds what a replay of s has made of b after each number of operations.
ReplaysTo(b, s, g) ==
    /\ FoldLeft(Replayed, b, s) = g[1..Len(s)]
    /\ g[1..0] = b
    /\ \A n \in 1..Len(s) : g[1..n] = Replayed(g[1..(n - 1)], s[n])

\* A replay of a log, from the first operation on.
LEMMA ReplayFrom ==
    ASSUME NEW S, NEW s \in Seq(S), NEW b
    PROVE  \E g : ReplaysTo(b, s, g)
<1>0. PICK h : IsReplay(b, s, h)
  BY ReplayExists
<1>1. PICK g : IsReplay(b, s, g) /\ FoldLeft(Replayed, b, s) = g[DOMAIN s]
  BY <1>0, ReplayChosen
<1>2. DOMAIN s = 1..Len(s) /\ Len(s) \in Nat
  OBVIOUS
<1>3. \A t \in SUBSET DOMAIN s : g[t] = ReplayBody(b, s, g, t)
  BY <1>1 DEF IsReplay
<1>4. g[1..0] = b
  <2>1. 1..0 = {} /\ {} \in SUBSET DOMAIN s
    OBVIOUS
  <2> QED BY <1>3, <2>1 DEF ReplayBody
<1>5. ASSUME NEW n \in 1..Len(s) PROVE g[1..n] = Replayed(g[1..(n - 1)], s[n])
  <2>1. n \in Nat /\ n \in 1..n /\ 1..n \in SUBSET DOMAIN s /\ 1..n # {}
    <3>1. n \in Nat /\ n >= 1 /\ n <= Len(s)
      BY <1>2
    <3>2. 1..n \subseteq DOMAIN s
      BY <1>2, <3>1
    <3>3. n \in 1..n
      BY <3>1
    <3> QED BY <3>1, <3>2, <3>3
  <2>2. Max(1..n) = n
    <3>1. 1..n \in SUBSET (0..n)
      BY <2>1
    <3>2. Max(1..n) \in 1..n /\ \A y \in 1..n : y <= Max(1..n)
      BY <2>1, <3>1, MaxIsLargest
    <3>3. n <= Max(1..n)
      BY <2>1, <3>2
    <3> QED BY <2>1, <3>2, <3>3
  <2>3. 1..n \ {n} = 1..(n - 1)
    BY <2>1
  <2>4. g[1..n] = ReplayBody(b, s, g, 1..n)
    BY <1>3, <2>1
  <2> QED BY <2>1, <2>2, <2>3, <2>4 DEF ReplayBody
<1>6. FoldLeft(Replayed, b, s) = g[1..Len(s)]
  BY <1>1, <1>2
<1> QED BY <1>4, <1>5, <1>6 DEF ReplaysTo

\* Replaying no delta leaves the checkpoint, replaying one more edits what the others left.
LEMMA ReplayNothing ==
    ASSUME NEW b PROVE FoldLeft(Replayed, b, << >>) = b
<1>1. << >> \in Seq({}) /\ Len(<< >>) = 0
  OBVIOUS
<1>2. PICK g : ReplaysTo(b, << >>, g)
  BY <1>1, ReplayFrom
<1> QED BY <1>1, <1>2 DEF ReplaysTo

LEMMA ReplayOneMore ==
    ASSUME NEW S, NEW s \in Seq(S), NEW op \in S, NEW b
    PROVE  FoldLeft(Replayed, b, Append(s, op)) = Replayed(FoldLeft(Replayed, b, s), op)
<1> DEFINE r == Append(s, op)
           N == Len(s)
<1>1. /\ r \in Seq(S) /\ Len(r) = N + 1 /\ r[N + 1] = op /\ N \in Nat
      /\ \A i \in 1..N : r[i] = s[i]
  OBVIOUS
<1> HIDE DEF r
<1>2a. PICK g : ReplaysTo(b, s, g)
  BY ReplayFrom
<1>2. /\ FoldLeft(Replayed, b, s) = g[1..N]
      /\ g[1..0] = b
      /\ \A n \in 1..N : g[1..n] = Replayed(g[1..(n - 1)], s[n])
  BY <1>2a DEF ReplaysTo
<1>3a. PICK h : ReplaysTo(b, r, h)
  BY <1>1, ReplayFrom
<1>3. /\ FoldLeft(Replayed, b, r) = h[1..Len(r)]
      /\ h[1..0] = b
      /\ \A n \in 1..Len(r) : h[1..n] = Replayed(h[1..(n - 1)], r[n])
  BY <1>3a DEF ReplaysTo
<1> HIDE DEF N
<1> DEFINE G == {n \in 0..N : g[1..n] = h[1..n]}
<1>4. ASSUME NEW n \in 0..N, \A j \in 0..N : j < n => j \in G
      PROVE  n \in G
  <2>1. CASE n = 0
    BY <1>2, <1>3, <2>1
  <2>2. CASE n # 0
    <3>1. n - 1 \in 0..N /\ n - 1 < n /\ n \in 1..N /\ n \in 1..Len(r)
      BY <1>1, <2>2
    <3>2. g[1..(n - 1)] = h[1..(n - 1)]
      BY <1>4, <3>1
    <3>3. g[1..n] = Replayed(g[1..(n - 1)], s[n]) /\ h[1..n] = Replayed(h[1..(n - 1)], r[n])
      BY <1>2, <1>3, <3>1
    <3>4. r[n] = s[n]
      BY <1>1, <3>1
    <3> QED BY <3>2, <3>3, <3>4
  <2> QED BY <2>1, <2>2
<1>5. \A n \in 0..N : n \in G
  <2> HIDE DEF G
  <2> QED BY <1>1, <1>4, Climb
<1>6. g[1..N] = h[1..N]
  BY <1>1, <1>5
<1>7. h[1..(N + 1)] = Replayed(h[1..((N + 1) - 1)], r[N + 1])
  <2>1. N + 1 \in 1..Len(r)
    BY <1>1
  <2> QED BY <1>3, <2>1
<1>8. (N + 1) - 1 = N
  BY <1>1
<1> QED BY <1>1, <1>2, <1>3, <1>6, <1>7, <1>8 DEF r, N

-----------------------------------------------------------------------------
(* What mutations and compactions do to the index an open yields.          *)

Operations == {Put(FileRow(p, c)) : p \in Paths, c \in Updates}
                \cup {Del(p) : p \in Paths} \cup {Ren(p, q) : p \in Paths, q \in Paths}

ViewInv == log \in Seq(Operations) /\ CheckpointsAgree

\* Whether it writes a delta or a checkpoint, a mutation edits the index it read.
LEMMA MutationShows ==
    ASSUME ViewInv, NEW view, view = View, NEW op \in Operations, Mutate(view, op)
    PROVE  View' = Replayed(view, op) /\ ViewInv'
<1>1. plain' = Replayed(view, op)
  BY DEF ViewInv, CheckpointsAgree, Mutate
<1>2. View' = FoldLeft(Replayed, base', log')
  BY DEF View
<1>3. CASE CheckpointDue
  <2>1. base' = IndexAfterOp(view, op) /\ log' = << >>
    BY <1>3 DEF Mutate
  <2>2. IndexAfterOp(view, op) = Replayed(view, op)
    BY DEF IndexAfterOp, Replayed
  <2>3. FoldLeft(Replayed, base', << >>) = base'
    BY ReplayNothing
  <2>4. View' = Replayed(view, op)
    BY <1>2, <2>1, <2>2, <2>3
  <2>5. log' \in Seq(Operations)
    BY <2>1
  <2> QED BY <1>1, <2>4, <2>5 DEF ViewInv, CheckpointsAgree
<1>4. CASE ~CheckpointDue
  <2>1. base' = base /\ log' = Append(log, op) /\ log \in Seq(Operations)
    BY <1>4 DEF Mutate, ViewInv
  <2>2. FoldLeft(Replayed, base, Append(log, op)) = Replayed(view, op)
    BY <2>1, ReplayOneMore DEF View
  <2>3. log' \in Seq(Operations)
    BY <2>1
  <2>4. View' = Replayed(view, op)
    BY <1>2, <2>1, <2>2
  <2> QED BY <1>1, <2>3, <2>4 DEF ViewInv, CheckpointsAgree
<1> QED BY <1>3, <1>4

LEMMA CompactionShows ==
    ASSUME NEW view, view = View, Compact
    PROVE  View' = Build(Extracted(view)) /\ ViewInv'
<1>1. base' = Build(Extracted(view)) /\ log' = << >> /\ plain' = base'
  BY DEF Compact
<1>2. View' = FoldLeft(Replayed, base', log')
  BY DEF View
<1>3. FoldLeft(Replayed, base', << >>) = base'
  BY ReplayNothing
<1>4. View' = base'
  BY <1>1, <1>2, <1>3
<1> QED BY <1>1, <1>4 DEF ViewInv, CheckpointsAgree

\* An open yields the same index however mutations were divided into deltas and
\* checkpoints, for any paths, any owners and any length of chains.
THEOREM CheckpointsChangeNothing == Spec => []CheckpointsAgree
<1>1. Init => ViewInv
  <2>1. ASSUME Init PROVE log = << >> /\ plain = base
    BY <2>1 DEF Init
  <2> QED BY <2>1, ReplayNothing DEF ViewInv, CheckpointsAgree, View
<1>2. ASSUME ViewInv, [Next]_vars PROVE ViewInv'
  <2>1. ASSUME NEW p \in Paths, NEW c \in Updates, Update(p, c) PROVE ViewInv'
    BY <1>2, <2>1, MutationShows DEF Update, Operations
  <2>2. ASSUME NEW p \in Paths, Delete(p) PROVE ViewInv'
    BY <1>2, <2>2, MutationShows DEF Delete, Operations
  <2>3. ASSUME NEW p \in Paths, NEW q \in Paths, Rename(p, q) PROVE ViewInv'
    BY <1>2, <2>3, MutationShows DEF Rename, Operations
  <2>4. CASE Compact
    BY <2>4, CompactionShows
  <2>5. CASE UNCHANGED vars
    BY <1>2, <2>5 DEF vars, ViewInv, CheckpointsAgree, View
  <2> QED BY <1>2, <2>1, <2>2, <2>3, <2>4, <2>5 DEF Next
<1>3. ViewInv => CheckpointsAgree
  BY DEF ViewInv
<1> QED BY <1>1, <1>2, <1>3, PTL DEF Spec

-----------------------------------------------------------------------------
(* Sorting.                                                                *)

\* o lists the places S in the order of their keys.
Ordering(S, key, o) ==
    /\ o \in [1..Cardinality(S) -> S]
    /\ \A i \in S : \E n \in 1..Cardinality(S) : o[n] = i
    /\ \A m, n \in 1..Cardinality(S) : m < n => key[o[m]] < key[o[n]]

\* Places whose keys differ are taken once each, in the order of the keys.
LEMMA TakenInOrder ==
    ASSUME NEW S, IsFiniteSet(S), NEW key, \A i \in S : key[i] \in Nat,
           \A i, j \in S : key[i] = key[j] => i = j
    PROVE  \E o : /\ Ordering(S, key, o)
                  /\ \A s : Taken(s, S, key) = [n \in 1..Cardinality(S) |-> s[o[n]]]
<1> DEFINE N == Cardinality(S)
           Upto(i) == {j \in S : key[j] <= key[i]}
           place == [i \in S |-> Cardinality(Upto(i))]
           o == [n \in 1..N |-> CHOOSE i \in S : Cardinality(Upto(i)) = n]
<1>1. N \in Nat
  BY FS_CardinalityType
<1>2. ASSUME NEW i \in S
      PROVE  /\ IsFiniteSet(Upto(i)) /\ Cardinality(Upto(i)) \in Nat
             /\ Cardinality(Upto(i)) >= 1 /\ Cardinality(Upto(i)) <= N
  <2>1. Upto(i) \subseteq S /\ i \in Upto(i)
    OBVIOUS
  <2> HIDE DEF Upto
  <2>2. IsFiniteSet(Upto(i)) /\ Cardinality(Upto(i)) <= N
    BY <2>1, FS_Subset
  <2>3. Cardinality(Upto(i)) \in Nat
    BY <2>2, FS_CardinalityType
  <2>4. Cardinality(Upto(i)) # 0
    BY <2>1, <2>2, FS_EmptySet
  <2> QED BY <2>2, <2>3, <2>4
<1>3. ASSUME NEW i \in S, NEW j \in S, key[i] < key[j]
      PROVE  Cardinality(Upto(i)) < Cardinality(Upto(j))
  <2>1. Upto(i) \subseteq Upto(j) \ {j} /\ j \in Upto(j)
    BY <1>3
  <2> HIDE DEF Upto
  <2>2. IsFiniteSet(Upto(j) \ {j}) /\ Cardinality(Upto(j) \ {j}) = Cardinality(Upto(j)) - 1
    BY <1>2, <2>1, FS_RemoveElement
  <2>3. Cardinality(Upto(i)) <= Cardinality(Upto(j) \ {j})
    BY <2>1, <2>2, FS_Subset
  <2> QED BY <1>2, <2>2, <2>3
<1> HIDE DEF Upto
<1>4. ASSUME NEW i \in S, NEW j \in S, Cardinality(Upto(i)) = Cardinality(Upto(j))
      PROVE  i = j
  <2>1. CASE key[i] < key[j]
    BY <1>2, <1>3, <1>4, <2>1
  <2>2. CASE key[j] < key[i]
    BY <1>2, <1>3, <1>4, <2>2
  <2>3. CASE key[i] = key[j]
    BY <2>3
  <2> QED BY <2>1, <2>2, <2>3
<1>5. place \in Injection(S, 1..N)
  <2>1. place \in [S -> 1..N]
    BY <1>1, <1>2
  <2>2. IsInjective(place)
    BY <1>4 DEF IsInjective
  <2> HIDE DEF place
  <2> QED BY <2>1, <2>2 DEF Injection
<1>6. IsFiniteSet(1..N) /\ Cardinality(1..N) = N
  <2>1. IsFiniteSet(1..N) /\ Cardinality(1..N) = IF 1 > N THEN 0 ELSE N - 1 + 1
    BY <1>1, FS_Interval
  <2> QED BY <1>1, <2>1
<1>7. place \in Surjection(S, 1..N)
  <2> HIDE DEF place
  <2> QED BY <1>5, <1>6, FS_Injection
<1>8. ASSUME NEW n \in 1..N PROVE o[n] \in S /\ Cardinality(Upto(o[n])) = n
  <2>1. \E i \in S : place[i] = n
    <3> HIDE DEF place
    <3> QED BY <1>7 DEF Surjection
  <2> QED BY <2>1
<1>9. ASSUME NEW s PROVE Taken(s, S, key) = [n \in 1..N |-> s[o[n]]]
  <2>1. \A n \in 1..N : o[n] = CHOOSE i \in S : Cardinality(Upto(i)) = n
    BY Zenon
  <2> HIDE DEF o
  <2>2. Taken(s, S, key) = [n \in 1..N |-> s[CHOOSE i \in S : Cardinality(Upto(i)) = n]]
    BY Zenon DEF Taken, Upto
  <2> QED BY <2>1, <2>2, Zenon
<1> HIDE DEF o
<1>10. o \in [1..N -> S]
  <2>1. o = [n \in 1..N |-> o[n]]
    BY DEF o
  <2> QED BY <1>8, <2>1
<1>11. ASSUME NEW i \in S PROVE \E n \in 1..N : o[n] = i
  <2>1. Cardinality(Upto(i)) \in 1..N
    BY <1>1, <1>2
  <2> QED BY <1>4, <1>8, <2>1
<1>12. ASSUME NEW m \in 1..N, NEW n \in 1..N, m < n PROVE key[o[m]] < key[o[n]]
  <2>1. o[m] \in S /\ o[n] \in S /\ Cardinality(Upto(o[m])) = m /\ Cardinality(Upto(o[n])) = n
    BY <1>8
  <2>2. ~(key[o[n]] < key[o[m]])
    BY <1>3, <1>12, <2>1
  <2>3. key[o[n]] # key[o[m]]
    <3>1. o[n] # o[m]
      BY <1>12, <2>1
    <3> QED BY <2>1, <3>1
  <2> QED BY <2>1, <2>2, <2>3
<1>13. Ordering(S, key, o)
  BY <1>10, <1>11, <1>12 DEF Ordering
<1> QED BY <1>9, <1>13

-----------------------------------------------------------------------------
(* Rows.                                                                   *)

\* What a hard link names is a path, what a file holds is a content.
Rows == {r \in [path : Paths, kind : {"dir", "file", "link"},
                content : Contents \cup {None}, target : Paths \cup {None}] :
            /\ r.kind = "link" => r.target \in Paths
            /\ r.kind = "file" => r.content \in Contents}

Distinct(rows) == \A i, j \in DOMAIN rows : rows[i].path = rows[j].path => i = j

InOrder(rows) ==
    \A i, j \in DOMAIN rows : i < j => Rank[rows[i].path] < Rank[rows[j].path]

\* The row of a member is one of the rows.
LEMMA RowOfMember ==
    ASSUME NEW rows \in Seq(Rows), NEW q \in Members(rows)
    PROVE  /\ At(rows, q) \in DOMAIN rows
           /\ RowOf(rows, q) \in Rows
           /\ RowOf(rows, q).path = q
<1>1. \E i \in DOMAIN rows : rows[i].path = q
  BY DEF Members, ToSet
<1>2. At(rows, q) \in DOMAIN rows /\ rows[At(rows, q)].path = q
  BY <1>1 DEF At
<1> QED BY <1>2 DEF RowOf

LEMMA RanksDiffer ==
    /\ \A p \in Paths : Rank[p] \in Nat
    /\ \A p, q \in Paths : Rank[p] = Rank[q] => p = q
<1>1. ASSUME NEW p \in Paths PROVE Rank[p] \in DOMAIN Sorted /\ Sorted[Rank[p]] = p
  <2>1. \E i \in DOMAIN Sorted : Sorted[i] = p
    BY DEF Paths, ToSet
  <2>2. Rank[p] = CHOOSE i \in DOMAIN Sorted : Sorted[i] = p
    BY DEF Rank, Place
  <2> QED BY <2>1, <2>2
<1>2. DOMAIN Sorted \subseteq Nat
  BY IndexAssumption
<1>3. ASSUME NEW p \in Paths, NEW q \in Paths, Rank[p] = Rank[q] PROVE p = q
  BY <1>1, <1>3
<1> QED BY <1>1, <1>2, <1>3

LEMMA OrderedRowsDiffer ==
    ASSUME NEW rows \in Seq(Rows), InOrder(rows)
    PROVE  Distinct(rows)
<1>1. ASSUME NEW i \in DOMAIN rows, NEW j \in DOMAIN rows, rows[i].path = rows[j].path,
             i < j
      PROVE  FALSE
  <2>1. Rank[rows[i].path] < Rank[rows[j].path]
    BY <1>1 DEF InOrder
  <2>2. rows[i].path \in Paths
    BY DEF Rows
  <2>3. Rank[rows[i].path] \in Nat
    BY <2>2, RanksDiffer
  <2> QED BY <1>1, <2>1, <2>3
<1>2. DOMAIN rows \subseteq Nat
  OBVIOUS
<1>3. ASSUME NEW i \in DOMAIN rows, NEW j \in DOMAIN rows, rows[i].path = rows[j].path
      PROVE  i = j
  <2>1. i < j \/ j < i \/ i = j
    BY <1>2
  <2> QED BY <1>1, <1>3, <2>1
<1> QED BY <1>3 DEF Distinct

LEMMA Places ==
    ASSUME NEW S, NEW s \in Seq(S)
    PROVE  /\ DOMAIN s = 1..Len(s) /\ Len(s) \in Nat
           /\ IsFiniteSet(DOMAIN s) /\ Cardinality(DOMAIN s) = Len(s)
<1>1. DOMAIN s = 1..Len(s) /\ Len(s) \in Nat
  OBVIOUS
<1>2. IsFiniteSet(1..Len(s)) /\ Cardinality(1..Len(s)) = IF 1 > Len(s) THEN 0 ELSE Len(s) - 1 + 1
  BY <1>1, FS_Interval
<1> QED BY <1>1, <1>2

LEMMA ByPathTakes ==
    ASSUME NEW rows
    PROVE  ByPath(rows) = Taken(rows, DOMAIN rows, [i \in DOMAIN rows |-> Rank[rows[i].path]])
<1> DEFINE K(r) == [i \in DOMAIN r |-> Rank[r[i].path]]
           T(r, key) == Taken(r, DOMAIN r, key)
           sorted == UNION {{T(r, key) : key \in {K(r)}} : r \in {rows}}
<1>1. ByPath(rows) = CHOOSE s \in sorted : TRUE
  BY Zenon DEF ByPath
<1> HIDE DEF K, T
<1>2. \A r : {T(r, key) : key \in {K(r)}} = {T(r, K(r))}
  OBVIOUS
<1>3. sorted = {T(rows, K(rows))}
  BY <1>2
<1> HIDE DEF sorted
<1>4. ByPath(rows) = T(rows, K(rows))
  BY <1>1, <1>3
<1> QED BY <1>4, Zenon DEF T, K

\* A sort keeps rows and puts them in order.
LEMMA SortedByPath ==
    ASSUME NEW rows \in Seq(Rows), Distinct(rows)
    PROVE  /\ ByPath(rows) \in Seq(Rows)
           /\ InOrder(ByPath(rows))
           /\ ToSet(ByPath(rows)) = ToSet(rows)
<1> DEFINE S == DOMAIN rows
           key == [i \in S |-> Rank[rows[i].path]]
           N == Cardinality(S)
<1>1. S = 1..Len(rows) /\ Len(rows) \in Nat /\ IsFiniteSet(S) /\ N = Len(rows)
  BY Places
<1>2. \A i \in S : rows[i] \in Rows /\ rows[i].path \in Paths
  BY DEF Rows
<1>3. \A i \in S : key[i] \in Nat
  BY <1>2, RanksDiffer
<1>4. ASSUME NEW i \in S, NEW j \in S, key[i] = key[j] PROVE i = j
  <2>1. Rank[rows[i].path] = Rank[rows[j].path]
    BY <1>4
  <2>2. rows[i].path = rows[j].path
    BY <1>2, <2>1, RanksDiffer
  <2> QED BY <2>2 DEF Distinct
<1>5. ByPath(rows) = Taken(rows, S, key)
  BY ByPathTakes
<1>6. \A i \in S : key[i] = Rank[rows[i].path]
  OBVIOUS
<1> HIDE DEF key
<1>7. PICK o : /\ Ordering(S, key, o)
               /\ \A s : Taken(s, S, key) = [n \in 1..N |-> s[o[n]]]
  BY <1>1, <1>3, <1>4, TakenInOrder
<1>8. ByPath(rows) = [n \in 1..N |-> rows[o[n]]]
  BY <1>5, <1>7
<1>9. \A n \in 1..N : o[n] \in S
  BY <1>7 DEF Ordering
<1>10. ByPath(rows) \in Seq(Rows)
  BY <1>1, <1>2, <1>8, <1>9
<1>11. ASSUME NEW m \in 1..N, NEW n \in 1..N, m < n
       PROVE  Rank[rows[o[m]].path] < Rank[rows[o[n]].path]
  <2>1. key[o[m]] < key[o[n]]
    BY <1>7, <1>11 DEF Ordering
  <2> QED BY <1>6, <1>9, <2>1
<1>12. InOrder(ByPath(rows))
  BY <1>8, <1>11 DEF InOrder
<1>13. ToSet(ByPath(rows)) = ToSet(rows)
  <2>1. ToSet(rows) = {rows[i] : i \in S}
    BY DEF ToSet
  <2>2. ToSet(ByPath(rows)) = {rows[o[n]] : n \in 1..N}
    BY <1>8 DEF ToSet
  <2>3. \A i \in S : \E n \in 1..N : o[n] = i
    BY <1>7 DEF Ordering
  <2> QED BY <1>9, <2>1, <2>2, <2>3
<1> QED BY <1>10, <1>12, <1>13

\* It leaves alone what is in order.
LEMMA SortedAlready ==
    ASSUME NEW rows \in Seq(Rows), InOrder(rows)
    PROVE  ByPath(rows) = rows
<1> DEFINE N == Len(rows)
           key == [i \in DOMAIN rows |-> Rank[rows[i].path]]
<1>1. DOMAIN rows = 1..N /\ N \in Nat /\ Cardinality(DOMAIN rows) = N
  BY Places
<1>2. ASSUME NEW i \in 1..N PROVE key[i] \in Nat /\ key[i] = Rank[rows[i].path]
  <2>1. rows[i].path \in Paths
    BY <1>1 DEF Rows
  <2> QED BY <1>1, <2>1, RanksDiffer
<1>3. ByPath(rows) = Taken(rows, DOMAIN rows, key)
  BY ByPathTakes
<1> HIDE DEF key
<1>4. ASSUME NEW i \in 1..N PROVE Cardinality({j \in 1..N : key[j] <= key[i]}) = i
  <2>1. ASSUME NEW j \in 1..N PROVE key[j] <= key[i] <=> j <= i
    <3>1. key[i] \in Nat /\ key[j] \in Nat
      BY <1>2
    <3>2. (i < j => key[i] < key[j]) /\ (j < i => key[j] < key[i])
      BY <1>1, <1>2 DEF InOrder
    <3> QED BY <1>1, <3>1, <3>2
  <2>2. {j \in 1..N : key[j] <= key[i]} = 1..i
    <3>1. \A j : j \in 1..i <=> j \in 1..N /\ j <= i
      BY <1>1
    <3> QED BY <2>1, <3>1
  <2>3. Cardinality(1..i) = IF 1 > i THEN 0 ELSE i - 1 + 1
    BY <1>1, FS_Interval
  <2>4. i \in Nat /\ ~(1 > i) /\ i - 1 + 1 = i
    BY <1>1
  <2> QED BY <2>2, <2>3, <2>4
<1>5. ASSUME NEW n \in 1..N
      PROVE  (CHOOSE i \in 1..N : Cardinality({j \in 1..N : key[j] <= key[i]}) = n) = n
  BY <1>4
<1>6. Taken(rows, DOMAIN rows, key) = [n \in 1..N |-> rows[n]]
  <2>1. Taken(rows, 1..N, key) =
          [n \in 1..Cardinality(1..N) |->
              rows[CHOOSE i \in 1..N : Cardinality({j \in 1..N : key[j] <= key[i]}) = n]]
    BY DEF Taken
  <2> QED BY <1>1, <1>5, <2>1
<1> QED BY <1>1, <1>3, <1>6

\* Leaving out places keeps the others in their order.
LEMMA TakenInPlace ==
    ASSUME NEW X, NEW t \in Seq(X), NEW S \in SUBSET DOMAIN t
    PROVE  \E o : /\ InPlace(t, S) = [n \in 1..Cardinality(S) |-> t[o[n]]]
                  /\ Cardinality(S) \in Nat
                  /\ o \in [1..Cardinality(S) -> S]
                  /\ \A i \in S : \E n \in 1..Cardinality(S) : o[n] = i
                  /\ \A m, n \in 1..Cardinality(S) : m < n => o[m] < o[n]
<1> DEFINE key == [i \in S |-> i]
<1>1. IsFiniteSet(S) /\ Cardinality(S) \in Nat /\ S \subseteq Nat
  <2>1. IsFiniteSet(DOMAIN t) /\ DOMAIN t \subseteq Nat
    BY Places
  <2>2. IsFiniteSet(S)
    BY <2>1, FS_Subset
  <2> QED BY <2>1, <2>2, FS_CardinalityType
<1>2. \A i \in S : key[i] = i /\ key[i] \in Nat
  BY <1>1
<1>3. InPlace(t, S) = Taken(t, S, key)
  BY DEF InPlace
<1> HIDE DEF key
<1>4. ASSUME NEW i \in S, NEW j \in S, key[i] = key[j] PROVE i = j
  BY <1>2, <1>4
<1>5. PICK o : /\ Ordering(S, key, o)
               /\ \A s : Taken(s, S, key) = [n \in 1..Cardinality(S) |-> s[o[n]]]
  <2>1. \A i \in S : key[i] \in Nat
    BY <1>2
  <2>2. IsFiniteSet(S)
    BY <1>1
  <2> QED BY <2>1, <2>2, <1>4, TakenInOrder
<1>6. o \in [1..Cardinality(S) -> S]
  BY <1>5 DEF Ordering
<1>7. ASSUME NEW m \in 1..Cardinality(S), NEW n \in 1..Cardinality(S), m < n
      PROVE  o[m] < o[n]
  <2>1. key[o[m]] < key[o[n]]
    BY <1>5, <1>7 DEF Ordering
  <2>2. o[m] \in S /\ o[n] \in S
    BY <1>6
  <2> QED BY <1>2, <2>1, <2>2
<1>8. \A i \in S : \E n \in 1..Cardinality(S) : o[n] = i
  BY <1>5 DEF Ordering
<1> QED BY <1>1, <1>3, <1>5, <1>6, <1>7, <1>8

-----------------------------------------------------------------------------
(* Edits and builds keep one row for each path.                            *)

RowsSound(rows) == rows \in Seq(Rows) /\ InOrder(rows)

IndexSound(index) ==
    /\ index = [rows |-> index.rows, common |-> index.common, over |-> index.over]
    /\ RowsSound(index.rows)

\* The rows with p's replaced by a file of content c.
Replaced(rows, p, c) == [rows EXCEPT ![At(rows, p)] = FileRow(p, c)]

LEMMA PutKeeps ==
    ASSUME NEW rows \in Seq(Rows), Distinct(rows), NEW p \in Paths, NEW c \in Updates
    PROVE  /\ Edited(rows, Put(FileRow(p, c))) \in Seq(Rows)
           /\ Distinct(Edited(rows, Put(FileRow(p, c))))
           /\ p \in Members(rows) =>
                Edited(rows, Put(FileRow(p, c))) = Replaced(rows, p, c)
<1> DEFINE row == FileRow(p, c)
           new == Edited(rows, Put(row))
<1>1. row \in Rows /\ row.path = p
  BY DEF FileRow, Rows, Contents
<1>3. new = IF p \in Members(rows) THEN [rows EXCEPT ![At(rows, p)] = row] ELSE Append(rows, row)
  <2> HIDE DEF row
  <2> QED BY <1>1 DEF Edited, Put
<1> HIDE DEF row, new
<1>4. CASE p \in Members(rows)
  <2>1. new = [rows EXCEPT ![At(rows, p)] = row]
    BY <1>3, <1>4
  <2>2. At(rows, p) \in DOMAIN rows /\ rows[At(rows, p)].path = p
    BY <1>4, RowOfMember DEF RowOf
  <2>3. new \in Seq(Rows)
    BY <1>1, <2>1, <2>2
  <2>4. DOMAIN new = DOMAIN rows /\ \A i \in DOMAIN rows : new[i].path = rows[i].path
    BY <1>1, <2>1, <2>2
  <2>5. Distinct(new)
    BY <2>4 DEF Distinct
  <2> QED BY <2>1, <2>3, <2>5 DEF new, row, Replaced
<1>5. CASE p \notin Members(rows)
  <2>1. new = Append(rows, row)
    BY <1>3, <1>5
  <2>2. new \in Seq(Rows)
    BY <1>1, <2>1
  <2>3. DOMAIN new = 1..(Len(rows) + 1) /\ DOMAIN rows = 1..Len(rows) /\ Len(rows) \in Nat
        /\ new[Len(rows) + 1] = row /\ \A i \in 1..Len(rows) : new[i] = rows[i]
    BY <2>1
  <2>4. \A i \in 1..Len(rows) : rows[i].path # p
    BY <1>5, <2>3 DEF Members, ToSet
  <2>5. ASSUME NEW i \in DOMAIN new, NEW j \in DOMAIN new, new[i].path = new[j].path
        PROVE  i = j
    <3>1. (i \in 1..Len(rows) \/ i = Len(rows) + 1) /\ (j \in 1..Len(rows) \/ j = Len(rows) + 1)
      BY <2>3
    <3>2. CASE i \in 1..Len(rows) /\ j \in 1..Len(rows)
      BY <2>3, <2>5, <3>2 DEF Distinct
    <3>3. CASE i \in 1..Len(rows) /\ j = Len(rows) + 1
      BY <1>1, <2>3, <2>4, <2>5, <3>3
    <3>4. CASE j \in 1..Len(rows) /\ i = Len(rows) + 1
      BY <1>1, <2>3, <2>4, <2>5, <3>4
    <3> QED BY <3>1, <3>2, <3>3, <3>4
  <2>6. Distinct(new)
    BY <2>5 DEF Distinct
  <2> QED BY <1>5, <2>2, <2>6 DEF new, row
<1> QED BY <1>4, <1>5

\* What is taken in place from things that differ differs.
LEMMA TakenDiffer ==
    ASSUME NEW X, NEW t \in Seq(X), NEW S \in SUBSET DOMAIN t
    PROVE  \E o : /\ InPlace(t, S) = [n \in 1..Cardinality(S) |-> t[o[n]]]
                  /\ Cardinality(S) \in Nat
                  /\ \A n \in 1..Cardinality(S) : o[n] \in S
                  /\ \A i \in S : \E n \in 1..Cardinality(S) : o[n] = i
                  /\ \A m, n \in 1..Cardinality(S) : o[m] = o[n] => m = n
<1>1. PICK o : /\ InPlace(t, S) = [n \in 1..Cardinality(S) |-> t[o[n]]]
               /\ Cardinality(S) \in Nat
               /\ o \in [1..Cardinality(S) -> S]
               /\ \A i \in S : \E n \in 1..Cardinality(S) : o[n] = i
               /\ \A m, n \in 1..Cardinality(S) : m < n => o[m] < o[n]
  BY TakenInPlace
<1>2. \A n \in 1..Cardinality(S) : o[n] \in S
  BY <1>1
<1>3. ASSUME NEW m \in 1..Cardinality(S), NEW n \in 1..Cardinality(S), o[m] = o[n]
      PROVE  m = n
  <2>1. o[m] \in Nat /\ o[n] \in Nat
    BY <1>2
  <2>2. m \in Nat /\ n \in Nat
    BY <1>1
  <2>3. (m < n => o[m] < o[n]) /\ (n < m => o[n] < o[m])
    BY <1>1
  <2> QED BY <1>3, <2>1, <2>2, <2>3
<1> QED BY <1>1, <1>2, <1>3

LEMMA DelKeeps ==
    ASSUME NEW rows \in Seq(Rows), Distinct(rows), NEW p
    PROVE  /\ Edited(rows, Del(p)) \in Seq(Rows)
           /\ Distinct(Edited(rows, Del(p)))
<1> DEFINE S == {i \in DOMAIN rows : rows[i].path # p}
           new == Edited(rows, Del(p))
<1>1. new = InPlace(rows, S)
  BY DEF Edited, Del
<1>2. S \in SUBSET DOMAIN rows
  OBVIOUS
<1> HIDE DEF S, new
<1>3. PICK o : /\ InPlace(rows, S) = [n \in 1..Cardinality(S) |-> rows[o[n]]]
               /\ Cardinality(S) \in Nat
               /\ \A n \in 1..Cardinality(S) : o[n] \in S
               /\ \A m, n \in 1..Cardinality(S) : o[m] = o[n] => m = n
  BY <1>2, TakenDiffer
<1>4. \A n \in 1..Cardinality(S) : o[n] \in DOMAIN rows /\ rows[o[n]] \in Rows
  BY <1>2, <1>3
<1>5. new \in Seq(Rows)
  BY <1>1, <1>3, <1>4
<1>6. DOMAIN new = 1..Cardinality(S) /\ \A n \in 1..Cardinality(S) : new[n] = rows[o[n]]
  BY <1>1, <1>3
<1>7. Distinct(new)
  BY <1>3, <1>4, <1>6 DEF Distinct
<1> QED BY <1>5, <1>7 DEF new

LEMMA RenKeeps ==
    ASSUME NEW rows \in Seq(Rows), Distinct(rows), NEW p \in Members(rows),
           NEW q \in Paths, q \notin Members(rows)
    PROVE  /\ Edited(rows, Ren(p, q)) \in Seq(Rows)
           /\ Distinct(Edited(rows, Ren(p, q)))
<1> DEFINE k == At(rows, p)
           new == Edited(rows, Ren(p, q))
<1>1. new = [rows EXCEPT ![k].path = q]
  BY DEF Edited, Ren
<1>2. k \in DOMAIN rows /\ rows[k] \in Rows
  BY RowOfMember DEF RowOf
<1> HIDE DEF k, new
<1>3. DOMAIN new = DOMAIN rows /\ new[k] = [rows[k] EXCEPT !.path = q]
      /\ \A i \in DOMAIN rows \ {k} : new[i] = rows[i]
  BY <1>1, <1>2
<1>4. new[k] \in Rows /\ new[k].path = q
  BY <1>2, <1>3 DEF Rows
<1>5. new \in Seq(Rows)
  <2>1. \A i \in DOMAIN rows : new[i] \in Rows
    BY <1>3, <1>4
  <2>2. DOMAIN rows = 1..Len(rows) /\ Len(rows) \in Nat
    OBVIOUS
  <2>3. new = [i \in 1..Len(rows) |-> new[i]]
    BY <1>1, <1>3, <2>2
  <2> QED BY <2>1, <2>2, <2>3
<1>6. \A i \in DOMAIN rows : rows[i].path # q
  BY DEF Members, ToSet
<1>7. Distinct(new)
  BY <1>3, <1>4, <1>6 DEF Distinct
<1> QED BY <1>5, <1>7 DEF new

LEMMA ReplayKeeps ==
    ASSUME NEW index, IndexSound(index), NEW op,
           Edited(index.rows, op) \in Seq(Rows), Distinct(Edited(index.rows, op))
    PROVE  IndexSound(Replayed(index, op))
<1> DEFINE new == Replayed(index, op)
<1>1. new = [rows |-> ByPath(Edited(index.rows, op)), common |-> index.common, over |-> index.over]
  BY DEF Replayed, IndexSound
<1> HIDE DEF new
<1>2. new.rows \in Seq(Rows) /\ InOrder(new.rows)
  BY <1>1, SortedByPath
<1> QED BY <1>1, <1>2 DEF IndexSound, RowsSound, new

-----------------------------------------------------------------------------
\* A tree a build may meet: only what the walk finds is a file, and it has a content.
TreeSound(tree) ==
    \A p \in DOMAIN tree : /\ tree[p].kind \in {"dir", "file"}
                           /\ tree[p].kind = "file" => /\ p \in Canonical
                                                       /\ tree[p].content \in Contents

LEMMA FirstIsFile ==
    ASSUME NEW tree, TreeSound(tree), NEW p \in DOMAIN tree, tree[p].kind = "file"
    PROVE  /\ FirstWalked(tree, p) \in DOMAIN tree
           /\ FirstWalked(tree, p) \in Canonical
           /\ tree[FirstWalked(tree, p)].kind = "file"
           /\ tree[FirstWalked(tree, p)].inode = tree[p].inode
<1> DEFINE same == {q \in DOMAIN tree : tree[q].kind = "file" /\ tree[q].inode = tree[p].inode}
           ranks == {Place(q, Walked) : q \in same}
           N == Len(Walked)
<1>1. Walked \in Seq(Canonical) /\ N \in Nat /\ DOMAIN Walked = 1..N
  BY IndexAssumption
<1>2. ASSUME NEW q \in same PROVE q \in Canonical /\ Place(q, Walked) \in 1..N
  <2>1. q \in Canonical
    BY DEF TreeSound
  <2>2. \E i \in DOMAIN Walked : Walked[i] = q
    BY <2>1, IndexAssumption DEF ToSet
  <2> QED BY <1>1, <2>1, <2>2 DEF Place
<1>3. p \in same
  OBVIOUS
<1>4. FirstWalked(tree, p) = CHOOSE q \in same : \A r \in same : Place(q, Walked) <= Place(r, Walked)
  BY DEF FirstWalked
<1> HIDE DEF same
<1>5. ranks \in SUBSET (0..N) /\ ranks # {}
  BY <1>1, <1>2, <1>3
<1>6. Min(ranks) \in ranks /\ \A y \in ranks : Min(ranks) <= y
  <2> HIDE DEF ranks, N
  <2> QED BY <1>1, <1>5, MinIsSmallest
<1>7. PICK q \in same : \A r \in same : Place(q, Walked) <= Place(r, Walked)
  BY <1>6
<1>8. FirstWalked(tree, p) \in same
  BY <1>4, <1>7
<1> QED BY <1>2, <1>8 DEF same

LEMMA BuiltRows ==
    ASSUME NEW tree, TreeSound(tree), NEW p \in DOMAIN tree, p \in Canonical
    PROVE  /\ BuiltRow(tree, p) \in Rows
           /\ BuiltRow(tree, p).path = p
<1>1. p \in Paths
  BY DEF Canonical
<1>2. CASE tree[p].kind = "dir"
  <2>1. BuiltRow(tree, p) = DirRow(p)
    BY <1>2 DEF BuiltRow
  <2> QED BY <1>1, <2>1 DEF DirRow, Rows
<1>3. CASE tree[p].kind = "file"
  <2>1. CASE FirstWalked(tree, p) = p
    <3>1. BuiltRow(tree, p) = FileRow(p, tree[p].content)
      BY <1>3, <2>1 DEF BuiltRow
    <3>2. tree[p].content \in Contents
      BY <1>3 DEF TreeSound
    <3>3. FileRow(p, tree[p].content) \in Rows /\ FileRow(p, tree[p].content).path = p
      BY <1>1, <3>2 DEF FileRow, Rows
    <3> QED BY <3>1, <3>3
  <2>2. CASE FirstWalked(tree, p) # p
    <3>1. BuiltRow(tree, p) = LinkRow(p, FirstWalked(tree, p))
      BY <1>3, <2>2 DEF BuiltRow
    <3>2. FirstWalked(tree, p) \in Paths
      BY <1>3, FirstIsFile DEF Canonical
    <3>3. LinkRow(p, FirstWalked(tree, p)) \in Rows /\ LinkRow(p, FirstWalked(tree, p)).path = p
      BY <1>1, <3>2 DEF LinkRow, Rows
    <3> QED BY <3>1, <3>3
  <2> QED BY <2>1, <2>2
<1>4. tree[p].kind = "dir" \/ tree[p].kind = "file"
  BY DEF TreeSound
<1> QED BY <1>2, <1>3, <1>4

\* What a build of a tree stores.
IsTableOf(index, tree) ==
    /\ Members(index.rows) = DOMAIN tree \cap Canonical
    /\ \A p \in Members(index.rows) : /\ RowOf(index.rows, p) = BuiltRow(tree, p)
                                     /\ OwnerOf(index, p) = tree[p].owner
    /\ DOMAIN index.over \subseteq DOMAIN index.rows

LEMMA BuildSound ==
    ASSUME NEW tree, TreeSound(tree)
    PROVE  IndexSound(Build(tree)) /\ IsTableOf(Build(tree), tree)
<1> DEFINE S == {i \in DOMAIN Walked : Walked[i] \in DOMAIN tree}
           walk == InPlace(Walked, S)
           rows == [i \in DOMAIN walk |-> BuiltRow(tree, walk[i])]
           index == Build(tree)
           Owned(o) == {i \in DOMAIN index.rows : tree[index.rows[i].path].owner = o}
<1>1. PICK o : /\ walk = [n \in 1..Cardinality(S) |-> Walked[o[n]]]
               /\ Cardinality(S) \in Nat
               /\ \A n \in 1..Cardinality(S) : o[n] \in S
               /\ \A i \in S : \E n \in 1..Cardinality(S) : o[n] = i
               /\ \A m, n \in 1..Cardinality(S) : o[m] = o[n] => m = n
  <2>1. Walked \in Seq(Canonical) /\ S \in SUBSET DOMAIN Walked
    BY IndexAssumption
  <2> HIDE DEF S
  <2> QED BY <2>1, TakenDiffer
<1>2. ASSUME NEW n \in 1..Cardinality(S)
      PROVE  o[n] \in DOMAIN Walked /\ Walked[o[n]] \in DOMAIN tree /\ Walked[o[n]] \in Canonical
  <2>1. o[n] \in DOMAIN Walked /\ Walked[o[n]] \in DOMAIN tree
    BY <1>1
  <2> QED BY <2>1, IndexAssumption DEF ToSet
<1>2a. ASSUME NEW p \in DOMAIN tree \cap Canonical
       PROVE  \E n \in 1..Cardinality(S) : Walked[o[n]] = p
  <2>1. PICK i \in DOMAIN Walked : Walked[i] = p
    BY IndexAssumption DEF ToSet
  <2>2. i \in S
    BY <2>1
  <2> HIDE DEF S
  <2> QED BY <1>1, <2>1, <2>2
<1>2b. \E common : index = [rows |-> ByPath(rows), common |-> common,
                            over |-> [i \in DOMAIN ByPath(rows) \ {j \in DOMAIN ByPath(rows) :
                                                tree[ByPath(rows)[j].path].owner = common}
                                       |-> tree[ByPath(rows)[i].path].owner]]
  BY Zenon DEF Build, S
<1> HIDE DEF S
<1>3. DOMAIN rows = 1..Cardinality(S)
      /\ \A n \in 1..Cardinality(S) : rows[n] = BuiltRow(tree, Walked[o[n]])
  BY <1>1
<1> HIDE DEF index, rows
<1>4. ASSUME NEW n \in 1..Cardinality(S)
      PROVE  rows[n] \in Rows /\ rows[n].path = Walked[o[n]]
  <2>1. BuiltRow(tree, Walked[o[n]]) \in Rows /\ BuiltRow(tree, Walked[o[n]]).path = Walked[o[n]]
    BY <1>2, BuiltRows
  <2> QED BY <1>3, <2>1
<1>5. rows \in Seq(Rows)
  <2>1. rows = [n \in 1..Cardinality(S) |-> rows[n]]
    BY <1>1 DEF rows
  <2> QED BY <1>1, <1>4, <2>1
<1>6. ASSUME NEW i \in DOMAIN rows, NEW j \in DOMAIN rows, rows[i].path = rows[j].path
      PROVE  i = j
  <2>1. i \in 1..Cardinality(S) /\ j \in 1..Cardinality(S)
    BY <1>3
  <2>2. Walked[o[i]] = Walked[o[j]]
    BY <1>4, <1>6, <2>1
  <2>3. o[i] = o[j]
    BY <1>2, <2>1, <2>2, IndexAssumption
  <2> QED BY <1>1, <2>1, <2>3
<1>7. Distinct(rows)
  BY <1>6 DEF Distinct
<1>8. PICK common : index = [rows |-> ByPath(rows), common |-> common,
                            over |-> [i \in DOMAIN ByPath(rows) \ {j \in DOMAIN ByPath(rows) :
                                                tree[ByPath(rows)[j].path].owner = common}
                                       |-> tree[ByPath(rows)[i].path].owner]]
  BY <1>2b
<1>9. ByPath(rows) \in Seq(Rows) /\ InOrder(ByPath(rows)) /\ ToSet(ByPath(rows)) = ToSet(rows)
  BY <1>5, <1>7, SortedByPath
<1>10. index.rows = ByPath(rows) /\ index.common = common
       /\ index.over = [i \in DOMAIN index.rows \ Owned(common) |-> tree[index.rows[i].path].owner]
  BY <1>8
<1>11. IndexSound(index)
  BY <1>8, <1>9, <1>10 DEF IndexSound, RowsSound
<1>12. ASSUME NEW i \in DOMAIN index.rows
       PROVE  /\ index.rows[i].path \in DOMAIN tree \cap Canonical
              /\ index.rows[i] = BuiltRow(tree, index.rows[i].path)
  <2>1. index.rows[i] \in ToSet(rows)
    BY <1>9, <1>10 DEF ToSet
  <2>2. PICK n \in 1..Cardinality(S) : index.rows[i] = rows[n]
    BY <1>3, <2>1 DEF ToSet
  <2> QED BY <1>2, <1>3, <1>4, <2>2
<1>13. ASSUME NEW p \in DOMAIN tree \cap Canonical PROVE p \in Members(index.rows)
  <2>1. PICK n \in 1..Cardinality(S) : Walked[o[n]] = p
    BY <1>2a
  <2>2. rows[n] \in ToSet(rows) /\ rows[n].path = p
    BY <1>3, <1>4, <2>1 DEF ToSet
  <2> QED BY <1>9, <1>10, <2>2 DEF Members
<1>14. Members(index.rows) = DOMAIN tree \cap Canonical
  <2>1. \A p \in Members(index.rows) : \E i \in DOMAIN index.rows : index.rows[i].path = p
    BY DEF Members, ToSet
  <2> QED BY <1>12, <1>13, <2>1
<1>15. ASSUME NEW p \in Members(index.rows)
       PROVE  RowOf(index.rows, p) = BuiltRow(tree, p) /\ OwnerOf(index, p) = tree[p].owner
  <2>1. At(index.rows, p) \in DOMAIN index.rows /\ index.rows[At(index.rows, p)].path = p
    BY <1>9, <1>10, RowOfMember DEF RowOf
  <2>2. RowOf(index.rows, p) = BuiltRow(tree, p)
    BY <1>12, <2>1 DEF RowOf
  <2> DEFINE k == At(index.rows, p)
             over == index.over
  <2>3. k \in DOMAIN over <=> tree[p].owner # common
    BY <1>10, <2>1
  <2>4. k \in DOMAIN over => over[k] = tree[p].owner
    BY <1>10, <2>1
  <2>5. OwnerOf(index, p) = IF k \in DOMAIN over THEN over[k] ELSE common
    BY <1>10 DEF OwnerOf
  <2> HIDE DEF k, over
  <2> QED BY <2>2, <2>3, <2>4, <2>5
<1>16. DOMAIN index.over \subseteq DOMAIN index.rows
  BY <1>10
<1> QED BY <1>11, <1>14, <1>15, <1>16 DEF IsTableOf, index

-----------------------------------------------------------------------------
(* What lies above a path, and the file a hard link ends up as.            *)

AboveBody(h, p) == IF Parent[p] = None THEN {} ELSE {Parent[p]} \cup h[Parent[p]]
IsAbove(h) == h = [p \in Paths |-> AboveBody(h, p)]

LEMMA AboveChosen ==
    ASSUME NEW h, IsAbove(h)
    PROVE  IsAbove(Above)
<1> DEFINE g == CHOOSE f : f = [p \in Paths |-> AboveBody(f, p)]
<1>1. g = [p \in Paths |-> AboveBody(g, p)]
  BY Zenon DEF IsAbove
<1>2. Above = g
  BY DEF Above, AboveBody
<1> QED BY <1>1, <1>2, Zenon DEF IsAbove

\* A directory sorts before what lies in it.
LEMMA ParentsFirst ==
    ASSUME NEW p \in Paths
    PROVE  /\ Rank[p] \in 0..Len(Sorted)
           /\ Parent[p] # None => /\ Parent[p] \in Canonical /\ Parent[p] \in Paths
                                  /\ Rank[Parent[p]] < Rank[p]
<1>1. ASSUME NEW q \in Paths PROVE Rank[q] \in DOMAIN Sorted /\ Sorted[Rank[q]] = q
  <2>1. \E i \in DOMAIN Sorted : Sorted[i] = q
    BY DEF Paths, ToSet
  <2>2. Rank[q] = CHOOSE i \in DOMAIN Sorted : Sorted[i] = q
    BY DEF Rank, Place
  <2> QED BY <2>1, <2>2
<1>2. DOMAIN Sorted = 1..Len(Sorted) /\ Len(Sorted) \in Nat
  BY IndexAssumption
<1>3. ASSUME Parent[p] # None
      PROVE  Parent[p] \in Canonical /\ Parent[p] \in Paths /\ Rank[Parent[p]] < Rank[p]
  <2>1. Parent[p] \in Canonical /\ Parent[p] \in Paths
    BY <1>3, IndexAssumption DEF Canonical
  <2>2. Rank[p] \in DOMAIN Sorted /\ Sorted[Rank[p]] = p
        /\ Rank[Parent[p]] \in DOMAIN Sorted /\ Sorted[Rank[Parent[p]]] = Parent[p]
    BY <1>1, <2>1
  <2>3. Rank[Parent[p]] < Rank[p]
    BY <2>2, IndexAssumption
  <2> QED BY <2>1, <2>3
<1> QED BY <1>1, <1>2, <1>3

LEMMA AboveExists == \E h : IsAbove(h)
<1> DEFINE N == Len(Sorted)
           Follows(h, n) == \A p \in Paths : Rank[p] <= n => h[p] = AboveBody(h, p)
           G == {n \in 0..N : \E h : Follows(h, n)}
<1>0. N \in Nat
  BY IndexAssumption
<1> HIDE DEF N
<1>1. \A p \in Paths : Rank[p] \in 0..N
  BY ParentsFirst DEF N
<1>2. ASSUME NEW n \in 0..N, \A j \in 0..N : j < n => j \in G
      PROVE  n \in G
  <2>1. PICK g : \A p \in Paths : Rank[p] < n => g[p] = AboveBody(g, p)
    <3>1. CASE n = 0
      <4>1. \A p \in Paths : ~(Rank[p] < n)
        BY <1>0, <1>1, <3>1
      <4> QED BY <4>1
    <3>2. CASE n # 0
      <4>1. n - 1 \in 0..N /\ n - 1 < n
        BY <1>0, <3>2
      <4>2. PICK g : Follows(g, n - 1)
        BY <1>2, <4>1
      <4>3. ASSUME NEW p \in Paths, Rank[p] < n PROVE Rank[p] <= n - 1
        BY <1>0, <1>1, <4>3
      <4> QED BY <4>2, <4>3
    <3> QED BY <3>1, <3>2
  <2> DEFINE h == [p \in Paths |-> AboveBody(g, p)]
  <2>2. ASSUME NEW p \in Paths, Rank[p] <= n
        PROVE  AboveBody(g, p) = AboveBody(h, p)
    <3>1. CASE Parent[p] # None
      <4>1. Parent[p] \in Paths /\ Rank[Parent[p]] < Rank[p]
        BY <3>1, ParentsFirst
      <4>2. Rank[Parent[p]] < n
        BY <1>0, <1>1, <2>2, <4>1
      <4>3. h[Parent[p]] = g[Parent[p]]
        BY <2>1, <4>1, <4>2
      <4> HIDE DEF h
      <4> QED BY <4>3 DEF AboveBody
    <3>2. CASE Parent[p] = None
      <4> HIDE DEF h
      <4> QED BY <3>2 DEF AboveBody
    <3> QED BY <3>1, <3>2
  <2>3. Follows(h, n)
    <3>1. \A p \in Paths : h[p] = AboveBody(g, p)
      OBVIOUS
    <3> HIDE DEF h
    <3> QED BY <2>2, <3>1
  <2> HIDE DEF h, Follows
  <2> QED BY <2>3
<1>3. N \in G
  <2> HIDE DEF G
  <2>1. \A n \in 0..N : n \in G
    BY <1>0, <1>2, Climb
  <2> QED BY <2>1, <1>0
<1>4. PICK g : Follows(g, N)
  BY <1>3
<1>5. \A p \in Paths : g[p] = AboveBody(g, p)
  BY <1>0, <1>1, <1>4
<1> DEFINE h == [p \in Paths |-> g[p]]
<1>6. ASSUME NEW p \in Paths PROVE AboveBody(g, p) = AboveBody(h, p)
  <2>1. Parent[p] # None => Parent[p] \in Paths
    BY ParentsFirst
  <2>2. Parent[p] # None => g[Parent[p]] = h[Parent[p]]
    BY <2>1
  <2> HIDE DEF h
  <2> QED BY <2>2 DEF AboveBody
<1>7. h = [p \in Paths |-> AboveBody(h, p)]
  <2>1. \A p \in Paths : g[p] = AboveBody(h, p)
    BY <1>5, <1>6
  <2> QED BY <2>1, Zenon
<1> QED BY <1>7 DEF IsAbove

LEMMA AboveStep ==
    ASSUME NEW p \in Paths
    PROVE  Above[p] = IF Parent[p] = None THEN {} ELSE {Parent[p]} \cup Above[Parent[p]]
<1>1. IsAbove(Above)
  BY AboveExists, AboveChosen
<1> QED BY <1>1, Zenon DEF IsAbove, AboveBody

\* What lies above a path is canonical, and so is what lies above that.
LEMMA AboveClosed ==
    ASSUME NEW p \in Paths
    PROVE  /\ Above[p] \subseteq Canonical
           /\ \A q \in Above[p] : Parent[q] # None => Parent[q] \in Above[p]
<1> DEFINE N == Len(Sorted)
           G == {n \in 0..N : \A q \in Paths : Rank[q] = n =>
                   /\ Above[q] \subseteq Canonical
                   /\ \A r \in Above[q] : Parent[r] # None => Parent[r] \in Above[q]}
<1>0. N \in Nat
  BY IndexAssumption
<1> HIDE DEF N
<1>1. ASSUME NEW n \in 0..N, \A j \in 0..N : j < n => j \in G
      PROVE  n \in G
  <2> SUFFICES ASSUME NEW q \in Paths, Rank[q] = n
               PROVE  /\ Above[q] \subseteq Canonical
                      /\ \A r \in Above[q] : Parent[r] # None => Parent[r] \in Above[q]
    OBVIOUS
  <2>1. CASE Parent[q] = None
    BY <2>1, AboveStep
  <2>2. CASE Parent[q] # None
    <3> DEFINE t == Parent[q]
    <3>1. t \in Canonical /\ t \in Paths /\ Rank[t] \in 0..N /\ Rank[t] < n
      BY <2>2, ParentsFirst DEF N
    <3>2. Above[q] = {t} \cup Above[t]
      BY <2>2, AboveStep
    <3>3. /\ Above[t] \subseteq Canonical
          /\ \A r \in Above[t] : Parent[r] # None => Parent[r] \in Above[t]
      BY <1>1, <3>1
    <3>4. Above[t] = IF Parent[t] = None THEN {} ELSE {Parent[t]} \cup Above[Parent[t]]
      BY <3>1, AboveStep
    <3> HIDE DEF t
    <3>5. Parent[t] # None => Parent[t] \in Above[t]
      BY <3>4
    <3> QED BY <3>1, <3>2, <3>3, <3>5
  <2> QED BY <2>1, <2>2
<1>2. \A n \in 0..N : n \in G
  <2> HIDE DEF G
  <2> QED BY <1>0, <1>1, Climb
<1>3. Rank[p] \in 0..N
  BY ParentsFirst DEF N
<1> QED BY <1>2, <1>3

\* The row a hard link is made from.
Source(rows, i) == CHOOSE j \in 1..i - 1 : Canon[rows[j].path] = Canon[rows[i].target]
HolderBody(rows, h, i) == IF rows[i].kind = "link" THEN h[Source(rows, i)] ELSE i
IsHolder(rows, h) == h = [i \in DOMAIN rows |-> HolderBody(rows, h, i)]

LEMMA HolderChosen ==
    ASSUME NEW rows, NEW h, IsHolder(rows, h)
    PROVE  IsHolder(rows, Holder(rows))
<1> DEFINE g == CHOOSE f : f = [i \in DOMAIN rows |-> HolderBody(rows, f, i)]
<1>1. g = [i \in DOMAIN rows |-> HolderBody(rows, g, i)]
  BY Zenon DEF IsHolder
<1>2. Holder(rows) = g
  BY DEF Holder, HolderBody, Source
<1> QED BY <1>1, <1>2, Zenon DEF IsHolder

\* A row that can be made has its source before it, and it is no directory.
LEMMA SourceIsBefore ==
    ASSUME NEW rows \in Seq(Rows), Extractable(rows), NEW i \in DOMAIN rows,
           rows[i].kind = "link"
    PROVE  /\ Source(rows, i) \in 1..i - 1 /\ Source(rows, i) \in DOMAIN rows
           /\ rows[Source(rows, i)].kind # "dir"
           /\ Canon[rows[Source(rows, i)].path] = Canon[rows[i].target]
<1>1. DOMAIN rows = 1..Len(rows) /\ Len(rows) \in Nat
  OBVIOUS
<1>2. PICK j \in 1..i - 1 : rows[j].kind # "dir" /\ Canon[rows[j].path] = Canon[rows[i].target]
  BY DEF Extractable
<1>3. Source(rows, i) \in 1..i - 1 /\ Canon[rows[Source(rows, i)].path] = Canon[rows[i].target]
  BY <1>2 DEF Source
<1>4. j \in DOMAIN rows /\ Source(rows, i) \in DOMAIN rows
  BY <1>1, <1>2, <1>3
<1>5. Source(rows, i) = j
  BY <1>2, <1>3, <1>4 DEF Extractable, Opens
<1> QED BY <1>2, <1>3, <1>4, <1>5

LEMMA HolderExists ==
    ASSUME NEW rows \in Seq(Rows), Extractable(rows)
    PROVE  \E h : IsHolder(rows, h)
<1> DEFINE N == Len(rows)
           Follows(h, n) == \A i \in DOMAIN rows : i <= n => h[i] = HolderBody(rows, h, i)
           G == {n \in 0..N : \E h : Follows(h, n)}
<1>0. N \in Nat /\ DOMAIN rows = 1..N
  OBVIOUS
<1> HIDE DEF N
<1>1. ASSUME NEW n \in 0..N, \A j \in 0..N : j < n => j \in G
      PROVE  n \in G
  <2>1. PICK g : \A i \in DOMAIN rows : i < n => g[i] = HolderBody(rows, g, i)
    <3>1. CASE n = 0
      <4>1. \A i \in DOMAIN rows : ~(i < n)
        BY <1>0, <3>1
      <4> QED BY <4>1
    <3>2. CASE n # 0
      <4>1. n - 1 \in 0..N /\ n - 1 < n
        BY <1>0, <3>2
      <4>2. PICK g : Follows(g, n - 1)
        BY <1>1, <4>1
      <4>3. ASSUME NEW i \in DOMAIN rows, i < n PROVE i <= n - 1
        BY <1>0, <4>3
      <4> QED BY <4>2, <4>3
    <3> QED BY <3>1, <3>2
  <2> DEFINE h == [i \in DOMAIN rows |-> HolderBody(rows, g, i)]
  <2>2. ASSUME NEW i \in DOMAIN rows, i <= n
        PROVE  HolderBody(rows, g, i) = HolderBody(rows, h, i)
    <3>1. CASE rows[i].kind = "link"
      <4> DEFINE j == Source(rows, i)
      <4>1. j \in 1..i - 1 /\ j \in DOMAIN rows
        BY <3>1, SourceIsBefore
      <4> HIDE DEF j
      <4>2. j < n
        BY <1>0, <2>2, <4>1
      <4>3. h[j] = g[j]
        BY <2>1, <4>1, <4>2
      <4> HIDE DEF h
      <4> QED BY <4>3 DEF HolderBody, j
    <3>2. CASE rows[i].kind # "link"
      <4> HIDE DEF h
      <4> QED BY <3>2 DEF HolderBody
    <3> QED BY <3>1, <3>2
  <2>3. Follows(h, n)
    <3>1. \A i \in DOMAIN rows : h[i] = HolderBody(rows, g, i)
      OBVIOUS
    <3> HIDE DEF h
    <3> QED BY <2>2, <3>1
  <2> HIDE DEF h, Follows
  <2> QED BY <2>3
<1>2. N \in G
  <2> HIDE DEF G
  <2>1. \A n \in 0..N : n \in G
    BY <1>0, <1>1, Climb
  <2> QED BY <2>1, <1>0
<1>3. PICK g : Follows(g, N)
  BY <1>2
<1>4. \A i \in DOMAIN rows : g[i] = HolderBody(rows, g, i)
  BY <1>0, <1>3
<1> DEFINE h == [i \in DOMAIN rows |-> g[i]]
<1>5. ASSUME NEW i \in DOMAIN rows PROVE HolderBody(rows, g, i) = HolderBody(rows, h, i)
  <2>1. rows[i].kind = "link" => Source(rows, i) \in DOMAIN rows
    BY SourceIsBefore
  <2>2. rows[i].kind = "link" => g[Source(rows, i)] = h[Source(rows, i)]
    BY <2>1
  <2> HIDE DEF h
  <2> QED BY <2>2 DEF HolderBody
<1>6. h = [i \in DOMAIN rows |-> HolderBody(rows, h, i)]
  <2>1. \A i \in DOMAIN rows : g[i] = HolderBody(rows, h, i)
    BY <1>4, <1>5
  <2> QED BY <2>1, Zenon
<1> QED BY <1>6 DEF IsHolder

LEMMA HolderStep ==
    ASSUME NEW rows \in Seq(Rows), Extractable(rows), NEW i \in DOMAIN rows
    PROVE  Holder(rows)[i] = IF rows[i].kind = "link" THEN Holder(rows)[Source(rows, i)] ELSE i
<1>1. IsHolder(rows, Holder(rows))
  BY HolderExists, HolderChosen
<1> QED BY <1>1, Zenon DEF IsHolder, HolderBody

\* A hard link ends up as a file, anything else as itself.
LEMMA HoldersAreFiles ==
    ASSUME NEW rows \in Seq(Rows), Extractable(rows), NEW i \in DOMAIN rows
    PROVE  /\ Holder(rows)[i] \in DOMAIN rows
           /\ rows[i].kind = "dir" => Holder(rows)[i] = i
           /\ rows[i].kind # "dir" => rows[Holder(rows)[i]].kind = "file"
<1> DEFINE h == Holder(rows)
           N == Len(rows)
           Fine(k) == /\ h[k] \in DOMAIN rows
                      /\ rows[k].kind = "dir" => h[k] = k
                      /\ rows[k].kind # "dir" => rows[h[k]].kind = "file"
           G == {n \in 0..N : n \in DOMAIN rows => Fine(n)}
<1>0. N \in Nat /\ DOMAIN rows = 1..N
  OBVIOUS
<1> HIDE DEF N
<1>1. ASSUME NEW n \in 0..N, \A j \in 0..N : j < n => j \in G
      PROVE  n \in G
  <2> SUFFICES ASSUME n \in DOMAIN rows PROVE Fine(n)
    OBVIOUS
  <2>1. h[n] = IF rows[n].kind = "link" THEN h[Source(rows, n)] ELSE n
    BY HolderStep
  <2> HIDE DEF h
  <2>2. CASE rows[n].kind = "link"
    <3> DEFINE j == Source(rows, n)
    <3>1. j \in 1..n - 1 /\ j \in DOMAIN rows /\ rows[j].kind # "dir"
      BY <2>2, SourceIsBefore
    <3> HIDE DEF j
    <3>2. j \in 0..N /\ j < n
      BY <1>0, <3>1
    <3>3. Fine(j)
      BY <1>1, <3>1, <3>2
    <3>4. h[n] = h[j]
      BY <2>1, <2>2 DEF j
    <3> QED BY <2>2, <3>1, <3>3, <3>4
  <2>3. CASE rows[n].kind # "link"
    <3>1. rows[n].kind \in {"dir", "file", "link"}
      BY DEF Rows
    <3> QED BY <2>1, <2>3, <3>1
  <2> QED BY <2>2, <2>3
<1>2. \A n \in 0..N : n \in G
  <2> HIDE DEF G
  <2> QED BY <1>0, <1>1, Climb
<1>3. i \in 0..N
  BY <1>0
<1> QED BY <1>2, <1>3

-----------------------------------------------------------------------------
(* What compaction extracts.                                               *)

Made(rows) == {Canon[r.path] : r \in ToSet(rows)}
Held(rows, i) == {j \in DOMAIN rows : Holder(rows)[j] = Holder(rows)[i]}

\* What is found on disk of the i-th row.
NodeOf(index, i) ==
    LET rows == index.rows
        h == Holder(rows)[i]
    IN  Node(IF rows[h].kind = "dir" THEN "dir" ELSE "file",
             Canon[rows[h].path], rows[h].content, OwnerSet(index, Held(rows, i)))

LEMMA CanonicalPaths ==
    ASSUME NEW rows \in Seq(Rows), NEW i \in DOMAIN rows
    PROVE  /\ rows[i].path \in Paths
           /\ Canon[rows[i].path] \in Canonical /\ Canon[rows[i].path] \in Paths
           /\ Canon[rows[i].path] \in Made(rows)
<1>1. rows[i].path \in Paths
  BY DEF Rows
<1>2. Canon[rows[i].path] \in Canonical
  BY <1>1, IndexAssumption
<1>3. rows[i] \in ToSet(rows)
  BY DEF ToSet
<1> QED BY <1>1, <1>2, <1>3 DEF Canonical, Made

LEMMA MadeOfRows ==
    ASSUME NEW rows, NEW p \in Made(rows)
    PROVE  \E i \in DOMAIN rows : p = Canon[rows[i].path]
BY DEF Made, ToSet

LEMMA ExtractedNodes ==
    ASSUME NEW index, index.rows \in Seq(Rows), Extractable(index.rows)
    PROVE  /\ DOMAIN Extracted(index) = Made(index.rows) \cup MissingParents(Made(index.rows))
           /\ \A i \in DOMAIN index.rows :
                 Extracted(index)[Canon[index.rows[i].path]] = NodeOf(index, i)
           /\ \A p \in MissingParents(Made(index.rows)) :
                 p \notin Made(index.rows) => Extracted(index)[p] = Node("dir", p, None, Root)
<1> DEFINE rows == index.rows
           RowAt(p) == CHOOSE i \in DOMAIN rows : Canon[rows[i].path] = p
<1>1. Extracted(index) = [p \in Made(rows) \cup MissingParents(Made(rows)) |->
                            IF p \in Made(rows) THEN NodeOf(index, RowAt(p))
                            ELSE Node("dir", p, None, Root)]
  BY DEF Extracted, Made, NodeOf, Held
<1>2. ASSUME NEW i \in DOMAIN rows PROVE RowAt(Canon[rows[i].path]) = i
  <2>1. \A j, k \in DOMAIN rows : Canon[rows[j].path] = Canon[rows[k].path] => j = k
    BY DEF Extractable, Opens
  <2> QED BY <2>1
<1> HIDE DEF RowAt
<1>3. ASSUME NEW i \in DOMAIN rows
      PROVE  Extracted(index)[Canon[rows[i].path]] = NodeOf(index, i)
  <2>1. Canon[rows[i].path] \in Made(rows)
    BY CanonicalPaths
  <2> QED BY <1>1, <1>2, <2>1
<1>4. DOMAIN Extracted(index) = Made(rows) \cup MissingParents(Made(rows))
  BY <1>1
<1>5. ASSUME NEW p \in MissingParents(Made(rows)), p \notin Made(rows)
      PROVE  Extracted(index)[p] = Node("dir", p, None, Root)
  BY <1>1, <1>5
<1> QED BY <1>3, <1>4, <1>5

LEMMA MadeIsCanonical ==
    ASSUME NEW rows \in Seq(Rows)
    PROVE  Made(rows) \cup MissingParents(Made(rows)) \subseteq Canonical
<1>1. Made(rows) \subseteq Canonical
  BY MadeOfRows, CanonicalPaths
<1>2. ASSUME NEW p \in MissingParents(Made(rows)) PROVE p \in Canonical
  <2>1. PICK q \in Made(rows) : p \in Above[q]
    BY DEF MissingParents
  <2>2. q \in Paths
    BY <1>1 DEF Canonical
  <2> QED BY <2>1, <2>2, AboveClosed
<1> QED BY <1>1, <1>2

\* Kind and content of what is found on disk.
LEMMA NodeKinds ==
    ASSUME NEW index, index.rows \in Seq(Rows), Extractable(index.rows), NEW i \in DOMAIN index.rows
    PROVE  LET h == Holder(index.rows)[i]
           IN  /\ h \in DOMAIN index.rows
               /\ NodeOf(index, i).inode = Canon[index.rows[h].path]
               /\ NodeOf(index, i).content = index.rows[h].content
               /\ NodeOf(index, i).owner = OwnerSet(index, Held(index.rows, i))
               /\ index.rows[i].kind = "dir" => h = i /\ NodeOf(index, i).kind = "dir"
               /\ index.rows[i].kind # "dir" =>
                     /\ index.rows[h].kind = "file" /\ NodeOf(index, i).kind = "file"
                     /\ NodeOf(index, i).content \in Contents
<1> DEFINE rows == index.rows
           h == Holder(rows)[i]
<1>1. /\ h \in DOMAIN rows
      /\ rows[i].kind = "dir" => h = i
      /\ rows[i].kind # "dir" => rows[h].kind = "file"
  BY HoldersAreFiles
<1>2. /\ NodeOf(index, i).kind = IF rows[h].kind = "dir" THEN "dir" ELSE "file"
      /\ NodeOf(index, i).inode = Canon[rows[h].path]
      /\ NodeOf(index, i).content = rows[h].content
      /\ NodeOf(index, i).owner = OwnerSet(index, Held(rows, i))
  BY DEF NodeOf, Node
<1> HIDE DEF h
<1>3. rows[h].kind = "file" => rows[h].content \in Contents
  BY <1>1 DEF Rows
<1> QED BY <1>1, <1>2, <1>3 DEF h

LEMMA ExtractedSound ==
    ASSUME NEW index, RowsSound(index.rows), Extractable(index.rows)
    PROVE  TreeSound(Extracted(index))
<1> DEFINE tree == Extracted(index)
           rows == index.rows
<1>0. rows \in Seq(Rows)
  BY DEF RowsSound
<1>1. ASSUME NEW p \in DOMAIN tree
      PROVE  /\ tree[p].kind \in {"dir", "file"}
             /\ tree[p].kind = "file" => p \in Canonical /\ tree[p].content \in Contents
  <2>1. p \in Canonical /\ p \in Made(rows) \cup MissingParents(Made(rows))
    BY <1>0, ExtractedNodes, MadeIsCanonical
  <2>2. CASE p \in Made(rows)
    <3>1. PICK i \in DOMAIN rows : p = Canon[rows[i].path]
      BY <2>2, MadeOfRows
    <3>2. tree[p] = NodeOf(index, i)
      BY <1>0, <3>1, ExtractedNodes
    <3> HIDE DEF tree
    <3>3. /\ rows[i].kind = "dir" => NodeOf(index, i).kind = "dir"
          /\ rows[i].kind # "dir" => NodeOf(index, i).kind = "file" /\ NodeOf(index, i).content \in Contents
      BY <1>0, NodeKinds
    <3> QED BY <2>1, <3>2, <3>3
  <2>3. CASE p \notin Made(rows)
    <3>1. tree[p] = Node("dir", p, None, Root)
      BY <1>0, <2>1, <2>3, ExtractedNodes
    <3>2. tree[p].kind = "dir"
      BY <3>1 DEF Node
    <3> QED BY <3>2
  <2> QED BY <2>2, <2>3
<1> QED BY <1>1 DEF TreeSound

-----------------------------------------------------------------------------
(* Rows stay sorted, one for each path.                                    *)

LiveInv == ViewInv /\ IndexSound(View)

LEMMA TreesAreSound ==
    ASSUME NEW dirs \in SUBSET Canonical, NEW files \in SUBSET (Canonical \ dirs),
           NEW inode \in [files -> files], NEW owner
    PROVE  TreeSound(TreeOf(dirs, inode, owner))
<1> DEFINE tree == TreeOf(dirs, inode, owner)
<1>1. DOMAIN tree = dirs \cup files
  BY DEF TreeOf
<1>2. ASSUME NEW p \in dirs PROVE tree[p].kind = "dir" /\ p \in Canonical
  BY DEF TreeOf, Node
<1>3. ASSUME NEW p \in files
      PROVE  tree[p].kind = "file" /\ p \in Canonical /\ tree[p].content \in Contents
  <2>1. inode[p] \in Contents
    BY DEF Contents, Canonical
  <2> QED BY <2>1 DEF TreeOf, Node
<1> HIDE DEF tree
<1> QED BY <1>1, <1>2, <1>3 DEF TreeSound, tree

LEMMA UpdateSound ==
    ASSUME LiveInv, NEW view, view = View, NEW p \in Paths, NEW c \in Updates,
           Mutate(view, Put(FileRow(p, c)))
    PROVE  LiveInv'
<1>1. view.rows \in Seq(Rows)
  BY DEF LiveInv, IndexSound, RowsSound
<1>2. Distinct(view.rows)
  BY <1>1, OrderedRowsDiffer DEF LiveInv, IndexSound, RowsSound
<1>3. IndexSound(Replayed(view, Put(FileRow(p, c))))
  BY <1>1, <1>2, PutKeeps, ReplayKeeps DEF LiveInv
<1>4. View' = Replayed(view, Put(FileRow(p, c))) /\ ViewInv'
  BY MutationShows DEF LiveInv, Operations
<1> QED BY <1>3, <1>4 DEF LiveInv

LEMMA DeleteSound ==
    ASSUME LiveInv, NEW view, view = View, NEW p \in Paths, Mutate(view, Del(p))
    PROVE  LiveInv'
<1>1. view.rows \in Seq(Rows)
  BY DEF LiveInv, IndexSound, RowsSound
<1>2. Distinct(view.rows)
  BY <1>1, OrderedRowsDiffer DEF LiveInv, IndexSound, RowsSound
<1>3. IndexSound(Replayed(view, Del(p)))
  BY <1>1, <1>2, DelKeeps, ReplayKeeps DEF LiveInv
<1>4. View' = Replayed(view, Del(p)) /\ ViewInv'
  BY MutationShows DEF LiveInv, Operations
<1> QED BY <1>3, <1>4 DEF LiveInv

LEMMA RenameSound ==
    ASSUME LiveInv, NEW view, view = View, NEW p \in Paths, NEW q \in Paths,
           p \in Members(view.rows), q \notin Members(view.rows), Mutate(view, Ren(p, q))
    PROVE  LiveInv'
<1>1. view.rows \in Seq(Rows)
  BY DEF LiveInv, IndexSound, RowsSound
<1>2. Distinct(view.rows)
  BY <1>1, OrderedRowsDiffer DEF LiveInv, IndexSound, RowsSound
<1>3. IndexSound(Replayed(view, Ren(p, q)))
  BY <1>1, <1>2, RenKeeps, ReplayKeeps DEF LiveInv
<1>4. View' = Replayed(view, Ren(p, q)) /\ ViewInv'
  BY MutationShows DEF LiveInv, Operations
<1> QED BY <1>3, <1>4 DEF LiveInv

THEOREM LiveInvariance == Spec => []LiveInv
<1>1. Init => LiveInv
  <2>1. SUFFICES ASSUME Init PROVE LiveInv
    OBVIOUS
  <2>2. log = << >> /\ plain = base
    BY <2>1 DEF Init
  <2>3. View = base
    BY <2>2, ReplayNothing DEF View
  <2>4. PICK dirs \in SUBSET Canonical : \E files \in SUBSET (Canonical \ dirs) :
          \E inode \in [files -> files], owner \in [dirs \cup files -> Owners] :
             base = Build(TreeOf(dirs, inode, owner))
    BY <2>1 DEF Init
  <2>5. PICK files \in SUBSET (Canonical \ dirs) :
          \E inode \in [files -> files], owner \in [dirs \cup files -> Owners] :
             base = Build(TreeOf(dirs, inode, owner))
    BY <2>4
  <2>6. PICK inode \in [files -> files], owner \in [dirs \cup files -> Owners] :
             base = Build(TreeOf(dirs, inode, owner))
    BY <2>5
  <2>7. IndexSound(base)
    BY <2>6, TreesAreSound, BuildSound
  <2> QED BY <2>2, <2>3, <2>7 DEF LiveInv, ViewInv, CheckpointsAgree
<1>2. ASSUME LiveInv, [Next]_vars PROVE LiveInv'
  <2>1. ASSUME NEW p \in Paths, NEW c \in Updates, Update(p, c) PROVE LiveInv'
    BY <1>2, <2>1, UpdateSound DEF Update
  <2>2. ASSUME NEW p \in Paths, Delete(p) PROVE LiveInv'
    BY <1>2, <2>2, DeleteSound DEF Delete
  <2>3. ASSUME NEW p \in Paths, NEW q \in Paths, Rename(p, q) PROVE LiveInv'
    BY <1>2, <2>3, RenameSound DEF Rename
  <2>4. CASE Compact
    <3>1. View' = Build(Extracted(View)) /\ ViewInv'
      <4>1. PICK view : view = View
        OBVIOUS
      <4> QED BY <2>4, <4>1, CompactionShows
    <3>2. IndexSound(Build(Extracted(View)))
      BY <1>2, <2>4, ExtractedSound, BuildSound DEF Compact, LiveInv, IndexSound
    <3> QED BY <3>1, <3>2 DEF LiveInv
  <2>5. CASE UNCHANGED vars
    BY <1>2, <2>5 DEF vars, LiveInv, ViewInv, CheckpointsAgree, View
  <2> QED BY <1>2, <2>1, <2>2, <2>3, <2>4, <2>5 DEF Next
<1> QED BY <1>1, <1>2, PTL DEF Spec

\* Every open of an archive finds its rows sorted by path and one for each, hard links naming
\* paths, whatever mutations and compactions made them, for any trees, paths and depth.
THEOREM RowsStaySorted == Spec => []RowsSound(View.rows)
<1>1. LiveInv => RowsSound(View.rows)
  BY DEF LiveInv, IndexSound
<1> QED BY <1>1, LiveInvariance, PTL

-----------------------------------------------------------------------------
(* Following hard links.                                                   *)

Steps(rows) == [at : Paths, left : 0..Len(rows)]
IsLink(rows, q) == q \in Members(rows) /\ RowOf(rows, q).kind = "link"

ChainBody(rows, h, c) ==
    IF c.left > 0 /\ c.at \in Members(rows) /\ RowOf(rows, c.at).kind = "link"
    THEN << c.at >> \o h[Link(RowOf(rows, c.at).target, c.left - 1)]
    ELSE << c.at >>

IsChain(rows, h) == h = [c \in Steps(rows) |-> ChainBody(rows, h, c)]

LEMMA ChainChosen ==
    ASSUME NEW rows, NEW h, IsChain(rows, h)
    PROVE  IsChain(rows, Chains(rows))
<1> DEFINE g == CHOOSE f : f = [c \in Steps(rows) |-> ChainBody(rows, f, c)]
<1>1. g = [c \in Steps(rows) |-> ChainBody(rows, g, c)]
  BY Zenon DEF IsChain
<1>2. Chains(rows) = g
  BY DEF Chains, ChainBody, Steps
<1> QED BY <1>1, <1>2, Zenon DEF IsChain

LEMMA LinksLeadToPaths ==
    ASSUME NEW rows \in Seq(Rows), NEW q, IsLink(rows, q)
    PROVE  RowOf(rows, q).target \in Paths
<1>1. RowOf(rows, q) \in Rows
  BY RowOfMember DEF IsLink
<1> QED BY <1>1 DEF IsLink, Rows

LEMMA ChainExists ==
    ASSUME NEW rows \in Seq(Rows)
    PROVE  \E h : IsChain(rows, h)
<1> DEFINE N == Len(rows)
           Follows(h, n) == \A c \in Steps(rows) : c.left <= n => h[c] = ChainBody(rows, h, c)
           G == {n \in 0..N : \E h : Follows(h, n)}
<1>0. N \in Nat
  OBVIOUS
<1>1. \A c \in Steps(rows) : c.left \in 0..N /\ c.at \in Paths
  BY DEF Steps
<1>2. ASSUME NEW c \in Steps(rows), c.left > 0, IsLink(rows, c.at)
      PROVE  /\ Link(RowOf(rows, c.at).target, c.left - 1) \in Steps(rows)
             /\ Link(RowOf(rows, c.at).target, c.left - 1).left = c.left - 1
  <2>1. RowOf(rows, c.at).target \in Paths
    BY <1>2, LinksLeadToPaths
  <2>2. c.left - 1 \in 0..N
    BY <1>0, <1>1, <1>2
  <2> QED BY <2>1, <2>2 DEF Link, Steps
<1> HIDE DEF N
<1>3. ASSUME NEW n \in 0..N, \A j \in 0..N : j < n => j \in G
      PROVE  n \in G
  <2>1. PICK g : \A c \in Steps(rows) : c.left < n => g[c] = ChainBody(rows, g, c)
    <3>1. CASE n = 0
      <4>1. \A c \in Steps(rows) : ~(c.left < n)
        BY <1>0, <1>1, <3>1
      <4> QED BY <4>1
    <3>2. CASE n # 0
      <4>1. n - 1 \in 0..N /\ n - 1 < n
        BY <1>0, <3>2
      <4>2. PICK g : Follows(g, n - 1)
        BY <1>3, <4>1
      <4>3. ASSUME NEW c \in Steps(rows), c.left < n PROVE c.left <= n - 1
        BY <1>0, <1>1, <4>3
      <4> QED BY <4>2, <4>3
    <3> QED BY <3>1, <3>2
  <2> DEFINE h == [c \in Steps(rows) |-> ChainBody(rows, g, c)]
  <2>2. ASSUME NEW c \in Steps(rows), c.left <= n
        PROVE  ChainBody(rows, g, c) = ChainBody(rows, h, c)
    <3>1. CASE c.left > 0 /\ IsLink(rows, c.at)
      <4> DEFINE d == Link(RowOf(rows, c.at).target, c.left - 1)
      <4>1. d \in Steps(rows) /\ d.left = c.left - 1
        BY <1>2, <3>1
      <4>2. d.left < n
        BY <1>0, <1>1, <2>2, <4>1
      <4> HIDE DEF d
      <4>3. h[d] = ChainBody(rows, g, d) /\ g[d] = ChainBody(rows, g, d)
        BY <2>1, <4>1, <4>2
      <4>4. g[d] = h[d]
        BY <4>3
      <4> HIDE DEF h
      <4>5. ChainBody(rows, g, c) = << c.at >> \o g[d] /\ ChainBody(rows, h, c) = << c.at >> \o h[d]
        BY <3>1 DEF ChainBody, IsLink, d
      <4> QED BY <4>4, <4>5
    <3>2. CASE ~(c.left > 0 /\ IsLink(rows, c.at))
      <4> HIDE DEF h
      <4> QED BY <3>2 DEF ChainBody, IsLink
    <3> QED BY <3>1, <3>2
  <2>3. Follows(h, n)
    <3>1. \A c \in Steps(rows) : h[c] = ChainBody(rows, g, c)
      OBVIOUS
    <3> HIDE DEF h
    <3> QED BY <2>2, <3>1
  <2> HIDE DEF h, Follows
  <2> QED BY <2>3
<1>4. N \in G
  <2> HIDE DEF G
  <2>1. \A n \in 0..N : n \in G
    BY <1>0, <1>3, Climb
  <2> QED BY <2>1, <1>0
<1>5. PICK g : Follows(g, N)
  BY <1>4
<1>6. \A c \in Steps(rows) : g[c] = ChainBody(rows, g, c)
  BY <1>0, <1>1, <1>5
<1> DEFINE h == [c \in Steps(rows) |-> g[c]]
<1>7. ASSUME NEW c \in Steps(rows) PROVE ChainBody(rows, g, c) = ChainBody(rows, h, c)
  <2>1. CASE c.left > 0 /\ IsLink(rows, c.at)
    <3> DEFINE d == Link(RowOf(rows, c.at).target, c.left - 1)
    <3>1. d \in Steps(rows)
      BY <1>2, <2>1
    <3> HIDE DEF d
    <3>2. g[d] = h[d]
      BY <3>1
    <3> HIDE DEF h
    <3>3. ChainBody(rows, g, c) = << c.at >> \o g[d] /\ ChainBody(rows, h, c) = << c.at >> \o h[d]
      BY <2>1 DEF ChainBody, IsLink, d
    <3> QED BY <3>2, <3>3
  <2>2. CASE ~(c.left > 0 /\ IsLink(rows, c.at))
    <3> HIDE DEF h
    <3> QED BY <2>2 DEF ChainBody, IsLink
  <2> QED BY <2>1, <2>2
<1>8. h = [c \in Steps(rows) |-> ChainBody(rows, h, c)]
  <2>1. \A c \in Steps(rows) : g[c] = ChainBody(rows, h, c)
    BY <1>6, <1>7
  <2> QED BY <2>1, Zenon
<1> QED BY <1>8 DEF IsChain

\* A walk ends where no link leads on or none may be followed any more.
LEMMA ChainStep ==
    ASSUME NEW rows \in Seq(Rows), NEW q \in Paths, NEW n \in 0..Len(rows)
    PROVE  Chains(rows)[Link(q, n)] =
              IF n > 0 /\ IsLink(rows, q)
              THEN << q >> \o Chains(rows)[Link(RowOf(rows, q).target, n - 1)]
              ELSE << q >>
<1>1. IsChain(rows, Chains(rows))
  BY ChainExists, ChainChosen
<1>2. Link(q, n) \in Steps(rows) /\ Link(q, n).at = q /\ Link(q, n).left = n
  BY DEF Link, Steps
<1>3. Chains(rows)[Link(q, n)] = ChainBody(rows, Chains(rows), Link(q, n))
  BY <1>1, <1>2, Zenon DEF IsChain
<1> QED BY <1>2, <1>3, Zenon DEF ChainBody, IsLink

LEMMA Prepended ==
    ASSUME NEW X, NEW x \in X, NEW s \in Seq(X), s # << >>
    PROVE  /\ << x >> \o s \in Seq(X) /\ << x >> \o s # << >>
           /\ Last(<< x >> \o s) = Last(s)
           /\ ToSet(<< x >> \o s) = {x} \cup ToSet(s)
<1> DEFINE r == << x >> \o s
<1>1. /\ r \in Seq(X) /\ Len(r) = 1 + Len(s) /\ Len(s) \in Nat /\ Len(s) > 0
      /\ r[1] = x /\ \A i \in 1..Len(s) : r[1 + i] = s[i]
  OBVIOUS
<1> HIDE DEF r
<1>2. Last(r) = Last(s)
  <2>1. Last(r) = r[Len(r)] /\ Last(s) = s[Len(s)]
    BY DEF Last
  <2> QED BY <1>1, <2>1
<1>3. ToSet(r) = {r[i] : i \in 1..Len(r)} /\ ToSet(s) = {s[i] : i \in 1..Len(s)}
  <2>1. DOMAIN r = 1..Len(r) /\ DOMAIN s = 1..Len(s)
    BY <1>1
  <2> QED BY <2>1, Zenon DEF ToSet
<1>4. ToSet(r) \subseteq {x} \cup ToSet(s)
  <2>1. ASSUME NEW i \in 1..Len(r) PROVE r[i] \in {x} \cup {s[j] : j \in 1..Len(s)}
    <3>1. CASE i = 1
      BY <1>1, <3>1
    <3>2. CASE i # 1
      <4>1. i - 1 \in 1..Len(s) /\ 1 + (i - 1) = i
        BY <1>1, <3>2
      <4> QED BY <1>1, <4>1
    <3> QED BY <3>1, <3>2
  <2> QED BY <1>3, <2>1
<1>5. {x} \cup ToSet(s) \subseteq ToSet(r)
  <2>1. x \in ToSet(r)
    <3>1. 1 \in 1..Len(r)
      BY <1>1
    <3> QED BY <1>1, <1>3, <3>1
  <2>2. ASSUME NEW i \in 1..Len(s) PROVE s[i] \in ToSet(r)
    <3>1. 1 + i \in 1..Len(r) /\ r[1 + i] = s[i]
      BY <1>1
    <3> QED BY <1>3, <3>1
  <2> QED BY <1>3, <2>1, <2>2
<1>6. r # << >>
  BY <1>1
<1> QED BY <1>1, <1>2, <1>4, <1>5, <1>6 DEF r

LEMMA ChainsArePaths ==
    ASSUME NEW rows \in Seq(Rows)
    PROVE  \A n \in 0..Len(rows) : \A q \in Paths :
              Chains(rows)[Link(q, n)] \in Seq(Paths) /\ Chains(rows)[Link(q, n)] # << >>
<1> DEFINE ch == Chains(rows)
           G == {n \in 0..Len(rows) : \A q \in Paths :
                    ch[Link(q, n)] \in Seq(Paths) /\ ch[Link(q, n)] # << >>}
<1> HIDE DEF ch
<1>1. ASSUME NEW n \in 0..Len(rows), \A j \in 0..Len(rows) : j < n => j \in G
      PROVE  n \in G
  <2>1. ASSUME NEW q \in Paths PROVE ch[Link(q, n)] \in Seq(Paths) /\ ch[Link(q, n)] # << >>
    <3>1. CASE n > 0 /\ IsLink(rows, q)
      <4> DEFINE t == RowOf(rows, q).target
      <4>1. n - 1 \in 0..Len(rows) /\ n - 1 < n
        BY <3>1
      <4>2. t \in Paths
        BY <3>1, LinksLeadToPaths
      <4> HIDE DEF t
      <4>3. ch[Link(t, n - 1)] \in Seq(Paths) /\ ch[Link(t, n - 1)] # << >>
        BY <1>1, <4>1, <4>2
      <4>4. ch[Link(q, n)] = << q >> \o ch[Link(t, n - 1)]
        BY <3>1, ChainStep DEF t, ch
      <4> QED BY <4>3, <4>4, Prepended
    <3>2. CASE ~(n > 0 /\ IsLink(rows, q))
      <4>1. ch[Link(q, n)] = << q >>
        BY <3>2, ChainStep DEF ch
      <4> QED BY <4>1
    <3> QED BY <3>1, <3>2
  <2> QED BY <2>1
<1>2. \A n \in 0..Len(rows) : n \in G
  <2>1. Len(rows) \in Nat
    OBVIOUS
  <2> HIDE DEF G
  <2> QED BY <1>1, <2>1, Climb
<1> QED BY <1>2 DEF ch

-----------------------------------------------------------------------------
(* Updates in place.                                                       *)

LEMMA OnlyOneReplaced ==
    ASSUME NEW rows \in Seq(Rows), NEW p \in Paths, p \in Members(rows), NEW c
    PROVE  /\ Len(Replaced(rows, p, c)) = Len(rows)
           /\ \A i \in DOMAIN rows : Replaced(rows, p, c)[i].path = rows[i].path
           /\ Members(Replaced(rows, p, c)) = Members(rows)
           /\ \A q : At(Replaced(rows, p, c), q) = At(rows, q)
           /\ RowOf(Replaced(rows, p, c), p) = FileRow(p, c)
           /\ \A q \in Members(rows) \ {p} : RowOf(Replaced(rows, p, c), q) = RowOf(rows, q)
<1> DEFINE new == Replaced(rows, p, c)
           k == At(rows, p)
<1>1. k \in DOMAIN rows /\ rows[k].path = p
  BY RowOfMember DEF RowOf
<1>2. /\ DOMAIN new = DOMAIN rows /\ Len(new) = Len(rows) /\ new[k] = FileRow(p, c)
      /\ \A i \in DOMAIN rows \ {k} : new[i] = rows[i]
  BY <1>1 DEF Replaced
<1>3. FileRow(p, c).path = p
  BY DEF FileRow
<1> HIDE DEF new, k
<1>4. \A i \in DOMAIN rows : new[i].path = rows[i].path
  BY <1>1, <1>2, <1>3
<1>5. ASSUME NEW q PROVE At(new, q) = At(rows, q)
  BY <1>2, <1>4 DEF At
<1>6. Members(new) = Members(rows)
  <2>1. Members(new) = {new[i].path : i \in DOMAIN new}
    BY DEF Members, ToSet
  <2>2. Members(rows) = {rows[i].path : i \in DOMAIN rows}
    BY DEF Members, ToSet
  <2> QED BY <1>2, <1>4, <2>1, <2>2
<1>7. RowOf(new, p) = FileRow(p, c)
  BY <1>2, <1>5 DEF RowOf, k
<1>8. ASSUME NEW q \in Members(rows) \ {p} PROVE RowOf(new, q) = RowOf(rows, q)
  <2>1. At(rows, q) \in DOMAIN rows /\ rows[At(rows, q)].path = q
    BY RowOfMember DEF RowOf
  <2>2. At(rows, q) # k
    BY <1>1, <2>1
  <2> QED BY <1>2, <1>5, <2>1, <2>2 DEF RowOf
<1> QED BY <1>2, <1>4, <1>5, <1>6, <1>7, <1>8 DEF new

\* A walk that comes by p now ends there; the others are as they were.
LEMMA WalksReplaced ==
    ASSUME NEW rows \in Seq(Rows), NEW p \in Paths, p \in Members(rows), NEW c,
           Replaced(rows, p, c) \in Seq(Rows), NEW q \in Paths
    PROVE  IF p \in ToSet(Chain(rows, q))
           THEN Last(Chain(Replaced(rows, p, c), q)) = p
           ELSE Chain(Replaced(rows, p, c), q) = Chain(rows, q)
<1> DEFINE new == Replaced(rows, p, c)
           N == Len(rows)
           old(r, n) == Chains(rows)[Link(r, n)]
           now(r, n) == Chains(new)[Link(r, n)]
           G == {n \in 0..N : \A r \in Paths : IF p \in ToSet(old(r, n)) THEN Last(now(r, n)) = p
                                               ELSE now(r, n) = old(r, n)}
<1>1. /\ Len(new) = N /\ Members(new) = Members(rows) /\ RowOf(new, p).kind = "file"
      /\ \A r \in Members(rows) \ {p} : RowOf(new, r) = RowOf(rows, r)
  <2>1. FileRow(p, c).kind = "file"
    BY DEF FileRow
  <2> QED BY <2>1, OnlyOneReplaced
<1>2. N \in Nat
  OBVIOUS
<1> HIDE DEF new
<1>3. ASSUME NEW n \in 0..N, \A j \in 0..N : j < n => j \in G
      PROVE  n \in G
  <2> SUFFICES ASSUME NEW r \in Paths
               PROVE  IF p \in ToSet(old(r, n)) THEN Last(now(r, n)) = p
                      ELSE now(r, n) = old(r, n)
    OBVIOUS
  <2>1. old(r, n) = IF n > 0 /\ IsLink(rows, r)
                    THEN << r >> \o old(RowOf(rows, r).target, n - 1) ELSE << r >>
    BY ChainStep
  <2>2. now(r, n) = IF n > 0 /\ IsLink(new, r)
                    THEN << r >> \o now(RowOf(new, r).target, n - 1) ELSE << r >>
    BY <1>1, ChainStep DEF new
  <2>3. CASE r = p
    <3>1. now(r, n) = << p >>
      BY <1>1, <2>2, <2>3 DEF IsLink
    <3>2. Last(<< p >>) = p
      BY DEF Last
    <3>3. p \in ToSet(old(r, n))
      <4>1. CASE n > 0 /\ IsLink(rows, r)
        <5> DEFINE t == RowOf(rows, r).target
        <5>1. t \in Paths /\ n - 1 \in 0..N
          BY <1>2, <4>1, LinksLeadToPaths
        <5>2. old(t, n - 1) \in Seq(Paths) /\ old(t, n - 1) # << >>
          BY <5>1, ChainsArePaths
        <5> HIDE DEF old, t
        <5>3. ToSet(<< r >> \o old(t, n - 1)) = {r} \cup ToSet(old(t, n - 1))
          BY <5>2, Prepended
        <5> QED BY <2>1, <2>3, <4>1, <5>3 DEF t
      <4>2. CASE ~(n > 0 /\ IsLink(rows, r))
        <5>1. ToSet(<< r >>) = {r}
          BY DEF ToSet
        <5> HIDE DEF old
        <5> QED BY <2>1, <2>3, <4>2, <5>1
      <4> QED BY <4>1, <4>2
    <3> HIDE DEF old, now
    <3> QED BY <3>1, <3>2, <3>3
  <2>4. CASE r # p /\ n > 0 /\ IsLink(rows, r)
    <3> DEFINE t == RowOf(rows, r).target
    <3>1. t \in Paths /\ n - 1 \in 0..N /\ n - 1 < n
      BY <1>2, <2>4, LinksLeadToPaths
    <3>2. IsLink(new, r) /\ RowOf(new, r).target = t
      BY <1>1, <2>4 DEF IsLink
    <3>3. old(t, n - 1) \in Seq(Paths) /\ old(t, n - 1) # << >>
      BY <3>1, ChainsArePaths
    <3>4. now(t, n - 1) \in Seq(Paths) /\ now(t, n - 1) # << >>
      BY <1>1, <3>1, ChainsArePaths DEF new
    <3>5. IF p \in ToSet(old(t, n - 1)) THEN Last(now(t, n - 1)) = p
          ELSE now(t, n - 1) = old(t, n - 1)
      BY <1>3, <3>1
    <3> HIDE DEF old, now, t
    <3>6. old(r, n) = << r >> \o old(t, n - 1) /\ now(r, n) = << r >> \o now(t, n - 1)
      BY <2>1, <2>2, <2>4, <3>2 DEF t
    <3>7. ToSet(<< r >> \o old(t, n - 1)) = {r} \cup ToSet(old(t, n - 1))
          /\ Last(<< r >> \o now(t, n - 1)) = Last(now(t, n - 1))
      BY <3>3, <3>4, Prepended
    <3> QED BY <2>4, <3>5, <3>6, <3>7
  <2>5. CASE r # p /\ ~(n > 0 /\ IsLink(rows, r))
    <3>1. ~(n > 0 /\ IsLink(new, r))
      BY <1>1, <2>5 DEF IsLink
    <3>2. ToSet(<< r >>) = {r}
      BY DEF ToSet
    <3> HIDE DEF old, now
    <3> QED BY <2>1, <2>2, <2>5, <3>1, <3>2
  <2> QED BY <2>3, <2>4, <2>5
<1>4. N \in G
  <2> HIDE DEF G
  <2>1. \A n \in 0..N : n \in G
    BY <1>2, <1>3, Climb
  <2> QED BY <1>2, <2>1
<1>5. Chain(rows, q) = old(q, N) /\ Chain(new, q) = now(q, N)
  BY <1>1 DEF Chain
<1> HIDE DEF old, now
<1> QED BY <1>4, <1>5 DEF new

LEMMA ContentReplaced ==
    ASSUME NEW rows \in Seq(Rows), NEW p \in Paths, p \in Members(rows), NEW c,
           Replaced(rows, p, c) \in Seq(Rows), NEW q \in Paths
    PROVE  ContentOf(Replaced(rows, p, c), q) =
              IF p \in ToSet(Chain(rows, q)) THEN c ELSE ContentOf(rows, q)
<1> DEFINE new == Replaced(rows, p, c)
           l == Last(Chain(rows, q))
<1>1. /\ Members(new) = Members(rows) /\ RowOf(new, p) = FileRow(p, c)
      /\ \A r \in Members(rows) \ {p} : RowOf(new, r) = RowOf(rows, r)
  BY OnlyOneReplaced
<1>2. IF p \in ToSet(Chain(rows, q)) THEN Last(Chain(new, q)) = p
      ELSE Chain(new, q) = Chain(rows, q)
  BY WalksReplaced
<1> HIDE DEF new
<1>3. CASE p \in ToSet(Chain(rows, q))
  <2>1. FileRow(p, c).kind = "file" /\ FileRow(p, c).content = c
    BY DEF FileRow
  <2> QED BY <1>1, <1>2, <1>3, <2>1 DEF ContentOf, new
<1>4. CASE p \notin ToSet(Chain(rows, q))
  <2>1. Chain(rows, q) \in Seq(Paths) /\ Chain(rows, q) # << >>
    <3>1. Len(rows) \in 0..Len(rows)
      OBVIOUS
    <3> QED BY <3>1, ChainsArePaths DEF Chain
  <2>2. l \in ToSet(Chain(rows, q))
    BY <2>1 DEF Last, ToSet
  <2>3. l # p
    BY <1>4, <2>2
  <2>4. l \in Members(rows) => RowOf(new, l) = RowOf(rows, l)
    BY <1>1, <2>3
  <2>5. Last(Chain(new, q)) = l
    BY <1>2, <1>4
  <2> QED BY <1>1, <1>4, <2>4, <2>5 DEF ContentOf, new
<1> QED BY <1>3, <1>4

\* An update replaces one row where it is, and no other and no owner.
LEMMA UpdateReplaces ==
    ASSUME LiveInv, NEW view, view = View, NEW p \in Paths, p \in Members(view.rows),
           NEW c \in Updates, Mutate(view, Put(FileRow(p, c)))
    PROVE  /\ View' = [view EXCEPT !.rows = Replaced(view.rows, p, c)]
           /\ view.rows \in Seq(Rows)
           /\ Replaced(view.rows, p, c) \in Seq(Rows)
<1> DEFINE new == Replaced(view.rows, p, c)
<1>1. view.rows \in Seq(Rows)
  BY DEF LiveInv, IndexSound, RowsSound
<1>2. InOrder(view.rows) /\ Distinct(view.rows)
  BY <1>1, OrderedRowsDiffer DEF LiveInv, IndexSound, RowsSound
<1>3. Edited(view.rows, Put(FileRow(p, c))) = new /\ new \in Seq(Rows)
  <2>1. p \in Paths /\ Distinct(view.rows)
    BY <1>2
  <2>2. Edited(view.rows, Put(FileRow(p, c))) \in Seq(Rows)
    BY <1>1, <2>1, PutKeeps
  <2> HIDE DEF new
  <2>3. Edited(view.rows, Put(FileRow(p, c))) = new
    BY <1>1, <2>1, PutKeeps DEF new
  <2> QED BY <2>2, <2>3 DEF new
<1>4. /\ Len(new) = Len(view.rows)
      /\ \A i \in DOMAIN view.rows : new[i].path = view.rows[i].path
  BY <1>1, OnlyOneReplaced
<1> HIDE DEF new
<1>5. DOMAIN new = DOMAIN view.rows
  BY <1>1, <1>3, <1>4
<1>6. InOrder(new)
  BY <1>2, <1>4, <1>5 DEF InOrder
<1>7. ByPath(new) = new
  BY <1>3, <1>6, SortedAlready
<1>8. View' = Replayed(view, Put(FileRow(p, c)))
  BY MutationShows DEF LiveInv, Operations
<1>9. View' = [view EXCEPT !.rows = new]
  BY <1>3, <1>7, <1>8 DEF Replayed
<1> QED BY <1>1, <1>3, <1>9 DEF new

\* Replacing a member leaves every other and all owners as they were, but for the hard links
\* that lead to it, for any table, whatever built and edited it (transactions.py:76-77).
THEOREM UpdatesInPlace == Spec => UpdateInPlace
<1> DEFINE Leaves == ~Compacts => \A old \in {View}, new \in {View'} :
              \A p \in Members(old.rows), c \in Updates : Update(p, c) =>
                 \A q \in Members(old.rows) :
                    /\ q \in Members(new.rows)
                    /\ OwnerOf(new, q) = OwnerOf(old, q)
                    /\ ContentOf(new.rows, q) = IF p \in ToSet(Chain(old.rows, q)) THEN c
                                                ELSE ContentOf(old.rows, q)
<1>1. ASSUME LiveInv PROVE Leaves
  <2>1. SUFFICES ASSUME NEW old, old = View, NEW new, new = View',
                        NEW p \in Members(old.rows), NEW c \in Updates, Update(p, c),
                        NEW q \in Members(old.rows)
                 PROVE  /\ q \in Members(new.rows)
                        /\ OwnerOf(new, q) = OwnerOf(old, q)
                        /\ ContentOf(new.rows, q) = IF p \in ToSet(Chain(old.rows, q)) THEN c
                                                    ELSE ContentOf(old.rows, q)
    OBVIOUS
  <2>2. old.rows \in Seq(Rows)
    BY <1>1, <2>1 DEF LiveInv, IndexSound, RowsSound
  <2>3. p \in Paths /\ q \in Paths
    <3>1. ASSUME NEW r \in Members(old.rows) PROVE r \in Paths
      <4>1. RowOf(old.rows, r) \in Rows /\ RowOf(old.rows, r).path = r
        BY <2>2, RowOfMember
      <4> QED BY <4>1 DEF Rows
    <3> QED BY <3>1
  <2>4. Mutate(old, Put(FileRow(p, c)))
    BY <2>1 DEF Update
  <2>5. /\ new = [old EXCEPT !.rows = Replaced(old.rows, p, c)]
        /\ Replaced(old.rows, p, c) \in Seq(Rows)
    BY <1>1, <2>1, <2>3, <2>4, UpdateReplaces
  <2>6. old = [rows |-> old.rows, common |-> old.common, over |-> old.over]
    BY <1>1, <2>1 DEF LiveInv, IndexSound
  <2>7. new.rows = Replaced(old.rows, p, c) /\ new.over = old.over /\ new.common = old.common
    BY <2>5, <2>6
  <2>8. Members(new.rows) = Members(old.rows) /\ At(new.rows, q) = At(old.rows, q)
    BY <2>2, <2>3, <2>7, OnlyOneReplaced
  <2>9. OwnerOf(new, q) = OwnerOf(old, q)
    BY <2>7, <2>8 DEF OwnerOf
  <2>10. ContentOf(new.rows, q) = IF p \in ToSet(Chain(old.rows, q)) THEN c
                                  ELSE ContentOf(old.rows, q)
    BY <2>2, <2>3, <2>5, <2>7, ContentReplaced
  <2> QED BY <2>8, <2>9, <2>10
<1>2. LiveInv /\ [Next]_vars => [Leaves]_vars
  BY <1>1
<1> QED BY <1>2, LiveInvariance, PTL DEF Spec, UpdateInPlace

-----------------------------------------------------------------------------
(* Reading what was just built.                                            *)

\* The path under which a file was first walked.
Origin(tree, p) == IF tree[p].kind = "file" THEN FirstWalked(tree, p) ELSE p

LEMMA FirstAgain ==
    ASSUME NEW tree, NEW p, NEW q, tree[p].inode = tree[q].inode
    PROVE  FirstWalked(tree, p) = FirstWalked(tree, q)
BY DEF FirstWalked

LEMMA BuiltWalks ==
    ASSUME NEW tree, TreeSound(tree), NEW index, IndexSound(index), IsTableOf(index, tree),
           NEW p \in Members(index.rows)
    PROVE  /\ Last(Chain(index.rows, p)) = Origin(tree, p)
           /\ Origin(tree, p) \in Members(index.rows)
           /\ RowOf(index.rows, Origin(tree, p)).kind = tree[p].kind
           /\ RowOf(index.rows, Origin(tree, p)).content = tree[Origin(tree, p)].content
                \/ tree[p].kind = "dir"
           /\ RowOf(index.rows, p).kind = "dir" <=> tree[p].kind = "dir"
<1> DEFINE rows == index.rows
           f == FirstWalked(tree, p)
           N == Len(rows)
<1>1. rows \in Seq(Rows) /\ p \in DOMAIN tree /\ p \in Canonical /\ p \in Paths
  BY DEF IndexSound, RowsSound, IsTableOf, Canonical
<1>2. RowOf(rows, p) = BuiltRow(tree, p)
  BY DEF IsTableOf
<1>3. N \in Nat /\ N \in 0..N /\ N > 0
  <2>1. At(rows, p) \in DOMAIN rows
    BY <1>1, RowOfMember
  <2>2. DOMAIN rows = 1..N /\ N \in Nat
    BY <1>1
  <2> QED BY <2>1, <2>2
<1>4. Chain(rows, p) = IF IsLink(rows, p)
                       THEN << p >> \o Chains(rows)[Link(RowOf(rows, p).target, N - 1)]
                       ELSE << p >>
  BY <1>1, <1>3, ChainStep DEF Chain
<1>5. \A x : Last(<< x >>) = x
  BY DEF Last
<1>6. CASE tree[p].kind = "dir"
  <2>1. RowOf(rows, p) = DirRow(p)
    BY <1>2, <1>6 DEF BuiltRow
  <2>2. RowOf(rows, p).kind = "dir"
    BY <2>1 DEF DirRow
  <2>3. Origin(tree, p) = p
    BY <1>6 DEF Origin
  <2>4. Chain(rows, p) = << p >>
    BY <1>4, <2>2 DEF IsLink
  <2> QED BY <1>5, <1>6, <2>2, <2>3, <2>4
<1>7. CASE tree[p].kind = "file"
  <2>1. /\ f \in DOMAIN tree /\ f \in Canonical /\ tree[f].kind = "file"
        /\ tree[f].inode = tree[p].inode
    BY <1>1, <1>7, FirstIsFile
  <2>2. FirstWalked(tree, f) = f
    BY <2>1, FirstAgain
  <2>3. f \in Members(rows) /\ RowOf(rows, f) = BuiltRow(tree, f) /\ f \in Paths
    BY <2>1 DEF IsTableOf, Canonical
  <2>4. Origin(tree, p) = f
    BY <1>7 DEF Origin
  <2> HIDE DEF f
  <2>5. RowOf(rows, f) = FileRow(f, tree[f].content)
    BY <2>1, <2>2, <2>3 DEF BuiltRow
  <2>6. RowOf(rows, f).kind = "file" /\ RowOf(rows, f).content = tree[f].content
    BY <2>5 DEF FileRow
  <2>7. CASE f = p
    <3>1. Chain(rows, p) = << p >>
      BY <1>4, <2>6, <2>7 DEF IsLink
    <3> QED BY <1>5, <1>7, <2>3, <2>4, <2>6, <2>7, <3>1
  <2>8. CASE f # p
    <3>1. RowOf(rows, p) = LinkRow(p, f)
      BY <1>2, <1>7, <2>8 DEF BuiltRow, f
    <3>2. RowOf(rows, p).kind = "link" /\ RowOf(rows, p).target = f
      BY <3>1 DEF LinkRow
    <3>3. N - 1 \in 0..N
      BY <1>3
    <3>4. Chains(rows)[Link(f, N - 1)] = << f >>
      <4>1. ~IsLink(rows, f)
        BY <2>6 DEF IsLink
      <4> QED BY <1>1, <2>3, <3>3, <4>1, ChainStep
    <3>5. Chain(rows, p) = << p >> \o << f >>
      BY <1>4, <3>2, <3>4 DEF IsLink
    <3>6. Last(<< p >> \o << f >>) = f
      <4>1. << f >> \in Seq(Paths) /\ << f >> # << >>
        BY <2>3
      <4>2. Last(<< p >> \o << f >>) = Last(<< f >>)
        BY <1>1, <4>1, Prepended
      <4> QED BY <1>5, <4>2
    <3> QED BY <1>7, <2>3, <2>4, <2>6, <3>2, <3>5, <3>6
  <2> QED BY <2>7, <2>8
<1>8. tree[p].kind \in {"dir", "file"}
  BY <1>1 DEF TreeSound
<1> QED BY <1>6, <1>7, <1>8

LEMMA BuiltContents ==
    ASSUME NEW tree, TreeSound(tree), NEW index, IndexSound(index), IsTableOf(index, tree),
           NEW p \in Members(index.rows)
    PROVE  ContentOf(index.rows, p) = IF tree[p].kind = "file"
                                      THEN tree[FirstWalked(tree, p)].content ELSE Unreadable
<1>1. tree[p].kind \in {"dir", "file"}
  BY DEF IsTableOf, TreeSound
<1>2. CASE tree[p].kind = "file"
  <2>1. Origin(tree, p) = FirstWalked(tree, p)
    BY <1>2 DEF Origin
  <2> QED BY <1>2, <2>1, BuiltWalks DEF ContentOf
<1>3. CASE tree[p].kind = "dir"
  BY <1>3, BuiltWalks DEF ContentOf
<1> QED BY <1>1, <1>2, <1>3

-----------------------------------------------------------------------------
(* Compaction heals.                                                       *)

\* An index that can be extracted, the tree on disk, and the index built of it.
Compacted(old, tree, new) ==
    /\ IndexSound(old) /\ Extractable(old.rows)
    /\ tree = Extracted(old) /\ TreeSound(tree)
    /\ IndexSound(new) /\ IsTableOf(new, tree)

LEMMA CompactionBuilds ==
    ASSUME LiveInv, NEW old, old = View, Compact
    PROVE  \E tree : Compacted(old, tree, View')
<1>1. Extractable(old.rows) /\ IndexSound(old)
  BY DEF Compact, LiveInv
<1>2. TreeSound(Extracted(old))
  BY <1>1, ExtractedSound DEF IndexSound
<1>3. View' = Build(Extracted(old))
  BY CompactionShows DEF LiveInv
<1>4. IndexSound(Build(Extracted(old))) /\ IsTableOf(Build(Extracted(old)), Extracted(old))
  BY <1>2, BuildSound
<1> QED BY <1>1, <1>2, <1>3, <1>4 DEF Compacted

LEMMA HealedRows ==
    ASSUME NEW old, NEW tree, NEW new, Compacted(old, tree, new)
    PROVE  Readable(new.rows)
<1>1. ASSUME NEW p \in Members(new.rows)
      PROVE  RowOf(new.rows, p).kind = "dir" \/ ContentOf(new.rows, p) # Unreadable
  <2>1. p \in DOMAIN tree /\ tree[p].kind \in {"dir", "file"}
    BY DEF Compacted, IsTableOf, TreeSound
  <2>2. CASE tree[p].kind = "dir"
    BY <2>2, BuiltWalks DEF Compacted
  <2>3. CASE tree[p].kind = "file"
    <3> DEFINE f == FirstWalked(tree, p)
    <3>1. f \in DOMAIN tree /\ tree[f].kind = "file"
      BY <2>1, <2>3, FirstIsFile DEF Compacted
    <3>2. tree[f].content \in Contents
      BY <3>1 DEF Compacted, TreeSound
    <3>3. ContentOf(new.rows, p) = tree[f].content
      BY <2>3, BuiltContents DEF Compacted
    <3> QED BY <3>2, <3>3, IndexAssumption
  <2> QED BY <2>1, <2>2, <2>3
<1> QED BY <1>1 DEF Readable, Readables

LEMMA HealedParents ==
    ASSUME NEW old, NEW tree, NEW new, Compacted(old, tree, new)
    PROVE  ParentsExist(new.rows)
<1> DEFINE rows == old.rows
<1>0. rows \in Seq(Rows) /\ Extractable(rows) /\ tree = Extracted(old)
  BY DEF Compacted, IndexSound, RowsSound
<1>1. DOMAIN tree = Made(rows) \cup MissingParents(Made(rows)) /\ DOMAIN tree \subseteq Canonical
  BY <1>0, ExtractedNodes, MadeIsCanonical
<1>2. Members(new.rows) = DOMAIN tree
  BY <1>1 DEF Compacted, IsTableOf
<1>3. ASSUME NEW p \in Members(new.rows), Parent[p] # None
      PROVE  Parent[p] \in Members(new.rows) /\ RowOf(new.rows, Parent[p]).kind = "dir"
  <2> DEFINE t == Parent[p]
  <2>1. p \in DOMAIN tree /\ p \in Paths
    BY <1>1, <1>2 DEF Canonical
  <2>2. PICK s \in Made(rows) : t \in Above[s]
    <3>1. CASE p \in Made(rows)
      <4>1. t \in Above[p]
        BY <1>3, <2>1, AboveStep
      <4> QED BY <3>1, <4>1
    <3>2. CASE p \notin Made(rows)
      <4>1. PICK s \in Made(rows) : p \in Above[s]
        BY <1>1, <2>1, <3>2 DEF MissingParents
      <4>2. s \in Paths
        BY <1>1 DEF Canonical
      <4>3. t \in Above[s]
        BY <1>3, <4>1, <4>2, AboveClosed
      <4> QED BY <4>3
    <3> QED BY <3>1, <3>2
  <2>3. t \in DOMAIN tree
    BY <1>1, <2>2 DEF MissingParents
  <2> HIDE DEF t
  <2>4. tree[t].kind = "dir"
    <3>1. CASE t \in Made(rows)
      <4>1. PICK i \in DOMAIN rows : t = Canon[rows[i].path]
        BY <3>1, MadeOfRows
      <4>2. PICK j \in DOMAIN rows : s = Canon[rows[j].path]
        BY <2>2, MadeOfRows
      <4>3. rows[i] \in ToSet(rows) /\ rows[j] \in ToSet(rows)
        BY DEF ToSet
      <4>4. rows[i].kind = "dir"
        BY <1>0, <2>2, <4>1, <4>2, <4>3 DEF Extractable
      <4>5. tree[t] = NodeOf(old, i)
        BY <1>0, <4>1, ExtractedNodes
      <4>6. NodeOf(old, i).kind = "dir"
        BY <1>0, <4>4, NodeKinds
      <4> QED BY <4>5, <4>6
    <3>2. CASE t \notin Made(rows)
      <4>1. tree[t] = Node("dir", t, None, Root)
        BY <1>0, <1>1, <2>3, <3>2, ExtractedNodes
      <4> QED BY <4>1 DEF Node
    <3> QED BY <3>1, <3>2
  <2>5. t \in Members(new.rows)
    BY <1>2, <2>3
  <2>6. RowOf(new.rows, t).kind = "dir"
    BY <2>4, <2>5, BuiltWalks DEF Compacted
  <2> QED BY <2>5, <2>6 DEF t
<1> QED BY <1>3 DEF ParentsExist

LEMMA HealedTable ==
    ASSUME NEW old, NEW tree, NEW new, Compacted(old, tree, new)
    PROVE  Accepted(new)
<1>1. new.rows \in Seq(Rows) /\ Distinct(new.rows)
  <2>1. new.rows \in Seq(Rows) /\ InOrder(new.rows)
    BY DEF Compacted, IndexSound, RowsSound
  <2> QED BY <2>1, OrderedRowsDiffer
<1>2. ASSUME NEW i \in DOMAIN new.rows PROVE Canon[new.rows[i].path] = new.rows[i].path
  <2>1. new.rows[i].path \in Members(new.rows)
    BY DEF Members, ToSet
  <2> QED BY <2>1 DEF Compacted, IsTableOf, Canonical
<1>3. Opens(new.rows)
  BY <1>1, <1>2 DEF Opens, Distinct
<1>4. ASSUME NEW p \in Members(new.rows)
      PROVE  LET q == Last(Chain(new.rows, p))
             IN  q \in Members(new.rows) /\ RowOf(new.rows, q).kind # "link"
  <2>1. tree[p].kind \in {"dir", "file"}
    BY DEF Compacted, IsTableOf, TreeSound
  <2>2. /\ Last(Chain(new.rows, p)) = Origin(tree, p)
        /\ Origin(tree, p) \in Members(new.rows)
        /\ RowOf(new.rows, Origin(tree, p)).kind = tree[p].kind
    BY BuiltWalks DEF Compacted
  <2> QED BY <2>1, <2>2
<1> QED BY <1>3, <1>4 DEF Accepted, Compacted, IsTableOf

-----------------------------------------------------------------------------
(* Compaction keeps.                                                       *)

\* A walk that ends at a member that is no link ends at the holder.
LEMMA WalksEndAtHolders ==
    ASSUME NEW rows \in Seq(Rows), Extractable(rows), NEW i \in DOMAIN rows,
           LET l == Last(Chain(rows, rows[i].path))
           IN  l \in Members(rows) /\ RowOf(rows, l).kind # "link"
    PROVE  Last(Chain(rows, rows[i].path)) = rows[Holder(rows)[i]].path
<1> DEFINE N == Len(rows)
           l(k, n) == Last(Chains(rows)[Link(rows[k].path, n)])
           Ends(k, n) == l(k, n) \in Members(rows) /\ RowOf(rows, l(k, n)).kind # "link"
           G == {n \in 0..N : \A k \in DOMAIN rows :
                    Ends(k, n) => l(k, n) = rows[Holder(rows)[k]].path}
<1>0. N \in Nat /\ N \in 0..N
  OBVIOUS
<1>1. ASSUME NEW k \in DOMAIN rows
      PROVE  /\ rows[k].path \in Paths /\ rows[k].path \in Members(rows)
             /\ RowOf(rows, rows[k].path) = rows[k]
  <2>1. rows[k].path \in Paths /\ rows[k].path \in Members(rows)
    BY CanonicalPaths DEF Members, ToSet
  <2>2. At(rows, rows[k].path) \in DOMAIN rows /\ rows[At(rows, rows[k].path)].path = rows[k].path
    BY <2>1, RowOfMember DEF RowOf
  <2>3. At(rows, rows[k].path) = k
    BY <2>2 DEF Extractable, Opens
  <2> QED BY <2>1, <2>3 DEF RowOf
<1>2. \A x : Last(<< x >>) = x
  BY DEF Last
<1> HIDE DEF N
<1>3. ASSUME NEW n \in 0..N, \A j \in 0..N : j < n => j \in G
      PROVE  n \in G
  <2> SUFFICES ASSUME NEW k \in DOMAIN rows, Ends(k, n)
               PROVE  l(k, n) = rows[Holder(rows)[k]].path
    OBVIOUS
  <2> DEFINE p == rows[k].path
             t == RowOf(rows, p).target
  <2>1. Chains(rows)[Link(p, n)] = IF n > 0 /\ IsLink(rows, p)
                                   THEN << p >> \o Chains(rows)[Link(t, n - 1)] ELSE << p >>
    BY <1>1, ChainStep DEF N
  <2>2. CASE n > 0 /\ IsLink(rows, p)
    <3>1. n - 1 \in 0..N /\ n - 1 < n
      BY <1>0, <2>2
    <3>2. rows[k].kind = "link" /\ t = rows[k].target
      BY <1>1, <2>2 DEF IsLink
    <3>3. t \in Paths
      BY <2>2, LinksLeadToPaths
    <3>4. Chains(rows)[Link(t, n - 1)] \in Seq(Paths) /\ Chains(rows)[Link(t, n - 1)] # << >>
      BY <3>1, <3>3, ChainsArePaths DEF N
    <3>5. l(k, n) = Last(Chains(rows)[Link(t, n - 1)])
      <4>1. Chains(rows)[Link(p, n)] = << p >> \o Chains(rows)[Link(t, n - 1)]
        BY <2>1, <2>2
      <4>2. Last(<< p >> \o Chains(rows)[Link(t, n - 1)]) = Last(Chains(rows)[Link(t, n - 1)])
        BY <1>1, <3>4, Prepended
      <4> QED BY <4>1, <4>2
    <3>6. t \in Members(rows)
      <4>1. SUFFICES ASSUME t \notin Members(rows) PROVE FALSE
        OBVIOUS
      <4>2. Chains(rows)[Link(t, n - 1)] = << t >>
        BY <3>1, <3>3, <4>1, ChainStep DEF N, IsLink
      <4>3. l(k, n) = t
        BY <1>2, <3>5, <4>2
      <4> HIDE DEF l, t
      <4> QED BY <4>1, <4>3
    <3> DEFINE j == Source(rows, k)
               m == At(rows, t)
    <3>7. m \in DOMAIN rows /\ rows[m].path = t
      BY <3>6, RowOfMember DEF RowOf
    <3>8. j \in DOMAIN rows /\ Canon[rows[j].path] = Canon[rows[k].target]
      BY <3>2, SourceIsBefore
    <3> HIDE DEF j, m
    <3>9. m = j
      BY <3>2, <3>7, <3>8 DEF Extractable, Opens
    <3>10. l(k, n) = l(m, n - 1)
      BY <3>5, <3>7
    <3>11. Ends(m, n - 1)
      <4>1. Ends(k, n)
        OBVIOUS
      <4> HIDE DEF l
      <4> QED BY <3>10, <4>1
    <3>12. l(m, n - 1) = rows[Holder(rows)[m]].path
      <4> HIDE DEF l, Ends
      <4> QED BY <1>3, <3>1, <3>7, <3>11
    <3>13. Holder(rows)[k] = Holder(rows)[j]
      BY <3>2, HolderStep DEF j
    <3> HIDE DEF l
    <3> QED BY <3>9, <3>10, <3>12, <3>13
  <2>3. CASE ~(n > 0 /\ IsLink(rows, p))
    <3>1. l(k, n) = p
      BY <1>2, <2>1, <2>3
    <3>2. rows[k].kind # "link"
      <4>1. RowOf(rows, p).kind # "link"
        <5> HIDE DEF l, p
        <5> QED BY <3>1
      <4> QED BY <1>1, <4>1
    <3>3. Holder(rows)[k] = k
      BY <3>2, HolderStep
    <3> HIDE DEF l
    <3> QED BY <3>1, <3>3
  <2> QED BY <2>2, <2>3
<1>4. N \in G
  <2> HIDE DEF G
  <2>1. \A n \in 0..N : n \in G
    BY <1>0, <1>3, Climb
  <2> QED BY <1>0, <2>1
<1>5. Chain(rows, rows[i].path) = Chains(rows)[Link(rows[i].path, N)]
  BY DEF Chain, N
<1>6. Ends(i, N)
  BY <1>5
<1>7. l(i, N) = rows[Holder(rows)[i]].path
  <2> HIDE DEF l, Ends
  <2> QED BY <1>4, <1>6
<1> QED BY <1>5, <1>7

LEMMA RowAtPath ==
    ASSUME NEW rows \in Seq(Rows), Extractable(rows), NEW i \in DOMAIN rows
    PROVE  /\ rows[i].path \in Paths /\ rows[i].path \in Members(rows)
           /\ At(rows, rows[i].path) = i
           /\ RowOf(rows, rows[i].path) = rows[i]
<1>1. rows[i].path \in Paths /\ rows[i].path \in Members(rows)
  BY CanonicalPaths DEF Members, ToSet
<1>2. At(rows, rows[i].path) \in DOMAIN rows /\ rows[At(rows, rows[i].path)].path = rows[i].path
  BY <1>1, RowOfMember DEF RowOf
<1>3. At(rows, rows[i].path) = i
  BY <1>2 DEF Extractable, Opens
<1> QED BY <1>1, <1>3 DEF RowOf

\* What can be read is read from its holder.
LEMMA ReadFromHolders ==
    ASSUME NEW rows \in Seq(Rows), Extractable(rows), NEW i \in DOMAIN rows,
           rows[i].path \in Readables(rows)
    PROVE  /\ Last(Chain(rows, rows[i].path)) = rows[Holder(rows)[i]].path
           /\ ContentOf(rows, rows[i].path) = IF rows[i].kind = "dir" THEN Unreadable
                                              ELSE rows[Holder(rows)[i]].content
<1> DEFINE p == rows[i].path
           l == Last(Chain(rows, p))
           h == Holder(rows)[i]
<1>1. p \in Paths /\ p \in Members(rows) /\ RowOf(rows, p) = rows[i]
  BY RowAtPath
<1>2. l \in Members(rows) /\ RowOf(rows, l).kind # "link"
  <2>1. CASE rows[i].kind = "dir"
    <3>1. Len(rows) \in 0..Len(rows)
      OBVIOUS
    <3>2. Chain(rows, p) = << p >>
      BY <1>1, <2>1, <3>1, ChainStep DEF Chain, IsLink
    <3>3. l = p
      BY <3>2 DEF Last
    <3> HIDE DEF l
    <3> QED BY <1>1, <2>1, <3>3
  <2>2. CASE rows[i].kind # "dir"
    <3>1. ContentOf(rows, p) # Unreadable
      BY <1>1, <2>2 DEF Readables
    <3> QED BY <3>1 DEF ContentOf
  <2> QED BY <2>1, <2>2
<1>3. l = rows[h].path
  BY <1>2, WalksEndAtHolders
<1>4. /\ h \in DOMAIN rows
      /\ rows[i].kind = "dir" => h = i
      /\ rows[i].kind # "dir" => rows[h].kind = "file"
  BY HoldersAreFiles
<1> HIDE DEF h
<1>5. RowOf(rows, rows[h].path) = rows[h] /\ rows[h].path \in Members(rows)
  BY <1>4, RowAtPath
<1>6. ContentOf(rows, p) = IF l \in Members(rows) /\ RowOf(rows, l).kind = "file"
                           THEN RowOf(rows, l).content ELSE Unreadable
  BY DEF ContentOf
<1> HIDE DEF l, p
<1>7. ContentOf(rows, p) = IF rows[h].kind = "file" THEN rows[h].content ELSE Unreadable
  BY <1>3, <1>5, <1>6
<1> QED BY <1>3, <1>4, <1>7 DEF l, p, h

\* What there is of the i-th row, and under which path it was walked first.
LEMMA KeptNodes ==
    ASSUME NEW old, NEW tree, NEW new, Compacted(old, tree, new), NEW i \in DOMAIN old.rows
    PROVE  /\ Canon[old.rows[i].path] \in Members(new.rows)
           /\ Canon[old.rows[i].path] \in DOMAIN tree
           /\ tree[Canon[old.rows[i].path]] = NodeOf(old, i)
           /\ Holder(old.rows)[i] \in DOMAIN old.rows
           /\ tree[Canon[old.rows[i].path]].kind = IF old.rows[i].kind = "dir" THEN "dir" ELSE "file"
           /\ tree[Canon[old.rows[i].path]].inode = Canon[old.rows[Holder(old.rows)[i]].path]
           /\ tree[Canon[old.rows[i].path]].content = old.rows[Holder(old.rows)[i]].content
<1> DEFINE rows == old.rows
           c == Canon[rows[i].path]
<1>0. rows \in Seq(Rows) /\ Extractable(rows) /\ tree = Extracted(old)
  BY DEF Compacted, IndexSound, RowsSound
<1>1. c \in Made(rows) /\ c \in Canonical
  BY <1>0, CanonicalPaths
<1>2. c \in DOMAIN tree
  BY <1>0, <1>1, ExtractedNodes
<1>3. c \in Members(new.rows)
  BY <1>1, <1>2 DEF Compacted, IsTableOf
<1>4. tree[c] = NodeOf(old, i)
  BY <1>0, ExtractedNodes
<1> HIDE DEF c
<1>5. /\ Holder(rows)[i] \in DOMAIN rows
      /\ NodeOf(old, i).inode = Canon[rows[Holder(rows)[i]].path]
      /\ NodeOf(old, i).content = rows[Holder(rows)[i]].content
  BY <1>0, NodeKinds
<1>6. NodeOf(old, i).kind = IF rows[i].kind = "dir" THEN "dir" ELSE "file"
  BY <1>0, NodeKinds
<1> QED BY <1>2, <1>3, <1>4, <1>5, <1>6 DEF c

\* A file that was extracted is one of the rows.
LEMMA FilesAreRows ==
    ASSUME NEW old, NEW tree, NEW new, Compacted(old, tree, new),
           NEW f \in DOMAIN tree, tree[f].kind = "file"
    PROVE  \E k \in DOMAIN old.rows : f = Canon[old.rows[k].path]
<1>0. old.rows \in Seq(Rows) /\ Extractable(old.rows) /\ tree = Extracted(old)
  BY DEF Compacted, IndexSound, RowsSound
<1>1. f \in Made(old.rows)
  <2>1. SUFFICES ASSUME f \notin Made(old.rows) PROVE FALSE
    OBVIOUS
  <2>2. tree[f] = Node("dir", f, None, Root)
    BY <1>0, <2>1, ExtractedNodes
  <2>3. tree[f].kind = "dir"
    BY <2>2 DEF Node
  <2> QED BY <2>3
<1> QED BY <1>1, MadeOfRows

\* Rows are one file after compaction when they end up as one file.
LEMMA OriginsAreHolders ==
    ASSUME NEW old, NEW tree, NEW new, Compacted(old, tree, new),
           NEW i \in DOMAIN old.rows, NEW j \in DOMAIN old.rows
    PROVE  Origin(tree, Canon[old.rows[i].path]) = Origin(tree, Canon[old.rows[j].path])
              <=> Holder(old.rows)[i] = Holder(old.rows)[j]
<1> DEFINE rows == old.rows
           c(k) == Canon[rows[k].path]
           h(k) == Holder(rows)[k]
           f(k) == FirstWalked(tree, c(k))
<1>0. rows \in Seq(Rows) /\ Extractable(rows) /\ TreeSound(tree)
  BY DEF Compacted, IndexSound, RowsSound
<1>1. ASSUME NEW k \in DOMAIN rows
      PROVE  /\ c(k) \in DOMAIN tree /\ h(k) \in DOMAIN rows
             /\ tree[c(k)].kind = IF rows[k].kind = "dir" THEN "dir" ELSE "file"
             /\ tree[c(k)].inode = c(h(k))
  BY KeptNodes
<1>2. \A k, m \in DOMAIN rows : c(k) = c(m) => k = m
  BY <1>0 DEF Extractable, Opens
<1>3. ASSUME NEW k \in DOMAIN rows
      PROVE  /\ rows[k].kind = "dir" => h(k) = k
             /\ rows[k].kind # "dir" => rows[h(k)].kind = "file"
  BY <1>0, HoldersAreFiles
<1>4. ASSUME NEW k \in DOMAIN rows, rows[k].kind # "dir"
      PROVE  f(k) \in DOMAIN tree /\ tree[f(k)].kind = "file" /\ tree[f(k)].inode = c(h(k))
  <2>1. tree[c(k)].kind = "file" /\ c(k) \in DOMAIN tree /\ tree[c(k)].inode = c(h(k))
    BY <1>1, <1>4
  <2>2. f(k) \in DOMAIN tree /\ tree[f(k)].kind = "file" /\ tree[f(k)].inode = tree[c(k)].inode
    <3> HIDE DEF c
    <3> QED BY <1>0, <2>1, FirstIsFile
  <2> HIDE DEF f, c, h
  <2> QED BY <2>1, <2>2
<1>5. ASSUME NEW k \in DOMAIN rows
      PROVE  Origin(tree, c(k)) = IF rows[k].kind = "dir" THEN c(k) ELSE f(k)
  <2>1. tree[c(k)].kind = IF rows[k].kind = "dir" THEN "dir" ELSE "file"
    BY <1>1
  <2> HIDE DEF c
  <2> QED BY <2>1 DEF Origin
<1>6. ASSUME h(i) = h(j), rows[i].kind # "dir", rows[j].kind # "dir" PROVE f(i) = f(j)
  <2>1. tree[c(i)].inode = tree[c(j)].inode
    <3>1. tree[c(i)].inode = c(h(i)) /\ tree[c(j)].inode = c(h(j))
      BY <1>1
    <3> HIDE DEF h, c
    <3> QED BY <1>6, <3>1
  <2> QED BY <2>1, FirstAgain
<1>7. h(i) \in DOMAIN rows /\ h(j) \in DOMAIN rows
  BY <1>1
<1> HIDE DEF c, f, h
<1>8. CASE rows[i].kind = "dir" /\ rows[j].kind = "dir"
  <2>1. h(i) = i /\ h(j) = j
    BY <1>3, <1>8
  <2>2. Origin(tree, c(i)) = c(i) /\ Origin(tree, c(j)) = c(j)
    BY <1>5, <1>8
  <2>3. c(i) = c(j) <=> h(i) = h(j)
    BY <1>2, <2>1
  <2> QED BY <2>2, <2>3 DEF c, h
<1>9. CASE rows[i].kind # "dir" /\ rows[j].kind # "dir"
  <2>1. ASSUME f(i) = f(j) PROVE h(i) = h(j)
    <3>1. tree[f(i)].inode = c(h(i)) /\ tree[f(j)].inode = c(h(j))
      BY <1>4, <1>9
    <3>2. c(h(i)) = c(h(j))
      BY <2>1, <3>1
    <3> QED BY <1>2, <1>7, <3>2
  <2>2. Origin(tree, c(i)) = f(i) /\ Origin(tree, c(j)) = f(j)
    BY <1>5, <1>9
  <2> QED BY <1>6, <1>9, <2>1, <2>2 DEF c, h
<1>10. ASSUME NEW k \in DOMAIN rows, NEW m \in DOMAIN rows,
              rows[k].kind = "dir", rows[m].kind # "dir"
       PROVE  Origin(tree, c(k)) # Origin(tree, c(m)) /\ h(k) # h(m)
  <2>1. h(k) = k /\ rows[h(m)].kind = "file"
    BY <1>3, <1>10
  <2>2. Origin(tree, c(k)) = c(k) /\ tree[c(k)].kind = "dir"
    BY <1>1, <1>5, <1>10
  <2>3. Origin(tree, c(m)) = f(m) /\ tree[f(m)].kind = "file"
    BY <1>4, <1>5, <1>10
  <2>4. h(k) # h(m)
    BY <1>10, <2>1
  <2>5. c(k) # f(m)
    BY <2>2, <2>3
  <2> QED BY <2>2, <2>3, <2>4, <2>5
<1> QED BY <1>8, <1>9, <1>10 DEF c, h

\* A file keeps its content.
LEMMA ContentsKept ==
    ASSUME NEW old, NEW tree, NEW new, Compacted(old, tree, new), NEW i \in DOMAIN old.rows
    PROVE  ContentOf(new.rows, Canon[old.rows[i].path]) =
              IF old.rows[i].kind = "dir" THEN Unreadable
              ELSE old.rows[Holder(old.rows)[i]].content
<1> DEFINE rows == old.rows
           c == Canon[rows[i].path]
           f == FirstWalked(tree, c)
<1>0. /\ rows \in Seq(Rows) /\ Extractable(rows) /\ TreeSound(tree)
      /\ IndexSound(new) /\ IsTableOf(new, tree)
  BY DEF Compacted, IndexSound, RowsSound
<1>1. /\ c \in Members(new.rows) /\ c \in DOMAIN tree /\ Holder(rows)[i] \in DOMAIN rows
      /\ tree[c].kind = IF rows[i].kind = "dir" THEN "dir" ELSE "file"
      /\ tree[c].inode = Canon[rows[Holder(rows)[i]].path]
  BY KeptNodes
<1>2. ContentOf(new.rows, c) = IF tree[c].kind = "file" THEN tree[f].content ELSE Unreadable
  BY <1>0, <1>1, BuiltContents
<1>3. ASSUME rows[i].kind # "dir" PROVE tree[f].content = rows[Holder(rows)[i]].content
  <2>1. tree[c].kind = "file"
    BY <1>1, <1>3
  <2>2. f \in DOMAIN tree /\ tree[f].kind = "file" /\ tree[f].inode = tree[c].inode
    <3> HIDE DEF c
    <3> QED BY <1>0, <1>1, <2>1, FirstIsFile
  <2> HIDE DEF f
  <2>3. PICK k \in DOMAIN rows : f = Canon[rows[k].path]
    BY <2>2, FilesAreRows
  <2>4. /\ Holder(rows)[k] \in DOMAIN rows
        /\ tree[f].inode = Canon[rows[Holder(rows)[k]].path]
        /\ tree[f].content = rows[Holder(rows)[k]].content
    BY <2>3, KeptNodes
  <2>5. Canon[rows[Holder(rows)[k]].path] = Canon[rows[Holder(rows)[i]].path]
    BY <1>1, <2>2, <2>4
  <2>6. \A k1, k2 \in DOMAIN rows : Canon[rows[k1].path] = Canon[rows[k2].path] => k1 = k2
    BY <1>0 DEF Extractable, Opens
  <2>7. Holder(rows)[k] = Holder(rows)[i]
    BY <1>1, <2>4, <2>5, <2>6
  <2> QED BY <2>4, <2>7
<1> HIDE DEF f, c
<1> QED BY <1>1, <1>2, <1>3 DEF c

\* A file with no other name keeps its owner.
LEMMA OwnersKept ==
    ASSUME NEW old, NEW tree, NEW new, Compacted(old, tree, new), NEW i \in DOMAIN old.rows,
           \A j \in DOMAIN old.rows : Holder(old.rows)[j] = Holder(old.rows)[i] => j = i
    PROVE  OwnerOf(new, Canon[old.rows[i].path]) = OwnerOf(old, old.rows[i].path)
<1> DEFINE rows == old.rows
           c == Canon[rows[i].path]
           own == OwnerOf(old, rows[i].path)
           setting == {j \in {i} : OwnerOf(old, rows[j].path) # Root}
<1>0. rows \in Seq(Rows) /\ Extractable(rows)
  BY DEF Compacted, IndexSound, RowsSound
<1>1. c \in Members(new.rows) /\ tree[c] = NodeOf(old, i)
  BY KeptNodes
<1>2. OwnerOf(new, c) = tree[c].owner
  BY <1>1 DEF Compacted, IsTableOf
<1>3. Held(rows, i) = {i}
  BY DEF Held
<1>4. NodeOf(old, i).owner = OwnerSet(old, {i})
  <2>1. NodeOf(old, i).owner = OwnerSet(old, Held(rows, i))
    BY <1>0, NodeKinds
  <2> QED BY <1>3, <2>1
<1>5. OwnerSet(old, {i}) = IF setting = {} THEN Root ELSE OwnerOf(old, rows[Max(setting)].path)
  BY DEF OwnerSet
<1>6. CASE own = Root
  <2>1. setting = {}
    BY <1>6
  <2> HIDE DEF setting, c, own
  <2> QED BY <1>1, <1>2, <1>4, <1>5, <1>6, <2>1 DEF c, own
<1>7. CASE own # Root
  <2>1. setting = {i}
    BY <1>7
  <2>2. Max({i}) = i
    <3>1. i \in Nat
      BY <1>0
    <3>2. {i} \in SUBSET (0..i) /\ {i} # {}
      BY <3>1
    <3>3. Max({i}) \in {i}
      BY <3>1, <3>2, MaxIsLargest
    <3> QED BY <3>3
  <2> HIDE DEF setting, c
  <2>3. OwnerSet(old, {i}) = own
    BY <1>5, <1>7, <2>1, <2>2, IndexAssumption
  <2> HIDE DEF own
  <2> QED BY <1>1, <1>2, <1>4, <2>3 DEF c, own
<1> QED BY <1>6, <1>7

\* What CompactionKeeps asks of a compaction.
Keeps(old, new) ==
    LET live == Readables(old.rows)
    IN  /\ \A p \in Members(old.rows) : Canon[p] \in Members(new.rows)
        /\ \A p \in live :
              /\ (RowOf(new.rows, Canon[p]).kind = "dir") <=> (RowOf(old.rows, p).kind = "dir")
              /\ ContentOf(new.rows, Canon[p]) = ContentOf(old.rows, p)
              /\ \A q \in live :
                    Joined(new.rows, Canon[p], Canon[q]) <=> Joined(old.rows, p, q)
              /\ (\A q \in Members(new.rows) : Joined(new.rows, Canon[p], q) => q = Canon[p])
                    => OwnerOf(new, Canon[p]) = OwnerOf(old, p)

LEMMA TreeKept ==
    ASSUME NEW old, NEW tree, NEW new, Compacted(old, tree, new)
    PROVE  Keeps(old, new)
<1> DEFINE rows == old.rows
           c(k) == Canon[rows[k].path]
<1>0. /\ rows \in Seq(Rows) /\ Extractable(rows) /\ TreeSound(tree)
      /\ IndexSound(new) /\ IsTableOf(new, tree)
  BY DEF Compacted, IndexSound, RowsSound
<1>1. ASSUME NEW p \in Members(rows) PROVE \E i \in DOMAIN rows : rows[i].path = p
  BY DEF Members, ToSet
<1>2. ASSUME NEW p \in Members(rows) PROVE Canon[p] \in Members(new.rows)
  <2>1. PICK i \in DOMAIN rows : rows[i].path = p
    BY <1>1
  <2> QED BY <2>1, KeptNodes
<1>3. ASSUME NEW i \in DOMAIN rows
      PROVE  /\ c(i) \in Members(new.rows)
             /\ Last(Chain(new.rows, c(i))) = Origin(tree, c(i))
             /\ RowOf(new.rows, c(i)).kind = "dir" <=> rows[i].kind = "dir"
  <2>1. /\ c(i) \in Members(new.rows)
        /\ tree[c(i)].kind = IF rows[i].kind = "dir" THEN "dir" ELSE "file"
    BY KeptNodes
  <2> HIDE DEF c
  <2>2. /\ Last(Chain(new.rows, c(i))) = Origin(tree, c(i))
        /\ RowOf(new.rows, c(i)).kind = "dir" <=> tree[c(i)].kind = "dir"
    BY <1>0, <2>1, BuiltWalks
  <2> QED BY <2>1, <2>2
<1>4. ASSUME NEW i \in DOMAIN rows, NEW j \in DOMAIN rows
      PROVE  Joined(new.rows, c(i), c(j)) <=> Holder(rows)[i] = Holder(rows)[j]
  <2>1. Origin(tree, c(i)) = Origin(tree, c(j)) <=> Holder(rows)[i] = Holder(rows)[j]
    BY OriginsAreHolders
  <2> HIDE DEF c
  <2> QED BY <1>3, <2>1 DEF Joined
<1>5. ASSUME NEW i \in DOMAIN rows, rows[i].path \in Readables(rows),
             NEW j \in DOMAIN rows, rows[j].path \in Readables(rows)
      PROVE  Joined(new.rows, c(i), c(j)) <=> Joined(rows, rows[i].path, rows[j].path)
  <2>1. /\ Last(Chain(rows, rows[i].path)) = rows[Holder(rows)[i]].path
        /\ Last(Chain(rows, rows[j].path)) = rows[Holder(rows)[j]].path
    BY <1>0, <1>5, ReadFromHolders
  <2>2. Holder(rows)[i] \in DOMAIN rows /\ Holder(rows)[j] \in DOMAIN rows
    BY <1>0, HoldersAreFiles
  <2>3. rows[Holder(rows)[i]].path = rows[Holder(rows)[j]].path
           => Holder(rows)[i] = Holder(rows)[j]
    BY <1>0, <2>2 DEF Extractable, Opens
  <2> HIDE DEF c
  <2>4. Joined(new.rows, c(i), c(j)) <=> Holder(rows)[i] = Holder(rows)[j]
    BY <1>4
  <2> QED BY <2>1, <2>3, <2>4 DEF Joined
<1>6. ASSUME NEW i \in DOMAIN rows, rows[i].path \in Readables(rows)
      PROVE  ContentOf(new.rows, c(i)) = ContentOf(rows, rows[i].path)
  <2>1. ContentOf(new.rows, c(i)) = IF rows[i].kind = "dir" THEN Unreadable
                                    ELSE rows[Holder(rows)[i]].content
    BY ContentsKept
  <2>2. ContentOf(rows, rows[i].path) = IF rows[i].kind = "dir" THEN Unreadable
                                        ELSE rows[Holder(rows)[i]].content
    BY <1>0, <1>6, ReadFromHolders
  <2> HIDE DEF c
  <2> QED BY <2>1, <2>2
<1>7. ASSUME NEW i \in DOMAIN rows,
             \A q \in Members(new.rows) : Joined(new.rows, c(i), q) => q = c(i)
      PROVE  OwnerOf(new, c(i)) = OwnerOf(old, rows[i].path)
  <2>1. ASSUME NEW j \in DOMAIN rows, Holder(rows)[j] = Holder(rows)[i] PROVE j = i
    <3>1. c(j) \in Members(new.rows) /\ Joined(new.rows, c(i), c(j))
      <4> HIDE DEF c
      <4>1. Joined(new.rows, c(i), c(j)) <=> Holder(rows)[i] = Holder(rows)[j]
        BY <1>4
      <4> QED BY <1>3, <2>1, <4>1
    <3>2. c(j) = c(i)
      BY <1>7, <3>1
    <3> QED BY <1>0, <3>2 DEF Extractable, Opens
  <2> QED BY <2>1, OwnersKept
<1>8. ASSUME NEW p \in Readables(rows)
      PROVE  /\ (RowOf(new.rows, Canon[p]).kind = "dir") <=> (RowOf(rows, p).kind = "dir")
             /\ ContentOf(new.rows, Canon[p]) = ContentOf(rows, p)
             /\ \A q \in Readables(rows) :
                   Joined(new.rows, Canon[p], Canon[q]) <=> Joined(rows, p, q)
             /\ (\A q \in Members(new.rows) : Joined(new.rows, Canon[p], q) => q = Canon[p])
                   => OwnerOf(new, Canon[p]) = OwnerOf(old, p)
  <2>1. PICK i \in DOMAIN rows : rows[i].path = p
    BY <1>1 DEF Readables
  <2>2. RowOf(rows, p) = rows[i]
    BY <1>0, <2>1, RowAtPath
  <2>3. (RowOf(new.rows, Canon[p]).kind = "dir") <=> (RowOf(rows, p).kind = "dir")
    BY <1>3, <2>1, <2>2
  <2>4. ContentOf(new.rows, Canon[p]) = ContentOf(rows, p)
    BY <1>6, <2>1
  <2>5. ASSUME NEW q \in Readables(rows)
        PROVE  Joined(new.rows, Canon[p], Canon[q]) <=> Joined(rows, p, q)
    <3>1. PICK j \in DOMAIN rows : rows[j].path = q
      BY <1>1 DEF Readables
    <3> QED BY <1>5, <2>1, <3>1
  <2>6. (\A q \in Members(new.rows) : Joined(new.rows, Canon[p], q) => q = Canon[p])
           => OwnerOf(new, Canon[p]) = OwnerOf(old, p)
    BY <1>7, <2>1
  <2> QED BY <2>3, <2>4, <2>5, <2>6
<1> QED BY <1>2, <1>8 DEF Keeps

\* Mutations count, compactions do not.
Counted == age \in Nat

LEMMA AgeCounts == Spec => []Counted
<1>1. Init => Counted
  BY DEF Init, Counted
<1>2. ASSUME Counted, [Next]_vars PROVE Counted'
  <2> USE DEF Counted
  <2>1. ASSUME NEW view, NEW op, Mutate(view, op) PROVE age' \in Nat
    BY <1>2, <2>1 DEF Mutate
  <2>2. CASE UNCHANGED vars
    BY <1>2, <2>2 DEF vars
  <2>3. CASE Compact
    BY <1>2, <2>3 DEF Compact
  <2> QED BY <1>2, <2>1, <2>2, <2>3 DEF Next, Update, Delete, Rename
<1> QED BY <1>1, <1>2, PTL DEF Spec

\* Only a compaction leaves the age.
LEMMA OnlyCompacts ==
    ASSUME Counted, Next, Compacts
    PROVE  Compact
<1>1. ASSUME NEW view, NEW op, Mutate(view, op) PROVE FALSE
  <2>1. age' = age + 1 /\ age' = age
    BY <1>1 DEF Mutate, Compacts, Counted
  <2> QED BY <2>1
<1> QED BY <1>1 DEF Next, Update, Delete, Rename

\* What compaction writes can be read, has its directories and passes preflight, whatever
\* renames and deletes have left behind (transactions.py:149-155, validation.py:452-502).
THEOREM CompactionsHeal == Spec => CompactionHeals
<1> DEFINE Healed == Compacts => \A new \in {View'} : Sound(new)
<1>1. ASSUME LiveInv, Counted, Next PROVE Healed
  <2> SUFFICES ASSUME Compacts PROVE Sound(View')
    OBVIOUS
  <2>1. Compact
    BY <1>1, OnlyCompacts
  <2>2. PICK tree : Compacted(View, tree, View')
    BY <1>1, <2>1, CompactionBuilds
  <2> QED BY <2>2, HealedRows, HealedParents, HealedTable DEF Sound
<1>2. LiveInv /\ Counted /\ [Next]_vars => [Healed]_vars
  BY <1>1
<1> QED BY <1>2, LiveInvariance, AgeCounts, PTL DEF Spec, CompactionHeals

\* Compaction keeps the live tree: members, kinds, contents, what is one file under several
\* names, and the owner of what has one name (transactions.py:150-155).
THEOREM CompactionsKeep == Spec => CompactionKeeps
<1> DEFINE Kept == Compacts => \A old \in {View}, new \in {View'} : Keeps(old, new)
<1>1. ASSUME LiveInv, Counted, Next PROVE Kept
  <2> SUFFICES ASSUME Compacts PROVE Keeps(View, View')
    OBVIOUS
  <2>1. Compact
    BY <1>1, OnlyCompacts
  <2>2. PICK tree : Compacted(View, tree, View')
    BY <1>1, <2>1, CompactionBuilds
  <2> QED BY <2>2, TreeKept
<1>2. LiveInv /\ Counted /\ [Next]_vars => [Kept]_vars
  BY <1>1
<1> QED BY <1>2, LiveInvariance, AgeCounts, PTL DEF Spec, CompactionKeeps, Keeps
=============================================================================
