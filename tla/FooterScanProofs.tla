-------------------------- MODULE FooterScanProofs --------------------------
(***************************************************************************)
(* The backward scan finds every footer of every file, whatever the length *)
(* of the file, of the magic, of a footer and of a block; the reader and   *)
(* the preflight follow the same chain from it.                            *)
(***************************************************************************)
EXTENDS FooterScan, Extrema, SequenceTheorems

States == {"read", "search", "found", "rejected", "head"}
Scan == [pos : Nat, length : Nat, search : Nat, tried : Seq(Nat), state : States]

\* Occurrences of the magic lie in the file and do not overlap.
FileSound ==
    /\ file.size \in Nat
    /\ \A p \in DOMAIN file.foot :
           /\ p \in Nat /\ p + Magic <= file.size
           /\ \A q \in DOMAIN file.foot : p < q => p + Magic <= q

\* The chunk reaches to the end of the file, or holds what had to be carried.
Bounded(s, size) ==
    /\ s.search <= s.length /\ s.length < Block + Magic
    /\ s.pos + s.length <= size
    /\ s.length >= Magic - 1 \/ s.pos + s.length = size

\* The newest first.
Ordered(s, C) ==
    /\ ToSet(s.tried) \subseteq C
    /\ \A i, j \in DOMAIN s.tried : i < j => s.tried[i] > s.tried[j]
    /\ \A p \in C \ ToSet(s.tried) : \A q \in ToSet(s.tried) : p < q

\* What has been tried is what the scan has passed.
Passed(s, C) ==
    LET T == ToSet(s.tried)
    IN  /\ s.state = "read" =>
               /\ \A p \in C : p >= s.pos => p \in T
               /\ \A q \in T : q >= s.pos
        /\ s.state = "search" =>
               /\ \A p \in C : p >= s.pos /\ p + Magic > s.pos + s.search => p \in T
               /\ \A q \in T : q >= s.pos /\ q + Magic > s.pos + s.search
        /\ s.state = "head" => C \subseteq T

ScanInv ==
    /\ FileSound
    /\ scan \in [Scanners -> Scan]
    /\ \A w \in Scanners : /\ Bounded(scan[w], file.size)
                           /\ Ordered(scan[w], Candidates) /\ Passed(scan[w], Candidates)

-----------------------------------------------------------------------------
LEMMA Constants ==
    Magic \in Nat /\ Magic >= 2 /\ Footer \in Nat /\ Block \in Nat /\ Block >= Magic
<1> QED BY ScanAssumption, SMT

\* What straddles the end of the next chunk begins where the scan has been.
LEMMA CarriedOver ==
    ASSUME NEW p \in Nat, NEW pos \in Nat, NEW length \in Nat, NEW n \in Nat, NEW kept \in Nat,
           NEW size \in Nat, NEW magic \in Nat, magic >= 2,
           p + magic <= size, p + magic > pos - n + (n + kept),
           kept < magic, kept = magic - 1 \/ kept = length,
           length >= magic - 1 \/ pos + length = size
    PROVE  p >= pos
<1> QED BY SMT

LEMMA CandidatesAreNat ==
    ASSUME FileSound PROVE Candidates \subseteq Nat
<1> QED BY DEF FileSound, Candidates

\* What is appended to a sequence joins its elements.
LEMMA AppendedTo ==
    ASSUME NEW s \in Seq(Nat), NEW p \in Nat
    PROVE  /\ Append(s, p) \in Seq(Nat)
           /\ ToSet(Append(s, p)) = ToSet(s) \cup {p}
<1>1. Append(s, p) \in Seq(Nat) /\ DOMAIN Append(s, p) = 1..(Len(s) + 1)
      /\ DOMAIN s = 1..Len(s) /\ Len(s) \in Nat
  OBVIOUS
<1>2. \A i \in 1..Len(s) : Append(s, p)[i] = s[i]
  OBVIOUS
<1>3. Append(s, p)[Len(s) + 1] = p
  OBVIOUS
<1>4. ToSet(Append(s, p)) \subseteq ToSet(s) \cup {p}
  BY <1>1, <1>2, <1>3 DEF ToSet
<1>5. ToSet(s) \subseteq ToSet(Append(s, p))
  <2>1. SUFFICES ASSUME NEW i \in 1..Len(s) PROVE s[i] \in ToSet(Append(s, p))
    BY <1>1 DEF ToSet
  <2>2. i \in DOMAIN Append(s, p) /\ Append(s, p)[i] = s[i]
    BY <1>1, <1>2, SMT
  <2> QED BY <2>2 DEF ToSet
<1>6. p \in ToSet(Append(s, p))
  <2>1. Len(s) + 1 \in DOMAIN Append(s, p)
    BY <1>1, SMT
  <2> QED BY <2>1, <1>3 DEF ToSet
<1> QED BY <1>1, <1>4, <1>5, <1>6

LEMMA AppendedLast ==
    ASSUME NEW s \in Seq(Nat), NEW p \in Nat,
           \A i, j \in DOMAIN s : i < j => s[i] > s[j],
           \A q \in ToSet(s) : p < q
    PROVE  \A i, j \in DOMAIN Append(s, p) : i < j => Append(s, p)[i] > Append(s, p)[j]
<1>1. DOMAIN Append(s, p) = 1..(Len(s) + 1) /\ DOMAIN s = 1..Len(s) /\ Len(s) \in Nat
  OBVIOUS
<1>2. \A i \in 1..Len(s) : Append(s, p)[i] = s[i] /\ s[i] \in Nat /\ p < s[i]
  BY <1>1 DEF ToSet
<1>3. Append(s, p)[Len(s) + 1] = p
  OBVIOUS
<1>4. SUFFICES ASSUME NEW i \in 1..(Len(s) + 1), NEW j \in 1..(Len(s) + 1), i < j
               PROVE  Append(s, p)[i] > Append(s, p)[j]
  BY <1>1
<1>5. i \in 1..Len(s)
  BY <1>1, <1>4, SMT
<1>6. CASE j = Len(s) + 1
  BY <1>2, <1>3, <1>5, <1>6, SMT
<1>7. CASE j \in 1..Len(s)
  BY <1>1, <1>2, <1>4, <1>5, <1>7
<1> QED BY <1>1, <1>6, <1>7, SMT

-----------------------------------------------------------------------------
LEMMA InitFound == Init => ScanInv
<1> SUFFICES ASSUME Init PROVE ScanInv
  OBVIOUS
<1>0. PICK size \in Sizes : \E S \in Places(size) : \E foot \in [S -> Feet(S)] :
          file = [size |-> size, foot |-> foot]
  BY DEF Init
<1>1. PICK S \in Places(size) : \E foot \in [S -> Feet(S)] :
          file = [size |-> size, foot |-> foot]
  BY <1>0
<1>2. DOMAIN file.foot = S /\ file.size = size /\ size \in Nat
  BY <1>1, <1>0, ScanAssumption
<1>3. FileSound
  <2>1. S \subseteq 1..(size - Magic) /\ \A p, q \in S : p < q => p + Magic <= q
    BY <1>1 DEF Places
  <2>2. \A p \in S : p \in Nat /\ p + Magic <= size
    BY <2>1, <1>2, Constants, SMT
  <2> QED BY <1>2, <2>1, <2>2 DEF FileSound
<1>4. \A w \in Scanners : scan[w] = [pos |-> size, length |-> 0, search |-> 0,
                                     tried |-> << >>, state |-> "read"]
  BY <1>2 DEF Init
<1>5. scan \in [Scanners -> Scan]
  BY <1>2 DEF Init, Scan, States
<1>6. ASSUME NEW w \in Scanners
      PROVE  /\ Bounded(scan[w], file.size) /\ Ordered(scan[w], Candidates)
             /\ Passed(scan[w], Candidates)
  <2>1. scan[w].pos = size /\ scan[w].length = 0 /\ scan[w].search = 0
        /\ scan[w].tried = << >> /\ scan[w].state = "read"
    BY <1>4
  <2>2. ToSet(scan[w].tried) = {} /\ DOMAIN scan[w].tried = {}
    BY <2>1 DEF ToSet
  <2>3. Bounded(scan[w], file.size)
    BY <2>1, <1>2, Constants, SMT DEF Bounded
  <2>4. Ordered(scan[w], Candidates)
    BY <2>2 DEF Ordered
  <2>5. \A p \in Candidates : ~(p >= size)
    BY <1>2, <1>3, Constants, SMT DEF FileSound, Candidates
  <2>6. Passed(scan[w], Candidates)
    BY <2>1, <2>2, <2>5 DEF Passed
  <2> QED BY <2>3, <2>4, <2>6
<1> QED BY <1>3, <1>5, <1>6 DEF ScanInv

-----------------------------------------------------------------------------
(* The steps of one scan, of which the other's record is not touched.      *)

LEMMA ReadBlockKeeps ==
    ASSUME ScanInv, NEW w \in Scanners, ReadBlock(w)
    PROVE  ScanInv'
<1> DEFINE s == scan[w]
           n == Least(Block, s.pos)
           kept == Carry(s.length)
<1>1. s \in Scan /\ Bounded(s, file.size) /\ Ordered(s, Candidates) /\ Passed(s, Candidates)
  BY DEF ScanInv
<1>2. s.pos \in Nat /\ s.length \in Nat /\ s.tried \in Seq(Nat)
  BY <1>1 DEF Scan
<1>3. s.state = "read" /\ s.pos > 0 /\ file' = file
  BY DEF ReadBlock
<1>4. n \in Nat /\ n <= Block /\ n <= s.pos /\ (n = Block \/ n = s.pos)
  BY <1>2, Constants, SMT DEF Least
<1>5. kept \in Nat /\ kept < Magic /\ kept <= s.length
      /\ (kept = Magic - 1 \/ kept = s.length)
  BY <1>2, Constants, SMT DEF Least, Carry
<1> HIDE DEF n, kept
<1>6. /\ scan' \in [Scanners -> Scan]
      /\ scan'[w] = [pos |-> s.pos - n, length |-> n + kept, search |-> n + kept,
                     tried |-> s.tried, state |-> "search"]
      /\ \A v \in Scanners \ {w} : scan'[v] = scan[v]
  <2>1. scan' = [scan EXCEPT ![w] = [pos |-> s.pos - n, length |-> n + kept,
                                     search |-> n + kept, tried |-> s.tried,
                                     state |-> "search"]]
    BY DEF ReadBlock, n, kept
  <2>2. s.pos - n \in Nat /\ n + kept \in Nat
    BY <1>2, <1>4, <1>5, SMT
  <2>3. [pos |-> s.pos - n, length |-> n + kept, search |-> n + kept,
         tried |-> s.tried, state |-> "search"] \in Scan
    BY <2>2, <1>2 DEF Scan, States
  <2> HIDE DEF s
  <2>4. scan \in [Scanners -> Scan]
    BY DEF ScanInv
  <2> QED BY <2>1, <2>3, <2>4
<1>7. file.size \in Nat
  BY DEF ScanInv, FileSound
<1>12. /\ scan'[w].pos = s.pos - n /\ scan'[w].length = n + kept
       /\ scan'[w].search = n + kept /\ scan'[w].tried = s.tried
       /\ scan'[w].state = "search"
  BY <1>6
<1> HIDE DEF s
<1>8. Bounded(scan'[w], file.size)
  <2>1. s.pos + s.length <= file.size
        /\ (s.length >= Magic - 1 \/ s.pos + s.length = file.size)
    BY <1>1 DEF Bounded
  <2>2. n + kept < Block + Magic
    BY <1>4, <1>5, Constants, SMT
  <2>3. s.pos - n + (n + kept) <= file.size
    BY <2>1, <1>2, <1>4, <1>5, <1>7, SMT
  <2>4. n + kept >= Magic - 1 \/ s.pos - n + (n + kept) = file.size
    BY <2>1, <1>2, <1>4, <1>5, <1>7, Constants, SMT
  <2>5. n + kept <= n + kept
    BY <1>4, <1>5, SMT
  <2> QED BY <2>2, <2>3, <2>4, <2>5, <1>12 DEF Bounded
<1>9. Ordered(scan'[w], Candidates)
  BY <1>1, <1>12 DEF Ordered
<1>10. Passed(scan'[w], Candidates)
  <2>1. ASSUME NEW p \in Candidates, p >= s.pos - n, p + Magic > s.pos - n + (n + kept)
        PROVE  p \in ToSet(s.tried)
    <3>1. p \in Nat /\ p + Magic <= file.size
      BY DEF Candidates, ScanInv, FileSound
    <3>2. s.length >= Magic - 1 \/ s.pos + s.length = file.size
      BY <1>1 DEF Bounded
    <3>3. p >= s.pos
      BY <3>1, <3>2, <2>1, <1>2, <1>4, <1>5, <1>7, Constants, CarriedOver
    <3> QED BY <3>3, <1>1, <1>3 DEF Passed
  <2>2. ASSUME NEW q \in ToSet(s.tried)
        PROVE  q >= s.pos - n /\ q + Magic > s.pos - n + (n + kept)
    <3>1. q >= s.pos /\ q \in Nat
      BY <1>1, <1>3, CandidatesAreNat DEF Passed, Ordered, ScanInv
    <3> QED BY <3>1, <1>2, <1>4, <1>5, Constants, SMT
  <2> QED BY <2>1, <2>2, <1>12 DEF Passed
<1>11. Candidates' = Candidates /\ FileSound'
  BY <1>3 DEF Candidates, ScanInv, FileSound
<1> QED BY <1>3, <1>6, <1>8, <1>9, <1>10, <1>11 DEF ScanInv

\* A scan is put in place of another; the file stays.
LEMMA Replaced ==
    ASSUME ScanInv, NEW w \in Scanners, NEW t \in Scan,
           scan' = [scan EXCEPT ![w] = t], file' = file,
           Bounded(t, file.size), Ordered(t, Candidates), Passed(t, Candidates)
    PROVE  ScanInv'
<1>1. scan \in [Scanners -> Scan]
  BY DEF ScanInv
<1>2. scan' \in [Scanners -> Scan] /\ scan'[w] = t
      /\ \A v \in Scanners \ {w} : scan'[v] = scan[v]
  BY <1>1
<1>3. Candidates' = Candidates /\ FileSound'
  BY DEF Candidates, ScanInv, FileSound
<1> QED BY <1>2, <1>3 DEF ScanInv

LEMMA BlockDoneKeeps ==
    ASSUME ScanInv, NEW w \in Scanners, BlockDone(w)
    PROVE  ScanInv'
<1> DEFINE s == scan[w]
           t == [s EXCEPT !.state = "read"]
<1>1. s \in Scan /\ Bounded(s, file.size) /\ Ordered(s, Candidates) /\ Passed(s, Candidates)
  BY DEF ScanInv
<1>2. s.state = "search" /\ Hits(w) = {} /\ file' = file /\ scan' = [scan EXCEPT ![w] = t]
  BY DEF BlockDone
<1>3. t \in Scan /\ t.pos = s.pos /\ t.length = s.length /\ t.search = s.search
      /\ t.tried = s.tried /\ t.state = "read"
  BY <1>1 DEF Scan, States
<1> HIDE DEF t
<1>4. Bounded(t, file.size) /\ Ordered(t, Candidates)
  BY <1>1, <1>3 DEF Bounded, Ordered
<1>5. Passed(t, Candidates)
  <2>1. ASSUME NEW p \in Candidates, p >= s.pos
        PROVE  p \in ToSet(s.tried)
    <3>1. p \in DOMAIN file.foot /\ p \in Nat
      BY DEF Candidates, ScanInv, FileSound
    <3>2. ~(p + Magic <= s.pos + s.search)
      BY <3>1, <2>1, <1>2 DEF Hits
    <3>3. p + Magic > s.pos + s.search
      BY <3>1, <3>2, <1>1, Constants, SMT DEF Scan
    <3> QED BY <3>3, <2>1, <1>1, <1>2 DEF Passed
  <2>2. \A q \in ToSet(s.tried) : q >= s.pos
    BY <1>1, <1>2 DEF Passed
  <2> QED BY <2>1, <2>2, <1>3 DEF Passed
<1> QED BY <1>2, <1>3, <1>4, <1>5, Replaced

LEMMA UseHeadKeeps ==
    ASSUME ScanInv, NEW w \in Scanners, UseHead(w)
    PROVE  ScanInv'
<1> DEFINE s == scan[w]
           t == [s EXCEPT !.state = "head"]
<1>1. s \in Scan /\ Bounded(s, file.size) /\ Ordered(s, Candidates) /\ Passed(s, Candidates)
  BY DEF ScanInv
<1>2. s.state = "read" /\ s.pos = 0 /\ file' = file /\ scan' = [scan EXCEPT ![w] = t]
  BY DEF UseHead
<1>3. t \in Scan /\ t.pos = s.pos /\ t.length = s.length /\ t.search = s.search
      /\ t.tried = s.tried /\ t.state = "head"
  BY <1>1 DEF Scan, States
<1> HIDE DEF t
<1>4. Bounded(t, file.size) /\ Ordered(t, Candidates)
  BY <1>1, <1>3 DEF Bounded, Ordered
<1>5. \A p \in Candidates : p >= 0
  BY CandidatesAreNat, SMT DEF ScanInv
<1>6. Passed(t, Candidates)
  BY <1>1, <1>2, <1>3, <1>5 DEF Passed
<1> QED BY <1>2, <1>3, <1>4, <1>6, Replaced

\* What is looked at next: the last magic before where the scan has been.
LEMMA LastHit ==
    ASSUME ScanInv, NEW w \in Scanners, Hits(w) # {}
    PROVE  /\ Max(Hits(w)) \in Hits(w)
           /\ \A p \in Hits(w) : p <= Max(Hits(w))
<1>1. file.size \in Nat /\ Hits(w) \subseteq 0..file.size
  <2>1. ASSUME NEW p \in Hits(w) PROVE p \in 0..file.size
    BY Constants, SMT DEF Hits, ScanInv, FileSound
  <2> QED BY <2>1 DEF ScanInv, FileSound
<1> QED BY <1>1, MaxIsLargest

LEMMA TryFooterKeeps ==
    ASSUME ScanInv, NEW w \in Scanners, TryFooter(w)
    PROVE  ScanInv'
<1> DEFINE s == scan[w]
           p == Max(Hits(w))
           T == ToSet(s.tried)
<1>1. s \in Scan /\ Bounded(s, file.size) /\ Ordered(s, Candidates) /\ Passed(s, Candidates)
  BY DEF ScanInv
<1>2. s.state = "search" /\ Hits(w) # {} /\ file' = file
  BY DEF TryFooter
<1>3. p \in Hits(w) /\ \A r \in Hits(w) : r <= p
  BY <1>2, LastHit
<1>4. p \in DOMAIN file.foot /\ p \in Nat /\ p >= s.pos /\ p + Magic <= s.pos + s.search
  BY <1>3 DEF Hits, ScanInv, FileSound
<1>5. s.pos \in Nat /\ s.length \in Nat /\ s.search \in Nat /\ s.tried \in Seq(Nat)
  BY <1>1 DEF Scan
<1> HIDE DEF p
<1>6. p - s.pos \in Nat /\ p - s.pos <= s.length /\ s.pos + (p - s.pos) = p
  <2>1. s.search <= s.length
    BY <1>1 DEF Bounded
  <2> QED BY <2>1, <1>4, <1>5, Constants, SMT
<1>7. \A q \in T : q \in Nat /\ q > p /\ q >= s.pos
  <2>1. ASSUME NEW q \in T PROVE q \in Nat /\ q > p /\ q >= s.pos
    <3>1. q \in Nat /\ q >= s.pos /\ q + Magic > s.pos + s.search
      BY <1>1, <1>2, CandidatesAreNat DEF Passed, Ordered, ScanInv
    <3> QED BY <3>1, <1>4, <1>5, Constants, SMT
  <2> QED BY <2>1
\* Candidates not tried lie before p, or are p.
<1>8. ASSUME NEW r \in Candidates \ T PROVE r \in Nat /\ (r = p \/ r + Magic <= p)
  <2>1. r \in DOMAIN file.foot /\ r \in Nat
    BY DEF Candidates, ScanInv, FileSound
  <2>2. r <= p
    <3>1. CASE r < s.pos
      BY <3>1, <2>1, <1>4, <1>5, SMT
    <3>2. CASE r >= s.pos
      <4>1. ~(r + Magic > s.pos + s.search)
        BY <3>2, <1>1, <1>2 DEF Passed
      <4>2. r \in Hits(w)
        BY <4>1, <3>2, <2>1, <1>5, Constants, SMT DEF Hits
      <4> QED BY <4>2, <1>3
    <3> QED BY <3>1, <3>2, <2>1, <1>5, SMT
  <2>3. r < p => r + Magic <= p
    BY <2>1, <1>4 DEF ScanInv, FileSound
  <2> QED BY <2>1, <2>2, <2>3, <1>4, SMT
<1>9. CASE p + Footer <= file.size
  <2> DEFINE t == [s EXCEPT !.search = p - s.pos, !.tried = Append(s.tried, p),
                            !.state = Outcome(w, p)]
  <2>1. scan' = [scan EXCEPT ![w] = t]
    BY <1>9 DEF TryFooter, p
  <2>2. Outcome(w, p) \in {"search", "found", "rejected"}
    BY DEF Outcome
  <2>3. Append(s.tried, p) \in Seq(Nat) /\ ToSet(Append(s.tried, p)) = T \cup {p}
    BY <1>4, <1>5, AppendedTo
  <2>4. t \in Scan /\ t.pos = s.pos /\ t.length = s.length /\ t.search = p - s.pos
        /\ t.tried = Append(s.tried, p) /\ t.state \in {"search", "found", "rejected"}
    BY <1>1, <1>6, <2>2, <2>3 DEF Scan, States
  <2> HIDE DEF t
  <2>5. Bounded(t, file.size)
    BY <1>1, <1>6, <2>4 DEF Bounded
  <2>6. Ordered(t, Candidates)
    <3>1. p \in Candidates
      BY <1>4, <1>9 DEF Candidates
    <3>2. \A i, j \in DOMAIN t.tried : i < j => t.tried[i] > t.tried[j]
      <4>1. \A q \in T : p < q
        BY <1>4, <1>7
      <4>2. \A i, j \in DOMAIN s.tried : i < j => s.tried[i] > s.tried[j]
        BY <1>1 DEF Ordered
      <4> QED BY <4>1, <4>2, <2>4, <1>4, <1>5, AppendedLast
    <3>3. ASSUME NEW r \in Candidates \ (T \cup {p}), NEW q \in T \cup {p} PROVE r < q
      <4>1. r \in Nat /\ r < p
        BY <1>4, <1>8, <3>3, Constants, SMT
      <4> QED BY <4>1, <1>4, <1>7, SMT
    <3>4. T \cup {p} \subseteq Candidates
      BY <1>1, <3>1 DEF Ordered
    <3> QED BY <2>3, <2>4, <3>2, <3>3, <3>4 DEF Ordered
  <2>7. Passed(t, Candidates)
    <3>1. ASSUME NEW r \in Candidates, r + Magic > p PROVE r \in T \cup {p}
      BY <3>1, <1>4, <1>8, Constants, SMT
    <3>2. ASSUME NEW q \in T \cup {p} PROVE q >= s.pos /\ q + Magic > p
      BY <1>4, <1>5, <1>7, Constants, SMT
    <3> QED BY <1>6, <2>3, <2>4, <3>1, <3>2 DEF Passed
  <2> QED BY <1>2, <2>1, <2>4, <2>5, <2>6, <2>7, Replaced
<1>10. CASE ~(p + Footer <= file.size)
  <2> DEFINE t == [s EXCEPT !.search = p - s.pos]
  <2>1. scan' = [scan EXCEPT ![w] = t]
    BY <1>10 DEF TryFooter, p
  <2>2. t \in Scan /\ t.pos = s.pos /\ t.length = s.length /\ t.search = p - s.pos
        /\ t.tried = s.tried /\ t.state = "search"
    BY <1>1, <1>2, <1>6 DEF Scan
  <2> HIDE DEF t
  <2>3. Bounded(t, file.size)
    BY <1>1, <1>6, <2>2 DEF Bounded
  <2>4. Ordered(t, Candidates)
    BY <1>1, <2>2 DEF Ordered
  <2>5. Passed(t, Candidates)
    <3>1. ASSUME NEW r \in Candidates, r + Magic > p PROVE r \in T
      <4>1. r # p
        BY <1>10 DEF Candidates
      <4>2. r \notin T => r \in Nat /\ r + Magic <= p
        BY <4>1, <1>8
      <4> QED BY <3>1, <4>2, <1>4, Constants, SMT
    <3>2. ASSUME NEW q \in T PROVE q >= s.pos /\ q + Magic > p
      BY <1>4, <1>7, Constants, SMT
    <3> QED BY <1>6, <2>2, <3>1, <3>2 DEF Passed
  <2> QED BY <1>2, <2>1, <2>2, <2>3, <2>4, <2>5, Replaced
<1> QED BY <1>9, <1>10

-----------------------------------------------------------------------------
LEMMA StepKeeps ==
    ASSUME ScanInv, [Next]_vars PROVE ScanInv'
<1>1. ASSUME NEW w \in Scanners,
             ReadBlock(w) \/ TryFooter(w) \/ BlockDone(w) \/ UseHead(w)
      PROVE  ScanInv'
  BY <1>1, ReadBlockKeeps, TryFooterKeeps, BlockDoneKeeps, UseHeadKeeps
<1>2. CASE UNCHANGED vars
  BY <1>2 DEF vars, ScanInv, FileSound, Candidates
<1> QED BY <1>1, <1>2 DEF Next

THEOREM ScanInvariance == Spec => []ScanInv
<1>1. Init => ScanInv
  BY InitFound
<1>2. ScanInv /\ [Next]_vars => ScanInv'
  BY StepKeeps
<1> QED BY <1>1, <1>2, PTL DEF Spec

\* A scan stays in the file and holds no more than a block and what it carried.
THEOREM ScanStaysInFile == Spec => []TypeOK
<1>1. ScanInv => TypeOK
  <2>1. SUFFICES ASSUME ScanInv, NEW w \in Scanners
                 PROVE  /\ scan[w].pos \in 0..file.size
                        /\ scan[w].length < Block + Magic
                        /\ scan[w].search <= scan[w].length
                        /\ scan[w].state \in States
    BY DEF TypeOK, States
  <2>2. scan[w] \in Scan /\ Bounded(scan[w], file.size) /\ file.size \in Nat
    BY <2>1 DEF ScanInv, FileSound
  <2>3. scan[w].pos \in Nat /\ scan[w].length \in Nat /\ scan[w].state \in States
        /\ scan[w].pos + scan[w].length <= file.size
        /\ scan[w].length < Block + Magic /\ scan[w].search <= scan[w].length
    BY <2>2 DEF Scan, Bounded
  <2>4. scan[w].pos \in 0..file.size
    BY <2>2, <2>3, SMT
  <2> QED BY <2>3, <2>4
<1> QED BY <1>1, ScanInvariance, PTL

\* Every complete footer is tried, the newest first and none twice, for files of any
\* length and blocks that end anywhere in a magic or a footer.
THEOREM NewestIsFirst == Spec => []NewestFirst
<1>1. ScanInv => NewestFirst
  <2>1. SUFFICES ASSUME ScanInv, NEW w \in Scanners
                 PROVE  LET tried == scan[w].tried
                        IN  /\ \A i, j \in DOMAIN tried : i < j => tried[i] > tried[j]
                            /\ ToSet(tried) \subseteq Candidates
                            /\ \A p \in Candidates \ ToSet(tried) :
                                   /\ scan[w].state # "head"
                                   /\ \A q \in ToSet(tried) : p < q
    BY DEF NewestFirst
  <2>2. Ordered(scan[w], Candidates) /\ Passed(scan[w], Candidates)
    BY <2>1 DEF ScanInv
  <2> QED BY <2>2 DEF Ordered, Passed
<1> QED BY <1>1, ScanInvariance, PTL

-----------------------------------------------------------------------------
(* Chains.                                                                 *)

\* Footers lie behind the head of the file and name offsets in it.
FeetSound ==
    /\ file.size \in Nat
    /\ DOMAIN file.foot \subseteq 1..file.size
    /\ \A p \in DOMAIN file.foot : file.foot[p].prev \in 0..file.size

ReaderAts == [at : 0..file.size, seen : SUBSET DOMAIN file.foot]
PreflightAts == [at : 0..file.size, depth : 0..(MaxDepth + 2)]

\* One step down a chain, h giving the rest.
ReaderBody(h, c) ==
    IF c.at = 0 \/ c.at \in c.seen \/ ~Decodes(c.at) THEN Nothing
    ELSE IF file.foot[c.at].kind = "checkpoint" THEN << c.at >>
    ELSE IF file.foot[c.at].kind # "delta" THEN Nothing
    ELSE LET rest == h[[at |-> file.foot[c.at].prev, seen |-> c.seen \cup {c.at}]]
         IN  IF rest = Nothing THEN Nothing ELSE << c.at >> \o rest
PreflightBody(h, c) ==
    IF c.at = 0 THEN Nothing
    ELSE IF TooDeep(c.depth) THEN Refused
    ELSE IF ~Sensible(c.at) THEN Nothing
    ELSE IF file.foot[c.at].big THEN Refused
    ELSE IF ~file.foot[c.at].whole THEN Nothing
    ELSE IF file.foot[c.at].kind = "checkpoint" THEN << c.at >>
    ELSE LET rest == h[[at |-> file.foot[c.at].prev, depth |-> c.depth + 1]]
         IN  IF rest \in {Nothing, Refused} THEN rest ELSE << c.at >> \o rest

\* One footer before a chain.
LEMMA Prepended ==
    ASSUME NEW S, NEW x \in S, NEW s \in Seq(S)
    PROVE  /\ << x >> \in Seq(S) /\ << x >> \o s \in Seq(S)
           /\ Len(<< x >> \o s) = Len(s) + 1 /\ (<< x >> \o s)[1] = x
           /\ \A i \in 1..Len(s) : (<< x >> \o s)[i + 1] = s[i]
<1>1. << x >> \in Seq(S) /\ Len(<< x >>) = 1 /\ << x >>[1] = x
  OBVIOUS
<1>2. Len(s) \in Nat
  OBVIOUS
<1> DEFINE t == << x >>
<1> HIDE DEF t
<1>3. t \in Seq(S) /\ Len(t) = 1 /\ t[1] = x
  BY <1>1 DEF t
<1>4. /\ t \o s \in Seq(S) /\ Len(t \o s) = Len(s) + 1 /\ (t \o s)[1] = x
      /\ \A i \in 1..Len(s) : (t \o s)[i + 1] = s[i]
  BY <1>2, <1>3, ConcatProperties
<1> QED BY <1>3, <1>4 DEF t

LEMMA Limits == MaxDepth \in Nat
BY ScanAssumption

\* Where there is such a function, the definitions of the chains unfold.
LEMMA ReaderChosen ==
    ASSUME NEW h, h = [c \in ReaderAts |-> ReaderBody(h, c)]
    PROVE  readerChain = [c \in ReaderAts |-> ReaderBody(readerChain, c)]
BY Zenon DEF readerChain, ReaderAts, ReaderBody

LEMMA PreflightChosen ==
    ASSUME NEW h, h = [c \in PreflightAts |-> PreflightBody(h, c)]
    PROVE  preflightChain = [c \in PreflightAts |-> PreflightBody(preflightChain, c)]
BY Zenon DEF preflightChain, PreflightAts, PreflightBody

\* The preflight's chain is there up to every footer, from the head of the file on.
LEMMA PreflightUnfolds ==
    ASSUME FeetSound, NEW c \in PreflightAts
    PROVE  preflightChain[c] = PreflightBody(preflightChain, c)
<1> DEFINE Upto(n) == {a \in PreflightAts : a.at <= n}
           G == {n \in 0..file.size : \E h : h = [a \in Upto(n) |-> PreflightBody(h, a)]}
<1>1. ASSUME NEW n \in 0..file.size, \A j \in 0..file.size : j < n => j \in G
      PROVE  n \in G
  <2>1. PICK g : \A a \in PreflightAts : a.at < n => g[a] = PreflightBody(g, a)
    <3>1. CASE n = 0
      <4>1. \A a \in PreflightAts : ~(a.at < n)
        BY <3>1 DEF PreflightAts, FeetSound
      <4> QED BY <4>1
    <3>2. CASE n # 0
      <4>1. n - 1 \in 0..file.size /\ n - 1 < n
        BY <3>2 DEF FeetSound
      <4>2. n - 1 \in G
        BY <1>1, <4>1
      <4>3. PICK g : g = [a \in Upto(n - 1) |-> PreflightBody(g, a)]
        BY <4>2
      <4>4. ASSUME NEW a \in PreflightAts, a.at < n PROVE a \in Upto(n - 1)
        BY <4>4, <4>1 DEF PreflightAts, FeetSound
      <4>5. ASSUME NEW a \in PreflightAts, a.at < n PROVE g[a] = PreflightBody(g, a)
        <5>1. a \in Upto(n - 1)
          BY <4>4, <4>5
        <5> HIDE DEF Upto
        <5> QED BY <4>3, <5>1
      <4> QED BY <4>5
    <3> QED BY <3>1, <3>2
  <2> DEFINE h == [a \in Upto(n) |-> PreflightBody(g, a)]
  <2>2. ASSUME NEW a \in Upto(n) PROVE PreflightBody(g, a) = PreflightBody(h, a)
    <3>0. a \in PreflightAts /\ a.at \in 0..file.size /\ a.depth \in 0..(MaxDepth + 2) /\ a.at <= n
      BY DEF PreflightAts
    <3>1. CASE a.at # 0 /\ ~TooDeep(a.depth) /\ Sensible(a.at)
      <4> DEFINE r == [at |-> file.foot[a.at].prev, depth |-> a.depth + 1]
      <4>1. r.at \in 0..file.size /\ r.at < a.at
        BY <3>0, <3>1 DEF Sensible, InFile, PrevBelow, FeetSound
      <4>2. a.depth + 1 \in 0..(MaxDepth + 2)
        BY <3>0, <3>1, Limits DEF TooDeep
      <4>3. r \in PreflightAts /\ r.at < n /\ r.at <= n
        BY <3>0, <4>1, <4>2 DEF PreflightAts, FeetSound
      <4> HIDE DEF r
      <4>4. h[r] = PreflightBody(g, r) /\ g[r] = PreflightBody(g, r)
        BY <2>1, <4>3
      <4>5. h[r] = g[r]
        BY <4>4
      <4> HIDE DEF h
      <4> QED BY <4>5 DEF PreflightBody, r
    <3>2. CASE ~(a.at # 0 /\ ~TooDeep(a.depth) /\ Sensible(a.at))
      <4> HIDE DEF h
      <4> QED BY <3>2 DEF PreflightBody
    <3> QED BY <3>1, <3>2
  <2>3. h = [a \in Upto(n) |-> PreflightBody(h, a)]
    <3> HIDE DEF Upto
    <3>1. \A a \in Upto(n) : PreflightBody(g, a) = PreflightBody(h, a)
      BY <2>2
    <3> QED BY <3>1, Zenon
  <2> HIDE DEF h
  <2> QED BY <2>3
<1>2. file.size \in G
  <2> HIDE DEF G
  <2>1. \A n \in 0..file.size : n \in G
    BY <1>1, Climb DEF FeetSound
  <2> QED BY <2>1 DEF FeetSound
<1>3. PICK h : h = [a \in Upto(file.size) |-> PreflightBody(h, a)]
  BY <1>2
<1>4. Upto(file.size) = PreflightAts
  <2>1. ASSUME NEW a \in PreflightAts PROVE a.at <= file.size
    BY DEF PreflightAts, FeetSound
  <2> HIDE DEF PreflightAts
  <2> QED BY <2>1
<1>5. h = [a \in PreflightAts |-> PreflightBody(h, a)]
  BY <1>3, <1>4
<1>6. preflightChain = [a \in PreflightAts |-> PreflightBody(preflightChain, a)]
  BY <1>5, PreflightChosen
<1> QED BY <1>6

\* The reader's is there while there are footers it has not seen, wherever they point.
Unseen(c) == DOMAIN file.foot \ c.seen

LEMMA FewerUnseen ==
    ASSUME FeetSound, NEW c \in ReaderAts
    PROVE  /\ Cardinality(Unseen(c)) \in 0..Cardinality(DOMAIN file.foot)
           /\ Cardinality(DOMAIN file.foot) \in Nat
           /\ c.at \in DOMAIN file.foot /\ c.at \notin c.seen =>
                  LET r == [at |-> file.foot[c.at].prev, seen |-> c.seen \cup {c.at}]
                  IN  r \in ReaderAts /\ Cardinality(Unseen(r)) < Cardinality(Unseen(c))
<1>1. IsFiniteSet(DOMAIN file.foot)
  <2>1. IsFiniteSet(1..file.size)
    BY FS_Interval DEF FeetSound
  <2> QED BY <2>1, FS_Subset DEF FeetSound
<1>2. IsFiniteSet(Unseen(c)) /\ Cardinality(Unseen(c)) <= Cardinality(DOMAIN file.foot)
      /\ Cardinality(Unseen(c)) \in Nat /\ Cardinality(DOMAIN file.foot) \in Nat
  <2>1. Unseen(c) \subseteq DOMAIN file.foot
    BY DEF Unseen
  <2> QED BY <1>1, <2>1, FS_Subset, FS_CardinalityType
<1>3. ASSUME c.at \in DOMAIN file.foot, c.at \notin c.seen
      PROVE  LET r == [at |-> file.foot[c.at].prev, seen |-> c.seen \cup {c.at}]
             IN  r \in ReaderAts /\ Cardinality(Unseen(r)) < Cardinality(Unseen(c))
  <2> DEFINE r == [at |-> file.foot[c.at].prev, seen |-> c.seen \cup {c.at}]
  <2>1. r \in ReaderAts
    BY <1>3 DEF ReaderAts, FeetSound
  <2>2. Unseen(r) = Unseen(c) \ {c.at} /\ c.at \in Unseen(c)
    BY <1>3 DEF Unseen
  <2>3. Cardinality(Unseen(r)) = Cardinality(Unseen(c)) - 1
    BY <1>2, <2>2, FS_RemoveElement
  <2>4. Cardinality(Unseen(r)) < Cardinality(Unseen(c))
    BY <1>2, <2>3
  <2> QED BY <2>1, <2>4
<1> QED BY <1>2, <1>3

LEMMA ReaderUnfolds ==
    ASSUME FeetSound, NEW c \in ReaderAts
    PROVE  readerChain[c] = ReaderBody(readerChain, c)
<1> DEFINE N == Cardinality(DOMAIN file.foot)
           Upto(n) == {a \in ReaderAts : Cardinality(Unseen(a)) <= n}
           G == {n \in 0..N : \E h : h = [a \in Upto(n) |-> ReaderBody(h, a)]}
<1>0. N \in Nat /\ \A a \in ReaderAts : Cardinality(Unseen(a)) \in 0..N
  BY FewerUnseen
<1> HIDE DEF N
<1>1. ASSUME NEW n \in 0..N, \A j \in 0..N : j < n => j \in G
      PROVE  n \in G
  <2>1. PICK g : \A a \in ReaderAts : Cardinality(Unseen(a)) < n => g[a] = ReaderBody(g, a)
    <3>1. CASE n = 0
      <4>1. \A a \in ReaderAts : ~(Cardinality(Unseen(a)) < n)
        BY <3>1, <1>0
      <4> QED BY <4>1
    <3>2. CASE n # 0
      <4>1. n - 1 \in 0..N /\ n - 1 < n
        BY <3>2, <1>0
      <4>2. n - 1 \in G
        BY <1>1, <4>1
      <4>3. PICK g : g = [a \in Upto(n - 1) |-> ReaderBody(g, a)]
        BY <4>2
      <4>4. ASSUME NEW a \in ReaderAts, Cardinality(Unseen(a)) < n PROVE a \in Upto(n - 1)
        BY <4>4, <4>1, <1>0
      <4>5. ASSUME NEW a \in ReaderAts, Cardinality(Unseen(a)) < n
            PROVE  g[a] = ReaderBody(g, a)
        <5>1. a \in Upto(n - 1)
          BY <4>4, <4>5
        <5> HIDE DEF Upto
        <5> QED BY <4>3, <5>1
      <4> QED BY <4>5
    <3> QED BY <3>1, <3>2
  <2> DEFINE h == [a \in Upto(n) |-> ReaderBody(g, a)]
  <2>2. ASSUME NEW a \in Upto(n) PROVE ReaderBody(g, a) = ReaderBody(h, a)
    <3>0. a \in ReaderAts /\ Cardinality(Unseen(a)) <= n /\ Cardinality(Unseen(a)) \in Nat
      BY <1>0
    <3>1. CASE a.at \notin a.seen /\ Decodes(a.at)
      <4> DEFINE r == [at |-> file.foot[a.at].prev, seen |-> a.seen \cup {a.at}]
      <4>1. a.at \in DOMAIN file.foot
        BY <3>1 DEF Decodes, InFile
      <4>2. r \in ReaderAts /\ Cardinality(Unseen(r)) < Cardinality(Unseen(a))
        BY <3>0, <3>1, <4>1, FewerUnseen
      <4>3. Cardinality(Unseen(r)) < n /\ r \in Upto(n)
        BY <3>0, <4>2, <1>0
      <4> HIDE DEF r
      <4>4. h[r] = ReaderBody(g, r) /\ g[r] = ReaderBody(g, r)
        BY <2>1, <4>2, <4>3
      <4>5. h[r] = g[r]
        BY <4>4
      <4> HIDE DEF h
      <4> QED BY <4>5 DEF ReaderBody, r
    <3>2. CASE ~(a.at \notin a.seen /\ Decodes(a.at))
      <4> HIDE DEF h
      <4> QED BY <3>2 DEF ReaderBody
    <3> QED BY <3>1, <3>2
  <2>3. h = [a \in Upto(n) |-> ReaderBody(h, a)]
    <3> HIDE DEF Upto
    <3>1. \A a \in Upto(n) : ReaderBody(g, a) = ReaderBody(h, a)
      BY <2>2
    <3> QED BY <3>1, Zenon
  <2> HIDE DEF h
  <2> QED BY <2>3
<1>2. N \in G
  <2> HIDE DEF G
  <2>1. \A n \in 0..N : n \in G
    BY <1>0, <1>1, Climb
  <2> QED BY <2>1, <1>0
<1>3. PICK h : h = [a \in Upto(N) |-> ReaderBody(h, a)]
  BY <1>2
<1>4. Upto(N) = ReaderAts
  <2>1. ASSUME NEW a \in ReaderAts PROVE Cardinality(Unseen(a)) <= N
    BY <1>0
  <2> HIDE DEF ReaderAts
  <2> QED BY <2>1
<1>5. h = [a \in ReaderAts |-> ReaderBody(h, a)]
  BY <1>3, <1>4
<1>6. readerChain = [a \in ReaderAts |-> ReaderBody(readerChain, a)]
  BY <1>5, ReaderChosen
<1> QED BY <1>6

\* A chain is a sequence of footers of the file.
LEMMA ReaderTyped ==
    ASSUME FeetSound, NEW c \in ReaderAts
    PROVE  readerChain[c] \in Seq(DOMAIN file.foot)
<1> DEFINE N == Cardinality(DOMAIN file.foot)
           G == {n \in 0..N : \A a \in ReaderAts :
                     Cardinality(Unseen(a)) = n => readerChain[a] \in Seq(DOMAIN file.foot)}
<1>0. N \in Nat /\ \A a \in ReaderAts : Cardinality(Unseen(a)) \in 0..N
  BY FewerUnseen
<1> HIDE DEF N
<1>1. ASSUME NEW n \in 0..N, \A j \in 0..N : j < n => j \in G
      PROVE  n \in G
  <2> SUFFICES ASSUME NEW a \in ReaderAts, Cardinality(Unseen(a)) = n
               PROVE  readerChain[a] \in Seq(DOMAIN file.foot)
    OBVIOUS
  <2>1. readerChain[a] = ReaderBody(readerChain, a)
    BY ReaderUnfolds
  <2>2. CASE a.at \notin a.seen /\ Decodes(a.at)
    <3> DEFINE r == [at |-> file.foot[a.at].prev, seen |-> a.seen \cup {a.at}]
    <3>1. a.at \in DOMAIN file.foot
      BY <2>2 DEF Decodes, InFile
    <3>2. r \in ReaderAts /\ Cardinality(Unseen(r)) < Cardinality(Unseen(a))
      BY <2>2, <3>1, FewerUnseen
    <3>3. readerChain[r] \in Seq(DOMAIN file.foot)
      BY <1>0, <1>1, <3>2
    <3>4. << a.at >> \in Seq(DOMAIN file.foot)
      BY <3>1, <3>3, Prepended
    <3>5. << a.at >> \o readerChain[r] \in Seq(DOMAIN file.foot)
      BY <3>1, <3>3, Prepended
    <3>6. << >> \in Seq(DOMAIN file.foot)
      OBVIOUS
    <3>7. readerChain[a] \in {<< >>, << a.at >>, << a.at >> \o readerChain[r]}
      BY <2>1 DEF ReaderBody, Nothing
    <3> HIDE DEF r
    <3> QED BY <3>4, <3>5, <3>6, <3>7
  <2>3. CASE ~(a.at \notin a.seen /\ Decodes(a.at))
    <3>1. readerChain[a] = Nothing
      BY <2>1, <2>3 DEF ReaderBody
    <3> QED BY <3>1 DEF Nothing
  <2> QED BY <2>2, <2>3
<1>2. \A n \in 0..N : n \in G
  <2> HIDE DEF G
  <2> QED BY <1>0, <1>1, Climb
<1> QED BY <1>0, <1>2

\* What the preflight accepts: from p down to a checkpoint, every footer with its payload,
\* within the limits and below the one before it.
Sound(v, p, depth) ==
    /\ v \in Seq(DOMAIN file.foot) /\ v # << >>
    /\ v[1] = p /\ Len(v) + depth <= MaxDepth + 1
    /\ \A i \in 1..Len(v) :
           /\ v[i] # 0 /\ Sensible(v[i])
           /\ file.foot[v[i]].whole /\ ~file.foot[v[i]].big
           /\ i < Len(v) => v[i + 1] < v[i]
    /\ file.foot[v[Len(v)]].kind = "checkpoint"

\* A delta goes on from a footer below it.
LEMMA Below ==
    ASSUME FeetSound, NEW c \in PreflightAts, c.at # 0, Sensible(c.at), ~TooDeep(c.depth)
    PROVE  LET r == [at |-> file.foot[c.at].prev, depth |-> c.depth + 1]
           IN  /\ r \in PreflightAts /\ r.at \in 0..file.size /\ c.at \in 0..file.size
               /\ r.at < c.at /\ c.depth \in 0..MaxDepth
               /\ c.at \in DOMAIN file.foot
<1>1. c.at \in 0..file.size /\ c.depth \in 0..(MaxDepth + 2) /\ c.at \in DOMAIN file.foot
  BY DEF PreflightAts, Sensible, InFile
<1>2. file.foot[c.at].prev \in 0..file.size /\ file.foot[c.at].prev < c.at
  BY <1>1 DEF Sensible, InFile, PrevBelow, FeetSound
<1>3. c.depth \in 0..MaxDepth /\ c.depth + 1 \in 0..(MaxDepth + 2)
  BY <1>1, Limits DEF TooDeep
<1> QED BY <1>1, <1>2, <1>3 DEF PreflightAts

LEMMA PreflightSound ==
    ASSUME FeetSound, NEW c \in PreflightAts
    PROVE  preflightChain[c] \in {Nothing, Refused} \/ Sound(preflightChain[c], c.at, c.depth)
<1> DEFINE G == {n \in 0..file.size : \A a \in PreflightAts : a.at = n =>
                    \/ preflightChain[a] \in {Nothing, Refused}
                    \/ Sound(preflightChain[a], a.at, a.depth)}
<1>1. ASSUME NEW n \in 0..file.size, \A j \in 0..file.size : j < n => j \in G
      PROVE  n \in G
  <2> SUFFICES ASSUME NEW a \in PreflightAts, a.at = n,
                      preflightChain[a] \notin {Nothing, Refused}
               PROVE  Sound(preflightChain[a], a.at, a.depth)
    OBVIOUS
  <2> DEFINE r == [at |-> file.foot[a.at].prev, depth |-> a.depth + 1]
             rest == preflightChain[r]
  <2>1. preflightChain[a] = PreflightBody(preflightChain, a)
    BY PreflightUnfolds
  <2>2. /\ a.at # 0 /\ ~TooDeep(a.depth) /\ Sensible(a.at)
        /\ ~file.foot[a.at].big /\ file.foot[a.at].whole
    BY <2>1 DEF PreflightBody
  <2>3. /\ r \in PreflightAts /\ r.at \in 0..file.size /\ a.at \in 0..file.size
        /\ r.at < a.at /\ a.depth \in 0..MaxDepth
        /\ a.at \in DOMAIN file.foot
    BY <2>2, Below
  <2>4. CASE file.foot[a.at].kind = "checkpoint"
    <3>1. preflightChain[a] = << a.at >>
      BY <2>1, <2>2, <2>4 DEF PreflightBody
    <3>2. << a.at >> \in Seq(DOMAIN file.foot) /\ << a.at >> # << >>
          /\ << a.at >>[1] = a.at /\ Len(<< a.at >>) = 1
      <4> DEFINE x == a.at
      <4>1. x \in DOMAIN file.foot
        BY <2>3
      <4> HIDE DEF x
      <4>2. << >> \in Seq(DOMAIN file.foot) /\ Len(<< x >>) = 1 /\ << x >>[1] = x
            /\ << x >> # << >>
        OBVIOUS
      <4>3. << x >> \in Seq(DOMAIN file.foot)
        BY <4>1, <4>2, Prepended
      <4> QED BY <4>2, <4>3 DEF x
    <3>3. 1 + a.depth <= MaxDepth + 1
      BY <2>3, Limits
    <3> HIDE DEF r
    <3> QED BY <2>2, <2>4, <3>1, <3>2, <3>3 DEF Sound
  <2>5. CASE file.foot[a.at].kind # "checkpoint"
    <3>1. rest \notin {Nothing, Refused} /\ preflightChain[a] = << a.at >> \o rest
      BY <2>1, <2>2, <2>5 DEF PreflightBody
    <3>2. Sound(rest, r.at, r.depth)
      BY <1>1, <2>3, <3>1
    <3> HIDE DEF rest
    <3>3. rest \in Seq(DOMAIN file.foot) /\ rest # << >> /\ rest[1] = r.at
          /\ Len(rest) + (a.depth + 1) <= MaxDepth + 1
          /\ file.foot[rest[Len(rest)]].kind = "checkpoint"
      BY <3>2 DEF Sound
    <3>4. Len(rest) \in Nat /\ Len(rest) >= 1
      BY <3>3
    <3> DEFINE v == << a.at >> \o rest
    <3>5. /\ v \in Seq(DOMAIN file.foot) /\ Len(v) = Len(rest) + 1 /\ v[1] = a.at
          /\ \A i \in 1..Len(rest) : v[i + 1] = rest[i]
      <4> DEFINE x == a.at
      <4>1. x \in DOMAIN file.foot
        BY <2>3
      <4>0. rest \in Seq(DOMAIN file.foot)
        BY <3>3
      <4> HIDE DEF x
      <4>2. << x >> \o rest \in Seq(DOMAIN file.foot)
        BY <4>0, <4>1, Prepended
      <4>3. Len(<< x >> \o rest) = Len(rest) + 1 /\ (<< x >> \o rest)[1] = x
        BY <4>0, <4>1, Prepended
      <4>4. \A i \in 1..Len(rest) : (<< x >> \o rest)[i + 1] = rest[i]
        BY <4>0, <4>1, Prepended
      <4> QED BY <4>2, <4>3, <4>4 DEF x
    <3> HIDE DEF v
    <3>6. v # << >> /\ Len(v) + a.depth <= MaxDepth + 1
      BY <2>3, <3>3, <3>4, <3>5, Limits
    <3>7. v[Len(v)] = rest[Len(rest)]
      BY <3>4, <3>5
    <3>8. v[2] = rest[1]
      <4>1. 1 \in 1..Len(rest)
        BY <3>4
      <4> QED BY <3>5, <4>1
    <3>9. ASSUME NEW i \in 1..Len(v)
          PROVE  /\ v[i] # 0 /\ Sensible(v[i])
                 /\ file.foot[v[i]].whole /\ ~file.foot[v[i]].big
                 /\ i < Len(v) => v[i + 1] < v[i]
      <4>1. CASE i = 1
        BY <2>2, <2>3, <3>3, <3>5, <3>8, <4>1
      <4>2. CASE i # 1
        <5>1. PICK k \in 1..Len(rest) : i = k + 1
          <6>1. i - 1 \in 1..Len(rest) /\ i = (i - 1) + 1
            BY <3>4, <3>5, <4>2
          <6> QED BY <6>1
        <5>2. /\ rest[k] # 0 /\ Sensible(rest[k])
              /\ file.foot[rest[k]].whole /\ ~file.foot[rest[k]].big
              /\ k < Len(rest) => rest[k + 1] < rest[k]
          BY <3>2 DEF Sound
        <5>3. v[i] = rest[k] /\ (i < Len(v) => k < Len(rest))
          BY <3>4, <3>5, <5>1
        <5>4. ASSUME i < Len(v) PROVE v[i + 1] = rest[k + 1]
          <6>1. k + 1 \in 1..Len(rest) /\ i + 1 = (k + 1) + 1
            BY <3>4, <3>5, <5>1, <5>4
          <6> QED BY <3>5, <6>1
        <5> QED BY <5>2, <5>3, <5>4
      <4> QED BY <4>1, <4>2
    <3>10. preflightChain[a] = v
      BY <3>1 DEF v
    <3> QED BY <3>3, <3>5, <3>6, <3>7, <3>9, <3>10 DEF Sound
  <2> QED BY <2>4, <2>5
<1>2. \A n \in 0..file.size : n \in G
  <2> HIDE DEF G
  <2> QED BY <1>1, Climb DEF FeetSound
<1>3. c.at \in 0..file.size
  BY DEF PreflightAts
<1> QED BY <1>2, <1>3

\* The reader takes every chain the preflight accepts: it has seen only newer footers.
LEMMA ReaderFollows ==
    ASSUME FeetSound, NEW c \in PreflightAts, preflightChain[c] \notin {Nothing, Refused},
           NEW seen \in SUBSET DOMAIN file.foot, \A q \in seen : q > c.at
    PROVE  readerChain[[at |-> c.at, seen |-> seen]] = preflightChain[c]
<1> DEFINE G == {n \in 0..file.size : \A a \in PreflightAts, S \in SUBSET DOMAIN file.foot :
                    a.at = n /\ (\A q \in S : q > a.at)
                    /\ preflightChain[a] \notin {Nothing, Refused}
                    => readerChain[[at |-> a.at, seen |-> S]] = preflightChain[a]}
<1>1. ASSUME NEW n \in 0..file.size, \A j \in 0..file.size : j < n => j \in G
      PROVE  n \in G
  <2> SUFFICES ASSUME NEW a \in PreflightAts, NEW S \in SUBSET DOMAIN file.foot,
                      a.at = n, \A q \in S : q > a.at,
                      preflightChain[a] \notin {Nothing, Refused}
               PROVE  readerChain[[at |-> a.at, seen |-> S]] = preflightChain[a]
    OBVIOUS
  <2> DEFINE r == [at |-> file.foot[a.at].prev, depth |-> a.depth + 1]
             s == [at |-> a.at, seen |-> S]
             t == [at |-> file.foot[a.at].prev, seen |-> S \cup {a.at}]
  <2>1. preflightChain[a] = PreflightBody(preflightChain, a)
    BY PreflightUnfolds
  <2>2. /\ a.at # 0 /\ ~TooDeep(a.depth) /\ Sensible(a.at)
        /\ ~file.foot[a.at].big /\ file.foot[a.at].whole
    BY <2>1 DEF PreflightBody
  <2>3. /\ r \in PreflightAts /\ r.at \in 0..file.size /\ a.at \in 0..file.size
        /\ r.at < a.at /\ a.at \in DOMAIN file.foot
    BY <2>2, Below
  <2>4. s \in ReaderAts /\ readerChain[s] = ReaderBody(readerChain, s)
    <3>1. s \in ReaderAts
      BY <2>3 DEF ReaderAts
    <3> QED BY <3>1, ReaderUnfolds
  <2>5. a.at \notin S /\ Decodes(a.at)
    BY <2>2, <2>3 DEF Decodes, Sensible
  <2>6. CASE file.foot[a.at].kind = "checkpoint"
    BY <2>1, <2>2, <2>4, <2>5, <2>6 DEF PreflightBody, ReaderBody
  <2>7. CASE file.foot[a.at].kind # "checkpoint"
    <3>1. preflightChain[r] \notin {Nothing, Refused}
          /\ preflightChain[a] = << a.at >> \o preflightChain[r]
      BY <2>1, <2>2, <2>7 DEF PreflightBody
    <3>2. \A q \in S \cup {a.at} : q > r.at
      <4>1. \A q \in S : q \in 1..file.size
        BY DEF FeetSound
      <4>2. r.at \in Int /\ a.at \in Int /\ r.at < a.at
        BY <2>3
      <4> HIDE DEF r
      <4> QED BY <4>1, <4>2, FeetSound DEF FeetSound
    <3>3. S \cup {a.at} \in SUBSET DOMAIN file.foot
      BY <2>3
    <3>4. readerChain[t] = preflightChain[r]
      <4> DEFINE V == S \cup {a.at}
      <4>1. t = [at |-> r.at, seen |-> V]
        OBVIOUS
      <4>2. r.at \in G
        BY <1>1, <2>3
      <4> HIDE DEF r, V, t
      <4>3. V \in SUBSET DOMAIN file.foot /\ (\A q \in V : q > r.at)
        BY <3>2, <3>3 DEF V
      <4> QED BY <2>3, <3>1, <4>1, <4>2, <4>3
    <3>5. file.foot[a.at].kind = "delta"
      BY <2>2, <2>7 DEF Sensible
    <3>6. readerChain[s] = << a.at >> \o readerChain[t]
      <4>1. readerChain[t] # Nothing
        BY <3>1, <3>4
      <4>2. s.at = a.at /\ s.seen = S
        OBVIOUS
      <4> HIDE DEF s
      <4> QED BY <2>2, <2>4, <2>5, <2>7, <3>5, <4>1, <4>2 DEF ReaderBody
    <3> QED BY <3>1, <3>4, <3>6
  <2> QED BY <2>6, <2>7
<1>2. \A n \in 0..file.size : n \in G
  <2> HIDE DEF G
  <2> QED BY <1>1, Climb DEF FeetSound
<1>3. c.at \in 0..file.size
  BY DEF PreflightAts
<1> QED BY <1>2, <1>3

\* Of a chain the reader takes whose footers are all sensible, the preflight accepts the
\* same, or refuses it for a limit.
LEMMA PreflightFollows ==
    ASSUME FeetSound, NEW c \in ReaderAts, readerChain[c] # Nothing,
           \A i \in 1..Len(readerChain[c]) : Sensible(readerChain[c][i]),
           NEW depth \in 0..(MaxDepth + 1)
    PROVE  preflightChain[[at |-> c.at, depth |-> depth]] \in {readerChain[c], Refused}
<1> DEFINE Holds(a, d) == preflightChain[[at |-> a.at, depth |-> d]] \in {readerChain[a], Refused}
           Clean(a) == /\ readerChain[a] # Nothing
                       /\ \A i \in 1..Len(readerChain[a]) : Sensible(readerChain[a][i])
           G == {n \in 0..file.size : \A a \in ReaderAts, d \in 0..(MaxDepth + 1) :
                    a.at = n /\ Clean(a) => Holds(a, d)}
<1>1. ASSUME NEW n \in 0..file.size, \A j \in 0..file.size : j < n => j \in G
      PROVE  n \in G
  <2> SUFFICES ASSUME NEW a \in ReaderAts, NEW d \in 0..(MaxDepth + 1), a.at = n, Clean(a)
               PROVE  Holds(a, d)
    OBVIOUS
  <2> DEFINE r == [at |-> file.foot[a.at].prev, depth |-> d + 1]
             s == [at |-> a.at, depth |-> d]
             t == [at |-> file.foot[a.at].prev, seen |-> a.seen \cup {a.at}]
             rest == readerChain[t]
  <2>1. readerChain[a] = ReaderBody(readerChain, a)
    BY ReaderUnfolds
  <2>2. a.at # 0 /\ a.at \notin a.seen /\ Decodes(a.at)
        /\ file.foot[a.at].kind \in {"checkpoint", "delta"}
    BY <2>1 DEF ReaderBody
  <2>3. a.at \in DOMAIN file.foot /\ a.at \in 0..file.size /\ file.foot[a.at].whole
    BY <2>2 DEF Decodes, InFile, ReaderAts
  <2>4. t \in ReaderAts /\ t.at \in 0..file.size /\ rest \in Seq(DOMAIN file.foot)
    <3>1. t \in ReaderAts /\ t.at \in 0..file.size
      BY <2>3 DEF ReaderAts, FeetSound
    <3> HIDE DEF t
    <3> QED BY <3>1, ReaderTyped
  <2>5. s \in PreflightAts /\ preflightChain[s] = PreflightBody(preflightChain, s)
    <3>1. s \in PreflightAts
      BY <2>3, Limits DEF PreflightAts
    <3> QED BY <3>1, PreflightUnfolds
  <2>6. s.at = a.at /\ s.depth = d
    OBVIOUS
  <2> HIDE DEF s
  <2>7. Sensible(a.at)
    <3>1. CASE file.foot[a.at].kind = "checkpoint"
      <4>1. readerChain[a] = << a.at >>
        BY <2>1, <2>2, <3>1 DEF ReaderBody
      <4>2. Len(readerChain[a]) = 1 /\ readerChain[a][1] = a.at
        BY <4>1
      <4>3. 1 \in 1..Len(readerChain[a])
        BY <4>2
      <4> QED BY <4>2, <4>3
    <3>2. CASE file.foot[a.at].kind = "delta"
      <4>1. readerChain[a] = << a.at >> \o rest
        BY <2>1, <2>2, <3>2 DEF ReaderBody
      <4> HIDE DEF rest
      <4>2. Len(<< a.at >> \o rest) = Len(rest) + 1 /\ (<< a.at >> \o rest)[1] = a.at
        BY <2>3, <2>4, Prepended
      <4>3. 1 \in 1..Len(readerChain[a])
        <5>1. Len(rest) \in Nat
          BY <2>4
        <5> QED BY <4>1, <4>2, <5>1
      <4> QED BY <4>1, <4>2, <4>3
    <3> QED BY <2>2, <3>1, <3>2
  <2>8. CASE TooDeep(d) \/ file.foot[a.at].big
    <3>1. preflightChain[s] = Refused
      BY <2>2, <2>5, <2>6, <2>7, <2>8 DEF PreflightBody
    <3> QED BY <3>1 DEF s
  <2>9. CASE ~TooDeep(d) /\ ~file.foot[a.at].big /\ file.foot[a.at].kind = "checkpoint"
    <3>1. preflightChain[s] = << a.at >> /\ readerChain[a] = << a.at >>
      BY <2>1, <2>2, <2>3, <2>5, <2>6, <2>7, <2>9 DEF PreflightBody, ReaderBody
    <3> QED BY <3>1 DEF s
  <2>10. CASE ~TooDeep(d) /\ ~file.foot[a.at].big /\ file.foot[a.at].kind = "delta"
    <3>1. rest # Nothing /\ readerChain[a] = << a.at >> \o rest
      BY <2>1, <2>2, <2>10 DEF ReaderBody
    <3>2. t.at < a.at /\ d + 1 \in 0..(MaxDepth + 1)
      <4>1. t.at < a.at
        BY <2>2, <2>3, <2>7 DEF Sensible, InFile, PrevBelow, FeetSound
      <4>2. d <= MaxDepth
        BY <2>10, Limits DEF TooDeep
      <4> QED BY <4>1, <4>2, Limits
    <3>3. Clean(t)
      <4> HIDE DEF rest
      <4>0. Len(rest) \in Nat
        BY <2>4
      <4>1. Len(<< a.at >> \o rest) = Len(rest) + 1
            /\ \A i \in 1..Len(rest) : (<< a.at >> \o rest)[i + 1] = rest[i]
        BY <2>3, <2>4, Prepended
      <4>2. ASSUME NEW i \in 1..Len(rest) PROVE Sensible(rest[i])
        <5>1. i + 1 \in 1..Len(readerChain[a]) /\ readerChain[a][i + 1] = rest[i]
          BY <3>1, <4>0, <4>1
        <5> QED BY <5>1
      <4> QED BY <3>1, <4>2 DEF rest
    <3>4. Holds(t, d + 1)
      <4> HIDE DEF Holds, Clean
      <4> QED BY <1>1, <2>4, <3>2, <3>3
    <3>5. preflightChain[r] \in {rest, Refused}
      BY <3>4
    <3>6. preflightChain[s] = IF preflightChain[r] \in {Nothing, Refused} THEN preflightChain[r]
                              ELSE << a.at >> \o preflightChain[r]
      BY <2>2, <2>3, <2>5, <2>6, <2>7, <2>10 DEF PreflightBody
    <3>7. preflightChain[s] \in {readerChain[a], Refused}
      <4> HIDE DEF rest, r
      <4> QED BY <3>1, <3>5, <3>6
    <3> QED BY <3>7 DEF s
  <2> QED BY <2>2, <2>8, <2>9, <2>10
<1>2. \A n \in 0..file.size : n \in G
  <2> HIDE DEF G
  <2> QED BY <1>1, Climb DEF FeetSound
<1>3. c.at \in 0..file.size
  BY DEF ReaderAts
<1> QED BY <1>2, <1>3

-----------------------------------------------------------------------------
\* Every footer tried but the last has no chain for the scanner that tried it.
Tested(w, s) ==
    /\ s.state \in {"read", "search", "head"} => \A q \in ToSet(s.tried) : Chain(w, q) = Nothing
    /\ s.state \in {"found", "rejected"} =>
           /\ s.tried # << >>
           /\ \A q \in ToSet(s.tried) : q = Last(s.tried) \/ Chain(w, q) = Nothing
    /\ s.state = "found" => Chain(w, Last(s.tried)) \notin {Nothing, Refused}

ChainInv == ScanInv /\ FeetSound /\ \A w \in Scanners : Tested(w, scan[w])

LEMMA InitTested == Init => ChainInv
<1> SUFFICES ASSUME Init PROVE ChainInv
  OBVIOUS
<1>0. PICK size \in Sizes : \E S \in Places(size) : \E foot \in [S -> Feet(S)] :
          file = [size |-> size, foot |-> foot]
  BY DEF Init
<1>01. PICK S \in Places(size) : \E foot \in [S -> Feet(S)] :
          file = [size |-> size, foot |-> foot]
  BY <1>0
<1>1. PICK foot \in [S -> Feet(S)] : file = [size |-> size, foot |-> foot]
  BY <1>01
<1>2. S \subseteq 1..(size - Magic) /\ size \in Nat /\ Magic \in Nat
  BY ScanAssumption DEF Places
<1>3. FeetSound
  <2>1. file.size = size /\ file.foot = foot /\ DOMAIN file.foot = S
    BY <1>1
  <2>2. S \subseteq 1..size
    BY <1>2
  <2>3. ASSUME NEW f \in Feet(S) PROVE f.prev \in S \cup {0}
    BY DEF Feet, Foot
  <2>4. ASSUME NEW p \in S PROVE file.foot[p].prev \in 0..size
    <3>1. file.foot[p] \in Feet(S)
      BY <1>1
    <3>2. file.foot[p].prev \in S \cup {0}
      BY <3>1, <2>3
    <3>3. S \cup {0} \subseteq 0..size
      BY <1>2, <2>2
    <3> QED BY <3>2, <3>3
  <2> QED BY <1>2, <2>1, <2>2, <2>4 DEF FeetSound
<1>4. ASSUME NEW w \in Scanners PROVE Tested(w, scan[w])
  <2>1. scan[w].tried = << >> /\ scan[w].state = "read"
    BY DEF Init
  <2>2. ToSet(<< >>) = {}
    BY DEF ToSet
  <2> QED BY <2>1, <2>2 DEF Tested
<1> QED BY <1>3, <1>4, InitFound DEF ChainInv

LEMMA SameChains ==
    ASSUME file' = file, NEW w \in Scanners, NEW q
    PROVE  Chain(w, q)' = Chain(w, q)
BY DEF Chain, ReaderChain, PreflightChain, readerChain, preflightChain, Decodes, Sensible, InFile,
       PrevBelow, TooDeep, Nothing, Refused

LEMMA StepTested ==
    ASSUME ChainInv, Next PROVE \A v \in Scanners : Tested(v, scan[v])'
<1>1. PICK w \in Scanners : ReadBlock(w) \/ TryFooter(w) \/ BlockDone(w) \/ UseHead(w)
  BY DEF Next
<1>9. Hits(w) # {} => Max(Hits(w)) \in Nat
  <2>1. ASSUME Hits(w) # {} PROVE Max(Hits(w)) \in DOMAIN file.foot
    BY <2>1, LastHit DEF Hits, ChainInv
  <2> QED BY <2>1 DEF ChainInv, ScanInv, FileSound
<1>2. file' = file /\ scan \in [Scanners -> Scan] /\ Tested(w, scan[w])
  BY <1>1 DEF ReadBlock, TryFooter, BlockDone, UseHead, ChainInv, ScanInv
<1>3. scan[w].tried \in Seq(Nat) /\ scan[w].state \in States
  BY <1>2 DEF Scan
<1>4. ASSUME NEW v \in Scanners, v # w PROVE scan'[v] = scan[v]
  BY <1>1, <1>2, <1>4 DEF ReadBlock, TryFooter, BlockDone, UseHead
<1>5. ASSUME scan[w].state \in {"read", "search"}, scan'[w].tried = scan[w].tried,
             scan'[w].state \in {"read", "search", "head"}
      PROVE  Tested(w, scan[w])'
  <2>1. \A q \in ToSet(scan[w].tried) : Chain(w, q)' = Nothing
    BY <1>2, <1>5, SameChains DEF Tested
  <2>2. ToSet(scan[w].tried)' = ToSet(scan[w].tried)
    BY <1>5 DEF ToSet
  <2>3. \A q \in ToSet(scan'[w].tried) : Chain(w, q)' = Nothing
    BY <2>1, <2>2
  <2>4. scan'[w].state \notin {"found", "rejected"}
    BY <1>5
  <2> QED BY <2>3, <2>4 DEF Tested
<1>6. ASSUME scan[w].state = "search", TryFooter(w), scan'[w].tried # scan[w].tried
      PROVE  Tested(w, scan[w])'
  <2> DEFINE s == scan[w]
  <2>1. s.tried \in Seq(Nat) /\ \A q \in ToSet(s.tried) : Chain(w, q) = Nothing
    BY <1>2, <1>3, <1>6 DEF Tested
  <2>2. PICK p \in Nat : p = Max(Hits(w))
    <3>1. Hits(w) # {} /\ Max(Hits(w)) \in Nat
      BY <1>9, <1>6 DEF TryFooter
    <3> QED BY <3>1
  <2>3. scan'[w].tried = Append(s.tried, p) /\ scan'[w].state = Outcome(w, p)
    BY <1>2, <1>6, <2>2 DEF TryFooter, Scan
  <2> HIDE DEF s
  <2>4. Append(s.tried, p) # << >> /\ Last(Append(s.tried, p)) = p
        /\ ToSet(Append(s.tried, p)) = ToSet(s.tried) \cup {p}
    <3>1. ToSet(Append(s.tried, p)) = ToSet(s.tried) \cup {p}
      BY <2>1, <2>2, AppendedTo
    <3>2. Append(s.tried, p) # << >> /\ Last(Append(s.tried, p)) = p
      BY <2>1, <2>2, AppendProperties DEF Last
    <3> QED BY <3>1, <3>2
  <2>5. \A q \in ToSet(s.tried) : Chain(w, q)' = Nothing
    BY <1>2, <2>1, SameChains
  <2>6. Chain(w, p)' = Chain(w, p)
    BY <1>2, SameChains
  <2>7. \/ Outcome(w, p) = "search" /\ Chain(w, p) = Nothing
        \/ Outcome(w, p) = "rejected"
        \/ Outcome(w, p) = "found" /\ Chain(w, p) \notin {Nothing, Refused}
    <3>1. Nothing # Refused
      BY DEF Nothing, Refused
    <3> DEFINE k == Chain(w, p)
    <3>2. Outcome(w, p) = CASE k = Nothing -> "search" [] k = Refused -> "rejected"
                            [] OTHER -> "found"
      BY DEF Outcome
    <3> HIDE DEF k
    <3>3. \/ Outcome(w, p) = "search" /\ k = Nothing
          \/ Outcome(w, p) = "rejected"
          \/ Outcome(w, p) = "found" /\ k \notin {Nothing, Refused}
      BY <3>1, <3>2
    <3> QED BY <3>3 DEF k
  <2> DEFINE t == Append(s.tried, p)
  <2> HIDE DEF t
  <2>8. /\ t # << >> /\ Last(t) = p /\ ToSet(t) = ToSet(s.tried) \cup {p}
        /\ scan'[w].tried = t /\ scan'[w].state = Outcome(w, p)
    BY <2>3, <2>4 DEF t
  <2> QED BY <2>5, <2>6, <2>7, <2>8 DEF Tested
<1>7. Tested(w, scan[w])'
  <2>1. CASE ReadBlock(w)
    BY <1>2, <1>5, <2>1 DEF ReadBlock
  <2>2. CASE TryFooter(w)
    <3>1. scan'[w].tried = scan[w].tried => scan'[w].state = "search"
      <4>1. CASE Max(Hits(w)) + Footer <= file.size
        <5>1. scan'[w].tried = Append(scan[w].tried, Max(Hits(w)))
          BY <1>2, <2>2, <4>1 DEF TryFooter, Scan
        <5>2. Append(scan[w].tried, Max(Hits(w))) # scan[w].tried
          <6>1. Max(Hits(w)) \in Nat
            BY <1>9, <2>2 DEF TryFooter
          <6> QED BY <1>3, <6>1, AppendProperties
        <5> QED BY <5>1, <5>2
      <4>2. CASE ~(Max(Hits(w)) + Footer <= file.size)
        BY <1>2, <2>2, <4>2 DEF TryFooter, Scan
      <4> QED BY <4>1, <4>2
    <3> QED BY <1>5, <1>6, <2>2, <3>1 DEF TryFooter
  <2>3. CASE BlockDone(w)
    BY <1>2, <1>5, <2>3 DEF BlockDone, Scan
  <2>4. CASE UseHead(w)
    BY <1>2, <1>5, <2>4 DEF UseHead, Scan
  <2> QED BY <1>1, <2>1, <2>2, <2>3, <2>4
<1>8. ASSUME NEW v \in Scanners, v # w PROVE Tested(v, scan[v])'
  <2>1. Tested(v, scan[v])
    BY DEF ChainInv
  <2>2. \A q : Chain(v, q)' = Chain(v, q)
    BY <1>2, SameChains
  <2> QED BY <1>4, <1>8, <2>1, <2>2 DEF Tested
<1> QED BY <1>7, <1>8

\* A scanner goes on over footers without a chain, and stops at the first that has one.
THEOREM ChainInvariance == Spec => []ChainInv
<1>1. Init => ChainInv
  BY InitTested
<1>2. ChainInv /\ [Next]_vars => ChainInv'
  <2> SUFFICES ASSUME ChainInv, [Next]_vars PROVE ChainInv'
    OBVIOUS
  <2>1. ScanInv'
    BY StepKeeps DEF ChainInv
  <2>2. file' = file
    BY DEF Next, ReadBlock, TryFooter, BlockDone, UseHead, vars
  <2>3. FeetSound'
    BY <2>2 DEF ChainInv, FeetSound
  <2>4. \A w \in Scanners : Tested(w, scan[w])'
    <3>1. CASE Next
      BY <3>1, StepTested
    <3>2. CASE UNCHANGED vars
      <4>1. ASSUME NEW w \in Scanners PROVE Tested(w, scan[w])'
        <5>1. Tested(w, scan[w]) /\ scan' = scan
          BY <3>2 DEF ChainInv, vars
        <5>2. \A q : Chain(w, q)' = Chain(w, q)
          BY <2>2, SameChains
        <5> QED BY <5>1, <5>2 DEF Tested
      <4> QED BY <4>1
    <3> QED BY <3>1, <3>2
  <2> QED BY <2>1, <2>3, <2>4 DEF ChainInv
<1> QED BY <1>1, <1>2, PTL DEF Spec

LEMMA LastTried ==
    ASSUME ChainInv, NEW w \in Scanners, scan[w].state = "found"
    PROVE  /\ Last(scan[w].tried) \in ToSet(scan[w].tried)
           /\ Last(scan[w].tried) \in Candidates
           /\ Chain(w, Last(scan[w].tried)) \notin {Nothing, Refused}
           /\ \A q \in ToSet(scan[w].tried) :
                  q = Last(scan[w].tried) \/ Chain(w, q) = Nothing
<1> DEFINE T == scan[w].tried
<1>1. T \in Seq(Nat) /\ T # << >> /\ ToSet(T) \subseteq Candidates
  BY DEF ChainInv, ScanInv, Scan, Tested, Ordered
<1>2. Len(T) \in 1..Len(T) /\ DOMAIN T = 1..Len(T)
  <2> HIDE DEF T
  <2>1. Len(T) \in Nat /\ DOMAIN T = 1..Len(T) /\ Len(T) # 0
    BY <1>1, EmptySeq
  <2> QED BY <2>1
<1>3. Last(T) \in ToSet(T)
  BY <1>2 DEF Last, ToSet
<1> QED BY <1>1, <1>3 DEF ChainInv, Tested

\* A footer is a place in either chain to start from.
LEMMA Starts ==
    ASSUME FeetSound, NEW p \in Candidates
    PROVE  /\ [at |-> p, depth |-> 0] \in PreflightAts
           /\ [at |-> p, seen |-> {}] \in ReaderAts
           /\ Chain("preflight", p) = preflightChain[[at |-> p, depth |-> 0]]
           /\ Chain("reader", p) = readerChain[[at |-> p, seen |-> {}]]
<1>1. p \in 0..file.size
  BY DEF FeetSound, Candidates
<1>2. 0 \in 0..(MaxDepth + 2)
  BY Limits
<1> QED BY <1>1, <1>2 DEF PreflightAts, ReaderAts, Chain, PreflightChain, ReaderChain

\* What the preflight accepts is whole, within the limits, descends and ends in a
\* checkpoint, for every file and every depth that is allowed.
THEOREM AcceptedChainsAreSound == Spec => []AcceptedIsSound
<1>1. ChainInv => AcceptedIsSound
  <2> SUFFICES ASSUME ChainInv, scan["preflight"].state = "found"
               PROVE  LET chain == Chosen("preflight")
                      IN  /\ Len(chain) <= MaxDepth + 1
                          /\ \A i \in DOMAIN chain :
                                 /\ file.foot[chain[i]].whole /\ ~file.foot[chain[i]].big
                                 /\ i < Len(chain) => chain[i + 1] < chain[i]
                          /\ file.foot[Last(chain)].kind = "checkpoint"
    BY DEF AcceptedIsSound
  <2> DEFINE p == Last(scan["preflight"].tried)
             c == [at |-> p, depth |-> 0]
             v == Chosen("preflight")
  <2>1. p \in Candidates /\ Chain("preflight", p) \notin {Nothing, Refused} /\ FeetSound
    BY LastTried DEF ChainInv, Scanners
  <2>2. v = Chain("preflight", p)
    BY DEF Chosen
  <2>3. c \in PreflightAts /\ v = preflightChain[c]
    <3> HIDE DEF v, p
    <3> QED BY <2>1, <2>2, Starts
  <2>4. Sound(v, c.at, c.depth)
    <3> HIDE DEF v, c
    <3> QED BY <2>1, <2>2, <2>3, PreflightSound
  <2> HIDE DEF v, p
  <2>5. v \in Seq(DOMAIN file.foot) /\ Len(v) + 0 <= MaxDepth + 1
    BY <2>4 DEF Sound
  <2>6. Len(v) \in Nat /\ DOMAIN v = 1..Len(v)
    BY <2>5
  <2>7. Len(v) <= MaxDepth + 1
    BY <2>5, <2>6, Limits
  <2> QED BY <2>4, <2>6, <2>7 DEF Sound, Last, v
<1> QED BY <1>1, ChainInvariance, PTL

\* The reader opens the generation the preflight vouched for, for every file, however the
\* blocks fall, unless a header field of its footers was altered.
THEOREM SameGenerationOpened == Spec => []SameGeneration
<1>1. ChainInv => SameGeneration
  <2> SUFFICES ASSUME ChainInv, scan["preflight"].state \in {"found", "head"},
                      scan["reader"].state \in {"found", "head"},
                      \A q \in ToSet(Chosen("reader")) : Sensible(q)
               PROVE  Chosen("preflight") = Chosen("reader")
    BY DEF SameGeneration
  <2> DEFINE TP == ToSet(scan["preflight"].tried)
             TR == ToSet(scan["reader"].tried)
             p == Last(scan["preflight"].tried)
             r == Last(scan["reader"].tried)
  <2>1. /\ FeetSound /\ Candidates \subseteq Nat
        /\ TP \subseteq Candidates /\ TR \subseteq Candidates
        /\ \A q \in Candidates \ TP : \A t \in TP : q < t
        /\ \A q \in Candidates \ TR : \A t \in TR : q < t
    BY CandidatesAreNat DEF ChainInv, ScanInv, Ordered, Scanners
  <2>2. /\ scan["preflight"].state = "head" =>
               Candidates \subseteq TP /\ \A q \in TP : Chain("preflight", q) = Nothing
        /\ scan["reader"].state = "head" =>
               Candidates \subseteq TR /\ \A q \in TR : Chain("reader", q) = Nothing
    BY DEF ChainInv, ScanInv, Passed, Tested, Scanners
  <2>3. scan["preflight"].state = "found" =>
            /\ p \in TP /\ Chain("preflight", p) \notin {Nothing, Refused}
            /\ Chosen("preflight") = Chain("preflight", p)
            /\ \A q \in TP : q = p \/ Chain("preflight", q) = Nothing
    BY LastTried DEF Chosen, Scanners
  <2>4. scan["reader"].state = "found" =>
            /\ r \in TR /\ Chain("reader", r) \notin {Nothing, Refused}
            /\ Chosen("reader") = Chain("reader", r)
            /\ \A q \in TR : q = r \/ Chain("reader", q) = Nothing
    BY LastTried DEF Chosen, Scanners
  <2>5. /\ scan["preflight"].state = "head" => Chosen("preflight") = Nothing
        /\ scan["reader"].state = "head" => Chosen("reader") = Nothing
    BY DEF Chosen
  \* Where the preflight found a chain, the reader finds the same.
  <2>6. ASSUME scan["preflight"].state = "found" PROVE Chain("reader", p) = Chosen("preflight")
    <3> DEFINE c == [at |-> p, depth |-> 0]
    <3>1. p \in Candidates
      BY <2>1, <2>3, <2>6
    <3> HIDE DEF p
    <3>2. /\ c \in PreflightAts /\ Chain("preflight", p) = preflightChain[c]
          /\ Chain("reader", p) = readerChain[[at |-> c.at, seen |-> {}]]
      BY <2>1, <3>1, Starts
    <3> HIDE DEF c
    <3> QED BY <2>1, <2>3, <2>6, <3>2, ReaderFollows
  \* Where the reader found one, the preflight finds the same or rejects the archive.
  <2>7. ASSUME scan["reader"].state = "found"
        PROVE  Chain("preflight", r) \in {Chosen("reader"), Refused}
    <3> DEFINE c == [at |-> r, seen |-> {}]
    <3>1. r \in Candidates
      BY <2>1, <2>4, <2>7
    <3> HIDE DEF r
    <3>2. /\ c \in ReaderAts /\ Chain("reader", r) = readerChain[c]
          /\ Chain("preflight", r) = preflightChain[[at |-> c.at, depth |-> 0]]
      BY <2>1, <3>1, Starts
    <3> HIDE DEF c
    <3>3. readerChain[c] # Nothing /\ readerChain[c] = Chosen("reader")
      BY <2>4, <2>7, <3>2
    <3>4. \A i \in 1..Len(readerChain[c]) : Sensible(readerChain[c][i])
      <4>1. readerChain[c] \in Seq(DOMAIN file.foot)
        BY <2>1, <3>2, ReaderTyped
      <4>2. DOMAIN readerChain[c] = 1..Len(readerChain[c])
        BY <4>1
      <4> QED BY <3>3, <4>2 DEF ToSet
    <3>5. 0 \in 0..(MaxDepth + 1)
      BY Limits
    <3> QED BY <2>1, <3>2, <3>3, <3>4, <3>5, PreflightFollows
  <2> HIDE DEF TP, TR, p, r
  <2>8. CASE scan["reader"].state = "head"
    <3>1. CASE scan["preflight"].state = "found"
      BY <2>1, <2>2, <2>3, <2>6, <2>8, <3>1
    <3> QED BY <2>5, <2>8, <3>1
  <2>9. CASE scan["reader"].state = "found" /\ scan["preflight"].state = "head"
    <3>1. Chain("preflight", r) = Nothing
      BY <2>1, <2>2, <2>4, <2>9
    <3>2. Nothing # Refused
      BY DEF Nothing, Refused
    <3> QED BY <2>4, <2>7, <2>9, <3>1, <3>2
  <2>10. CASE scan["reader"].state = "found" /\ scan["preflight"].state = "found"
    <3>1. p \in Candidates /\ r \in Candidates /\ p \in Nat /\ r \in Nat
      BY <2>1, <2>3, <2>4, <2>10
    <3>2. CASE r \in TP
      BY <2>3, <2>4, <2>7, <2>10, <3>2 DEF Nothing, Refused
    <3>3. CASE r \notin TP
      <4>1. r < p
        BY <2>1, <2>3, <2>10, <3>1, <3>3
      <4>2. p \in TR
        <5>1. p \notin TR => p < r
          BY <2>1, <2>4, <2>10, <3>1
        <5> QED BY <3>1, <4>1, <5>1
      <4>3. p # r
        BY <3>1, <4>1
      <4>4. Chain("reader", p) = Nothing
        BY <2>4, <2>10, <4>2, <4>3
      <4> QED BY <2>3, <2>6, <2>10, <4>4
    <3> QED BY <3>2, <3>3
  <2> QED BY <2>8, <2>9, <2>10
<1> QED BY <1>1, ChainInvariance, PTL
=============================================================================
