--------------------------- MODULE JournalProofs ---------------------------
(***************************************************************************)
(* Proofs about Journal, for every number of writers, paths and contents   *)
(* and every chain bound.  ChainSound and DepthBounded hold whatever the   *)
(* callers do; LinearHistory and AckedDurable need what Granted lists.     *)
(* Under the same, every index an open accepts names records that are      *)
(* there, and Journal implements ArchiveStore: an open shows the last      *)
(* committed tree, and a crash takes back no acknowledged one.             *)
(***************************************************************************)
EXTENDS JournalStore, Extrema, TLAPS

-----------------------------------------------------------------------------
(* Footers of a file that grows at its end, or loses its tail.             *)

\* Appending cells neither adds a footer below the end nor takes one away.
LEMMA AppendKeeps ==
    ASSUME NEW f \in Seq(Cells), NEW out \in Seq(Cells)
    PROVE  /\ f \o out \in Seq(Cells)
           /\ Len(f \o out) = Len(f) + Len(out)
           /\ \A p \in 1..Len(f) : /\ (f \o out)[p] = f[p]
                                   /\ IsCommit(f \o out, p) <=> IsCommit(f, p)
                                   /\ p \in Footers(f \o out) <=> p \in Footers(f)
                                   /\ WalkAt(f \o out, p) = WalkAt(f, p)
<1> DEFINE g == f \o out
<1>1. /\ g \in Seq(Cells)
      /\ Len(g) = Len(f) + Len(out)
      /\ \A p \in 1..Len(f) : g[p] = f[p]
      /\ Len(f) \in Nat /\ Len(out) \in Nat
  OBVIOUS
<1> HIDE DEF g
<1>2. SUFFICES ASSUME NEW p \in 1..Len(f)
               PROVE  /\ IsCommit(g, p) <=> IsCommit(f, p)
                      /\ p \in Footers(g) <=> p \in Footers(f)
                      /\ WalkAt(g, p) = WalkAt(f, p)
  BY <1>1 DEF g
<1>3. g[p] = f[p] /\ p \in 1..Len(g)
  BY <1>1
<1>4. p > 1 => p - 1 \in 1..Len(f) /\ g[p - 1] = f[p - 1]
  BY <1>1
<1>5. IsCommit(g, p) <=> IsCommit(f, p)
  BY <1>3, <1>4 DEF IsCommit
<1> QED BY <1>3, <1>5 DEF Footers, IsEmbedded, WalkAt

\* Cutting the file at n and damaging cells above s leaves no new footer, and
\* every footer up to s.
LEMMA DamageKeeps ==
    ASSUME NEW f \in Seq(Cells), NEW s \in 0..Len(f), NEW n \in s..Len(f),
           NEW damaged \in SUBSET ((s + 1)..n),
           NEW g, g = Damaged(f, n, damaged)
    PROVE  /\ g \in Seq(Cells)
           /\ Len(g) = n
           /\ \A p \in 1..n : g[p].t = "foot" => g[p] = f[p]
           /\ \A p \in 1..n : IsCommit(g, p) => IsCommit(f, p)
           /\ \A p \in Footers(g) : p \in Footers(f) /\ WalkAt(g, p) = WalkAt(f, p)
           /\ \A p \in Footers(f) : p <= s => p \in Footers(g) /\ WalkAt(g, p) = WalkAt(f, p)
<1> USE DEF Damaged
<1>1. Torn \in Cells /\ \A i \in 1..n : f[i] \in Cells
  BY DEF Cells
<1>2. g \in Seq(Cells) /\ Len(g) = n /\ n \in Nat /\ s \in Nat
  <2>1. g \in [1..n -> Cells]
    BY <1>1
  <2> QED BY <2>1
<1>3. \A i \in 1..n : g[i] = f[i] \/ g[i] = Torn
  OBVIOUS
<1>4. \A i \in 1..s : i \in 1..n /\ g[i] = f[i]
  <2>1. \A i \in 1..s : i \in 1..n /\ i \notin damaged
    BY <1>2
  <2> QED BY <2>1
<1>5. \A x : Payload(x).t = "gen"
  BY DEF Payload
<1>6. Torn.t = "torn"
  BY DEF Torn
<1>7. \A p \in 1..n : g[p].t \in {"foot", "blob"} => g[p] = f[p]
  BY <1>3, <1>6
<1>8. \A p \in 1..n : IsCommit(g, p) => IsCommit(f, p)
  <2>1. SUFFICES ASSUME NEW p \in 1..n, IsCommit(g, p) PROVE IsCommit(f, p)
    OBVIOUS
  <2>2. p > 1 /\ g[p].t = "foot" /\ g[p - 1] = Payload(g[p].gen) /\ p - 1 \in 1..n
    BY <2>1, <1>2 DEF IsCommit
  <2>3. g[p] = f[p] /\ g[p - 1] = f[p - 1]
    BY <2>2, <1>3, <1>5, <1>6, <1>7
  <2> QED BY <2>2, <2>3 DEF IsCommit
<1>9. ASSUME NEW p \in Footers(g)
      PROVE  p \in Footers(f) /\ WalkAt(g, p) = WalkAt(f, p)
  <2>1. p \in 1..n /\ p \in 1..Len(f)
    BY <1>2 DEF Footers
  <2>2. g[p] = f[p]
    BY <2>1, <1>7 DEF Footers, IsCommit, IsEmbedded
  <2> QED BY <2>1, <2>2, <1>8 DEF Footers, IsEmbedded, WalkAt
<1>10. ASSUME NEW p \in Footers(f), p <= s
       PROVE  p \in Footers(g) /\ WalkAt(g, p) = WalkAt(f, p)
  <2>1. p \in 1..s /\ p \in 1..Len(g)
    BY <1>10, <1>2 DEF Footers
  <2>2. g[p] = f[p] /\ (p > 1 => g[p - 1] = f[p - 1])
    BY <2>1, <1>4, <1>2
  <2> QED BY <2>1, <2>2 DEF Footers, IsCommit, IsEmbedded, WalkAt
<1> QED BY <1>2, <1>7, <1>8, <1>9, <1>10

-----------------------------------------------------------------------------
(* Types of what the model computes.                                       *)

LEMMA NoViewType == NoView \in Views /\ NoJob \in Jobs
<1>1. NoView \in Views
  BY DEF NoView, Views
<1>2. NoGeneration \in Generations
  BY <1>1 DEF NoGeneration, Generations, Checkpoints
<1> QED BY <1>1, <1>2 DEF NoJob, Jobs

LEMMA ReplayType ==
    ASSUME NEW view \in Views, NEW delta \in Deltas
    PROVE  Replay(view, delta) \in Views
<1>1. PICK op \in Ops : op = delta.op
  BY DEF Deltas
<1>2. PICK rows \in [Paths -> Seq(Nat)] : rows = view.rows
  BY DEF Views
<1>3. op.tag \in {"put", "del", "ren"} /\ op.path \in Paths
  BY DEF Ops
<1>4. op.tag = "put" => op.refs \in Seq(Nat)
  BY DEF Ops
<1>5. op.tag = "ren" => op.new \in Paths
  BY DEF Ops
<1>6. << >> \in Seq(Nat)
  OBVIOUS
<1>7. MembersAfter(view.members, op) \in SUBSET Paths
  BY <1>3, <1>5 DEF MembersAfter, Views
<1>8. RowsAfter(rows, op) \in [Paths -> Seq(Nat)]
  BY <1>3, <1>4, <1>5, <1>6 DEF RowsAfter
<1>9. view.blobs \o delta.blobs \in Seq(Nat)
  BY DEF Views, Deltas
<1> QED BY <1>1, <1>2, <1>7, <1>8, <1>9 DEF Replay, Views

LEMMA GenerationOfType ==
    ASSUME NEW view \in Views, NEW depth \in Nat, NEW delta \in Deltas
    PROVE  /\ GenerationOf(view, depth, delta) \in Generations
           /\ GenerationOf(view, depth, delta).kind = "delta" => depth < MaxDepth
<1>1. CASE depth >= MaxDepth
  <2>1. GenerationOf(view, depth, delta) = [kind |-> "checkpoint", view |-> Replay(view, delta)]
    BY <1>1 DEF GenerationOf
  <2> QED BY <2>1, ReplayType DEF Generations, Checkpoints
<1>2. CASE ~(depth >= MaxDepth)
  <2>1. GenerationOf(view, depth, delta) = delta
    BY <1>2 DEF GenerationOf
  <2> QED BY <2>1, <1>2, JournalAssumption DEF Generations
<1> QED BY <1>1, <1>2

\* What the walk from any footer yields is well typed.
LEMMA WalkAtType ==
    ASSUME NEW f \in Seq(Cells), NEW p \in Footers(f)
    PROVE  WalkAt(f, p) \in Walks /\ p \in 1..Len(f)
<1>1. p \in 1..Len(f) /\ f[p] \in Cells
  BY DEF Footers
<1>2. CASE f[p].t = "foot"
  <2>1. f[p].walk \in Walks
    BY <1>1, <1>2 DEF Cells, Torn
  <2> QED BY <1>1, <1>2, <2>1 DEF WalkAt
<1>3. CASE f[p].t # "foot"
  BY <1>1, <1>3, NoViewType DEF WalkAt, Walks
<1> QED BY <1>2, <1>3

\* An open finds the newest footer, or falls back to the header's index.
LEMMA OpenedType ==
    ASSUME TypeOK
    PROVE  LET o == Opened(file)
           IN  /\ o.pos \in 0..Len(file)
               /\ o.depth \in Nat
               /\ o.view \in Views
               /\ o.pos # 0 => /\ o.pos \in Footers(file)
                               /\ WalkAt(file, o.pos).view = o.view
                               /\ WalkAt(file, o.pos).depth = o.depth
               /\ Footers(file) # {} => o.pos # 0
               /\ \A p \in Footers(file) : p <= o.pos
<1> DEFINE S == Footers(file)
           p == Max(S)
<1>1. /\ S \in SUBSET (1..Len(file)) /\ S \in SUBSET (0..Len(file))
      /\ Len(file) \in Nat /\ file \in Seq(Cells)
  BY DEF TypeOK, Footers
<1>2. CASE S = {}
  <2>1. Opened(file) = [pos |-> 0, depth |-> 0, view |-> file[1].view]
    BY <1>2 DEF Opened
  <2>2. file[1] \in Cells /\ file[1].t = "head"
    BY <1>1 DEF TypeOK
  <2>3. file[1].view \in Views
    BY <2>2 DEF Cells, Torn
  <2> QED BY <1>1, <1>2, <2>1, <2>3
<1>3. CASE S # {}
  <2>1. Opened(file) = [pos |-> p, depth |-> WalkAt(file, p).depth, view |-> WalkAt(file, p).view]
    BY <1>3 DEF Opened
  <2>2. p \in S /\ \A q \in S : q <= p
    BY <1>1, <1>3, MaxIsLargest
  <2>3. WalkAt(file, p) \in Walks /\ p \in 1..Len(file)
    BY <1>1, <2>2, WalkAtType
  <2> HIDE DEF p
  <2>4. WalkAt(file, p).depth \in Nat /\ WalkAt(file, p).view \in Views
    BY <2>3 DEF Walks
  <2> QED BY <1>1, <2>1, <2>2, <2>3, <2>4
<1> QED BY <1>2, <1>3

-----------------------------------------------------------------------------
(* The inductive invariant holds initially.                                *)

\* A built archive: header, n records, the index again, and its footer or what
\* is left of it.
LEMMA BaseShape ==
    ASSUME Init
    PROVE  \E n \in Nat, gen \in Generations, walk \in Walks, last \in Cells :
             /\ file \in Seq(Cells) /\ Len(file) = n + 3
             /\ file[1].t = "head"
             /\ \A q \in 1..(n + 1) : file[q].t # "foot"
             /\ file[n + 2] = Payload(gen) /\ file[n + 3] = last
             /\ walk.ok /\ walk.depth = 0 /\ gen.kind = "checkpoint"
             /\ walk = [ok |-> TRUE, view |-> gen.view, depth |-> 0]
             /\ \/ last = Footer(gen, 0, walk)
                \/ last = Torn /\ BaseTails # {"whole"}
<1> USE JournalAssumption
<1>1. PICK blobs \in BaseBlobs, members \in SUBSET Paths, tail \in BaseTails :
        \E ref \in [members -> DOMAIN blobs] :
           file = BaseFile([members |-> members,
                            rows    |-> [p \in Paths |-> IF p \in members THEN << ref[p] >>
                                                                        ELSE << >>],
                            blobs   |-> [i \in DOMAIN blobs |-> i + 1]],
                           blobs, tail)
  BY DEF Init
<1>2. PICK ref \in [members -> DOMAIN blobs] :
           file = BaseFile([members |-> members,
                            rows    |-> [p \in Paths |-> IF p \in members THEN << ref[p] >>
                                                                        ELSE << >>],
                            blobs   |-> [i \in DOMAIN blobs |-> i + 1]],
                           blobs, tail)
  BY <1>1
<1> DEFINE rows == [p \in Paths |-> IF p \in members THEN << ref[p] >> ELSE << >>]
           offsets == [i \in DOMAIN blobs |-> i + 1]
           view == [members |-> members, rows |-> rows, blobs |-> offsets]
           gen == [kind |-> "checkpoint", view |-> view]
           walk == [ok |-> TRUE, view |-> view, depth |-> 0]
           records == [i \in DOMAIN blobs |-> Blob(blobs[i])]
           last == IF tail = "torn" THEN Torn ELSE Footer(gen, 0, walk)
<1>3. blobs \in Seq(Contents) /\ Len(blobs) \in Nat /\ DOMAIN blobs = 1..Len(blobs)
  OBVIOUS
<1>4. view \in Views
  <2>1. offsets \in Seq(Nat)
    BY <1>3
  <2>2. rows \in [Paths -> Seq(Nat)]
    <3>1. ASSUME NEW p \in Paths PROVE rows[p] \in Seq(Nat)
      <4>1. CASE p \in members
        <5>1. ref[p] \in Nat
          BY <4>1, <1>3
        <5> QED BY <5>1, <4>1
      <4>2. CASE p \notin members
        BY <4>2
      <4> QED BY <4>1, <4>2
    <3> QED BY <3>1
  <2> HIDE DEF rows, offsets
  <2> QED BY <2>1, <2>2 DEF Views
<1> HIDE DEF view
<1>5. gen \in Generations /\ walk \in Walks
  BY <1>4 DEF Generations, Checkpoints, Walks
<1>6. records \in Seq(Cells) /\ Len(records) = Len(blobs)
  <2>1. \A i \in DOMAIN blobs : Blob(blobs[i]) \in Cells
    BY <1>3 DEF Blob, Cells
  <2> QED BY <2>1, <1>3
<1>7. /\ Header(view) \in Cells /\ Header(view).t = "head"
      /\ Payload(gen) \in Cells
      /\ last \in Cells
      /\ walk.ok /\ walk.depth = 0 /\ gen.kind = "checkpoint"
      /\ walk = [ok |-> TRUE, view |-> gen.view, depth |-> 0]
      /\ \/ last = Footer(gen, 0, walk)
         \/ last = Torn /\ BaseTails # {"whole"}
  BY <1>4, <1>5 DEF Header, Payload, Footer, Torn, Cells
<1> DEFINE body == << Header(view) >> \o records
           n == Len(blobs)
<1>8. file = (body \o << Payload(gen) >>) \o << last >>
  BY <1>2 DEF BaseFile, view
<1> HIDE DEF gen, walk, last, records
<1>9. /\ body \in Seq(Cells) /\ Len(body) = n + 1
      /\ body[1] = Header(view)
      /\ \A i \in 1..n : body[i + 1] = records[i]
  BY <1>3, <1>6, <1>7
<1>10. \A q \in 1..(n + 1) : body[q].t # "foot"
  <2>1. Header(view).t # "foot"
    BY DEF Header
  <2>2. \A i \in 1..n : records[i].t # "foot"
    BY <1>3 DEF records, Blob
  <2>3. SUFFICES ASSUME NEW q \in 1..(n + 1) PROVE body[q].t # "foot"
    OBVIOUS
  <2>4. q = 1 \/ (q - 1 \in 1..n /\ q = (q - 1) + 1)
    BY <1>3
  <2> QED BY <2>1, <2>2, <2>4, <1>9
<1> HIDE DEF body
<1>11. /\ file \in Seq(Cells) /\ Len(file) = n + 3
       /\ \A q \in 1..(n + 1) : file[q] = body[q]
       /\ file[n + 2] = Payload(gen)
       /\ file[n + 3] = last
  BY <1>7, <1>8, <1>9, <1>3
<1>12. file[1].t = "head" /\ \A q \in 1..(n + 1) : file[q].t # "foot"
  <2>1. 1 \in 1..(n + 1)
    BY <1>3
  <2> QED BY <2>1, <1>7, <1>9, <1>10, <1>11
<1> HIDE DEF n
<1>13. n \in Nat
  BY <1>3 DEF n
<1> QED BY <1>5, <1>7, <1>11, <1>12, <1>13

LEMMA InitIndInv == Init => IndInv
<1> SUFFICES ASSUME Init PROVE IndInv
  OBVIOUS
<1>1. PICK n \in Nat, gen \in Generations, walk \in Walks, last \in Cells :
         /\ file \in Seq(Cells) /\ Len(file) = n + 3
         /\ file[1].t = "head"
         /\ \A q \in 1..(n + 1) : file[q].t # "foot"
         /\ file[n + 2] = Payload(gen) /\ file[n + 3] = last
         /\ walk.ok /\ walk.depth = 0 /\ gen.kind = "checkpoint"
         /\ \/ last = Footer(gen, 0, walk)
            \/ last = Torn /\ BaseTails # {"whole"}
  BY BaseShape
<1>2. TypeOK
  <2>1. synced = Len(file) /\ Len(file) \in 1..Len(file)
    BY <1>1 DEF Init
  <2>2. pc \in [Writers -> Steps] /\ job \in [Writers -> Jobs]
    BY NoViewType DEF Init, Steps
  <2>3. acked \subseteq Nat
    BY <1>1 DEF Init, Footers
  <2> QED BY <1>1, <2>1, <2>2, <2>3 DEF TypeOK
<1>3. CellsSound
  <2>1. SUFFICES ASSUME NEW q \in 1..Len(file), file[q].t = "foot"
                 PROVE  /\ file[q].prev = 0
                        /\ file[q].walk.depth = 0
                        /\ file[q].gen.kind = "checkpoint"
    BY <1>2, JournalAssumption DEF CellsSound, TypeOK
  <2>2. q \in 1..(n + 1) \/ q = n + 2 \/ q = n + 3
    BY <1>1
  <2>3. Payload(gen).t # "foot" /\ Torn.t # "foot"
    BY DEF Payload, Torn
  <2>4. file[q] = Footer(gen, 0, walk)
    BY <2>1, <2>2, <2>3, <1>1
  <2> QED BY <2>4, <1>1 DEF Footer
<1>4. JobSound
  BY DEF Init, JobSound
<1> QED BY <1>2, <1>3, <1>4 DEF IndInv

-----------------------------------------------------------------------------
(* Steps that append to the file.                                          *)

\* What appending cells keeps of the invariant, when no footer is among them or
\* the footers among them are sound themselves.
LEMMA AppendStep ==
    ASSUME IndInv, NEW out \in Seq(Cells), file' = file \o out, synced' = synced,
           \A i \in 1..Len(out) : out[i].t # "foot"
    PROVE  /\ file' \in Seq(Cells) /\ synced' \in 1..Len(file') /\ file'[1].t = "head"
           /\ CellsSound'
           /\ \A p \in 1..Len(file) : /\ file'[p] = file[p]
                                      /\ p \in Footers(file)' <=> p \in Footers(file)
                                      /\ WalkAt(file, p)' = WalkAt(file, p)
           /\ Len(file) \in Nat /\ Len(file') = Len(file) + Len(out)
<1> USE DEF IndInv
<1>1. /\ file \in Seq(Cells) /\ synced \in 1..Len(file) /\ file[1].t = "head"
      /\ Len(file) \in Nat /\ Len(out) \in Nat
  BY DEF TypeOK
<1>2. /\ file' \in Seq(Cells)
      /\ Len(file') = Len(file) + Len(out)
      /\ \A p \in 1..Len(file) : /\ file'[p] = file[p]
                                 /\ p \in Footers(file') <=> p \in Footers(file)
                                 /\ WalkAt(file', p) = WalkAt(file, p)
  BY <1>1, AppendKeeps
<1>3. \A q \in (Len(file) + 1)..Len(file') : file'[q].t # "foot"
  <2>1. \A q \in (Len(file) + 1)..Len(file') :
           q - Len(file) \in 1..Len(out) /\ file'[q] = out[q - Len(file)]
    BY <1>1, <1>2
  <2> QED BY <2>1
<1>4. CellsSound'
  <2>1. SUFFICES ASSUME NEW q \in 1..Len(file'), file'[q].t = "foot"
        PROVE  /\ file'[q].prev < q
               /\ file'[q].prev <= synced'
               /\ file'[q].walk.depth <= MaxDepth
               /\ file'[q].walk.ok /\ file'[q].gen.kind = "delta" =>
                    /\ file'[q].prev \in Footers(file')
                    /\ file'[q].walk.view = Replay(WalkAt(file', file'[q].prev).view, file'[q].gen)
                    /\ file'[q].walk.depth = WalkAt(file', file'[q].prev).depth + 1
    BY DEF CellsSound
  <2>2. q \in 1..Len(file)
    BY <2>1, <1>1, <1>2, <1>3
  <2>3. file'[q] = file[q]
    BY <2>2, <1>2
  <2>4. /\ file[q].prev < q
        /\ file[q].prev <= synced
        /\ file[q].walk.depth <= MaxDepth
        /\ file[q].walk.ok /\ file[q].gen.kind = "delta" =>
             /\ file[q].prev \in Footers(file)
             /\ file[q].walk.view = Replay(WalkAt(file, file[q].prev).view, file[q].gen)
             /\ file[q].walk.depth = WalkAt(file, file[q].prev).depth + 1
    BY <2>1, <2>2, <2>3 DEF CellsSound
  <2>5. file[q].prev \in Footers(file) => file[q].prev \in 1..Len(file)
    BY DEF Footers
  <2> QED BY <2>3, <2>4, <2>5, <1>2
<1> QED BY <1>1, <1>2, <1>4

\* Whatever a write() accepts of its cells, each cell is one of them in its place
\* or a torn one.
LEMMA WrittenType ==
    ASSUME NEW cells \in Seq(Cells), NEW out \in Written(cells)
    PROVE  /\ out \in Seq(Cells)
           /\ Len(out) <= Len(cells)
           /\ \A i \in 1..Len(out) : out[i] = cells[i] \/ out[i] = Torn
<1>1. CASE out = cells
  BY <1>1
<1>2. CASE \E n \in 1..Len(cells) - 1 : out = SubSeq(cells, 1, n)
  <2>1. PICK n \in 1..Len(cells) - 1 : out = SubSeq(cells, 1, n)
    BY <1>2
  <2> QED BY <2>1
<1>3. CASE \E n \in 0..Len(cells) - 1 : out = SubSeq(cells, 1, n) \o << Torn >>
  <2>1. PICK n \in 0..Len(cells) - 1 : out = SubSeq(cells, 1, n) \o << Torn >>
    BY <1>3
  <2> DEFINE head == SubSeq(cells, 1, n)
  <2>2. head \in Seq(Cells) /\ Len(head) = n /\ \A i \in 1..n : head[i] = cells[i]
    OBVIOUS
  <2>3. Torn \in Cells
    BY DEF Cells
  <2> HIDE DEF head
  <2>4. /\ head \o << Torn >> \in Seq(Cells)
        /\ Len(head \o << Torn >>) = n + 1
        /\ \A i \in 1..n : (head \o << Torn >>)[i] = head[i]
        /\ (head \o << Torn >>)[n + 1] = Torn
    BY <2>2, <2>3
  <2>5. out = head \o << Torn >>
    BY <2>1 DEF head
  <2>6. \A i \in 1..(n + 1) : i \in 1..n \/ i = n + 1
    OBVIOUS
  <2> QED BY <2>2, <2>4, <2>5, <2>6
<1> QED BY <1>1, <1>2, <1>3 DEF Written

-----------------------------------------------------------------------------
(* Each action preserves the inductive invariant.                          *)

\* Opening the archive: the job notes the newest footer.
LEMMA BeginStep ==
    ASSUME IndInv, NEW w \in Writers, NEW step \in {"plan", "payload"},
           NEW put \in {<< >>} \cup (Paths \X Parts), NEW gen \in Generations,
           step = "plan" => put # << >>,
           step # "plan" /\ gen.kind = "delta" => Opened(file).depth < MaxDepth,
           Begin(w, step, put, gen)
    PROVE  IndInv'
<1> DEFINE o == Opened(file)
           j == [prev |-> o.pos, depth |-> o.depth, view |-> o.view,
                 put |-> put, new |-> << >>, gen |-> gen, at |-> 0]
<1>1. TypeOK /\ CellsSound /\ JobSound
  BY DEF IndInv
<1>2. /\ job' = [job EXCEPT ![w] = j] /\ pc' = [pc EXCEPT ![w] = step]
      /\ file' = file /\ synced' = synced /\ acked' = acked
  BY DEF Begin
<1>3. /\ o.pos \in 0..Len(file)
      /\ o.depth \in Nat
      /\ o.view \in Views
      /\ o.pos # 0 => /\ o.pos \in Footers(file)
                      /\ WalkAt(file, o.pos).view = o.view
                      /\ WalkAt(file, o.pos).depth = o.depth
  BY <1>1, OpenedType
<1> HIDE DEF o
<1>4. j \in Jobs
  <2>1. << >> \in Seq(Contents)
    OBVIOUS
  <2> QED BY <1>3, <2>1 DEF Jobs
<1>5. TypeOK'
  BY <1>1, <1>2, <1>4 DEF TypeOK, Steps
<1>6. CellsSound'
  BY <1>1, <1>2 DEF CellsSound
<1>7. JobSound'
  <2>1. SUFFICES ASSUME NEW v \in Writers, pc'[v] # "idle"
        PROVE  LET k == job'[v]
               IN  /\ k.prev <= Len(file)
                   /\ k.prev # 0 => /\ k.prev \in Footers(file)
                                    /\ WalkAt(file, k.prev).view = k.view
                                    /\ WalkAt(file, k.prev).depth = k.depth
                   /\ pc'[v] = "plan" => k.put # << >>
                   /\ pc'[v] # "plan" /\ k.gen.kind = "delta" => k.depth < MaxDepth
                   /\ pc'[v] \in {"footer", "sync"} => k.prev <= synced
    BY <1>2 DEF JobSound
  <2>2. CASE v = w
    <3>1. job'[v] = j /\ pc'[v] = step
      BY <1>1, <1>2, <2>2 DEF TypeOK
    <3>2. o.depth = Opened(file).depth
      BY DEF o
    <3> QED BY <3>1, <3>2, <1>3
  <2>3. CASE v # w
    <3>1. job'[v] = job[v] /\ pc'[v] = pc[v]
      BY <1>1, <1>2, <2>3 DEF TypeOK
    <3> QED BY <1>1, <2>1, <3>1 DEF JobSound
  <2> QED BY <2>2, <2>3
<1> QED BY <1>5, <1>6, <1>7 DEF IndInv

LEMMA DeleteStep ==
    ASSUME IndInv, NEW w \in Writers, NEW p \in Paths, AppendDelete(w, p)
    PROVE  IndInv'
<1> DEFINE o == Opened(file)
           delta == RowDelta([tag |-> "del", path |-> p])
<1>1. delta \in Deltas
  BY DEF RowDelta, Deltas, Ops
<1>2. o.depth \in Nat /\ o.view \in Views
  BY OpenedType DEF IndInv
<1>3. Begin(w, "payload", << >>, GenerationOf(o.view, o.depth, delta))
  BY DEF AppendDelete
<1> QED BY <1>1, <1>2, <1>3, GenerationOfType, BeginStep

LEMMA RenameStep ==
    ASSUME IndInv, NEW w \in Writers, NEW p \in Paths, NEW q \in Paths, AppendRename(w, p, q)
    PROVE  IndInv'
<1> DEFINE o == Opened(file)
           delta == RowDelta([tag |-> "ren", path |-> p, new |-> q])
<1>1. delta \in Deltas
  BY DEF RowDelta, Deltas, Ops
<1>2. o.depth \in Nat /\ o.view \in Views
  BY OpenedType DEF IndInv
<1>3. Begin(w, "payload", << >>, GenerationOf(o.view, o.depth, delta))
  BY DEF AppendRename
<1> QED BY <1>1, <1>2, <1>3, GenerationOfType, BeginStep

LEMMA UpdateStep ==
    ASSUME IndInv, NEW w \in Writers, NEW p \in Paths, NEW parts \in Parts,
           AppendUpdate(w, p, parts)
    PROVE  IndInv'
<1>1. NoGeneration \in Generations /\ << p, parts >> # << >>
  BY NoViewType DEF NoGeneration, Generations, Checkpoints
<1>2. Begin(w, "plan", << p, parts >>, NoGeneration)
  BY DEF AppendUpdate
<1> QED BY <1>1, <1>2, BeginStep

\* Planning an update: the delta is typed, and a checkpoint at the bound.
LEMMA PlanStep ==
    ASSUME IndInv, NEW w \in Writers, PlanUpdate(w)
    PROVE  IndInv'
<1> DEFINE j == job[w]
           path == j.put[1]
           parts == j.put[2]
           fresh == {c \in {parts[i] : i \in DOMAIN parts} : Stored(j.view, c) = {}}
           refs(new) == [i \in DOMAIN parts |-> RefTo(j.view, new, parts[i])]
           delta(new) == [kind  |-> "delta",
                          blobs |-> [i \in DOMAIN new |-> RecordOffset(i)],
                          op    |-> [tag |-> "put", path |-> path, refs |-> refs(new)]]
           gen(new) == GenerationOf(j.view, j.depth, delta(new))
<1>1. TypeOK /\ CellsSound /\ JobSound /\ pc[w] = "plan"
  BY DEF IndInv, PlanUpdate
<1>a. PICK n \in 0..Len(parts) : \E new \in [1..n -> fresh] :
         /\ fresh = {new[i] : i \in DOMAIN new}
         /\ job' = [job EXCEPT ![w].new = new, ![w].gen = gen(new)]
         /\ pc' = [pc EXCEPT ![w] = IF new = << >> THEN "payload" ELSE "records"]
  BY DEF PlanUpdate
<1>2. PICK new \in [1..n -> fresh] :
         /\ fresh = {new[i] : i \in DOMAIN new}
         /\ job' = [job EXCEPT ![w].new = new, ![w].gen = gen(new)]
         /\ pc' = [pc EXCEPT ![w] = IF new = << >> THEN "payload" ELSE "records"]
  BY <1>a
<1>3. file' = file /\ synced' = synced /\ acked' = acked
  BY DEF PlanUpdate
<1>4. j \in Jobs /\ path \in Paths /\ parts \in Parts /\ parts \in Seq(Contents)
  BY <1>1, JournalAssumption DEF TypeOK, JobSound, Jobs
<1>5. j.view \in Views /\ j.depth \in Nat /\ j.view.blobs \in Seq(Nat)
  BY <1>4 DEF Jobs, Views
<1>6. n \in Nat /\ DOMAIN new = 1..n
  BY <1>2, <1>4
<1>7. new \in Seq(Contents)
  <2>1. \A c \in fresh : c \in Contents
    BY <1>4
  <2>2. new \in [1..n -> Contents]
    BY <2>1, <1>2
  <2> QED BY <2>2, <1>6
<1>8. refs(new) \in Seq(Nat)
  <2>1. ASSUME NEW i \in DOMAIN parts PROVE RefTo(j.view, new, parts[i]) \in Nat
    <3> DEFINE c == parts[i]
    <3>1. CASE Stored(j.view, c) # {}
      <4>1. Stored(j.view, c) \in SUBSET (0..Len(j.view.blobs)) /\ Len(j.view.blobs) \in Nat
        BY <1>5 DEF Stored
      <4>2. Min(Stored(j.view, c)) \in 0..Len(j.view.blobs)
        BY <3>1, <4>1, MinIsSmallest
      <4> QED BY <3>1, <4>1, <4>2 DEF RefTo
    <3>2. CASE Stored(j.view, c) = {}
      <4>1. c \in {new[k] : k \in DOMAIN new}
        BY <3>2, <1>2
      <4>2. \E k \in DOMAIN new : new[k] = c
        BY <4>1
      <4>3. (CHOOSE k \in DOMAIN new : new[k] = c) \in 1..n
        BY <4>2, <1>6
      <4>4. RefTo(j.view, new, c) = Len(j.view.blobs) + CHOOSE k \in DOMAIN new : new[k] = c
        BY <3>2, Zenon DEF RefTo
      <4>5. PICK m \in 1..n : m = CHOOSE k \in DOMAIN new : new[k] = c
        BY <4>3
      <4>6. RefTo(j.view, new, c) = Len(j.view.blobs) + m
        BY <4>4, <4>5
      <4> QED BY <4>6, <1>5, <1>6
    <3> QED BY <3>1, <3>2
  <2>2. DOMAIN parts = 1..Len(parts) /\ Len(parts) \in Nat
    BY <1>4
  <2> QED BY <2>1, <2>2
<1>9. [i \in DOMAIN new |-> RecordOffset(i)] \in Seq(Nat)
  <2>1. \A i \in 1..n : RecordOffset(i) \in Nat
    BY <1>1, <1>6 DEF RecordOffset, TypeOK
  <2> QED BY <2>1, <1>6
<1>10. delta(new) \in Deltas
  <2> HIDE DEF refs
  <2> QED BY <1>4, <1>8, <1>9 DEF Deltas, Ops
<1>11. gen(new) \in Generations /\ (gen(new).kind = "delta" => j.depth < MaxDepth)
  <2> HIDE DEF delta
  <2> QED BY <1>10, <1>5, GenerationOfType
<1> HIDE DEF gen
<1>12. /\ job'[w] = [prev |-> j.prev, depth |-> j.depth, view |-> j.view, put |-> j.put,
                     new |-> new, gen |-> gen(new), at |-> j.at]
       /\ pc'[w] \in {"payload", "records"}
       /\ \A v \in Writers : v # w => job'[v] = job[v] /\ pc'[v] = pc[v]
  BY <1>1, <1>2, <1>4 DEF TypeOK, Jobs
<1>13. TypeOK'
  <2>1. job'[w] \in Jobs
    BY <1>4, <1>7, <1>11, <1>12 DEF Jobs
  <2>2. \A v \in Writers : job'[v] \in Jobs /\ pc'[v] \in Steps
    BY <1>1, <1>12, <2>1 DEF TypeOK, Steps
  <2>3. DOMAIN job' = Writers /\ DOMAIN pc' = Writers /\ job' = [v \in Writers |-> job'[v]]
          /\ pc' = [v \in Writers |-> pc'[v]]
    BY <1>1, <1>2 DEF TypeOK
  <2> QED BY <1>1, <1>3, <2>2, <2>3 DEF TypeOK
<1>14. CellsSound'
  BY <1>1, <1>3 DEF CellsSound
<1>15. JobSound'
  <2>1. SUFFICES ASSUME NEW v \in Writers, pc'[v] # "idle"
        PROVE  LET k == job'[v]
               IN  /\ k.prev <= Len(file)
                   /\ k.prev # 0 => /\ k.prev \in Footers(file)
                                    /\ WalkAt(file, k.prev).view = k.view
                                    /\ WalkAt(file, k.prev).depth = k.depth
                   /\ pc'[v] = "plan" => k.put # << >>
                   /\ pc'[v] # "plan" /\ k.gen.kind = "delta" => k.depth < MaxDepth
                   /\ pc'[v] \in {"footer", "sync"} => k.prev <= synced
    BY <1>3 DEF JobSound
  <2>2. CASE v = w
    BY <2>2, <1>1, <1>11, <1>12 DEF JobSound
  <2>3. CASE v # w
    BY <2>1, <2>3, <1>1, <1>12 DEF JobSound
  <2> QED BY <2>2, <2>3
<1> QED BY <1>13, <1>14, <1>15 DEF IndInv

\* A step of writer w that appends cells without a footer, or none, and leaves
\* all jobs as they are.
LEMMA QuietStep ==
    ASSUME IndInv, NEW w \in Writers, NEW out \in Seq(Cells), NEW step \in Steps,
           \A i \in 1..Len(out) : out[i].t # "foot",
           file' = file \o out, synced' = synced, job' = job, acked' = acked,
           pc[w] \notin {"idle", "plan"}, step \notin {"plan", "footer", "sync"},
           pc' = [pc EXCEPT ![w] = step]
    PROVE  IndInv'
<1>1. TypeOK /\ CellsSound /\ JobSound
  BY DEF IndInv
<1>2. /\ file' \in Seq(Cells) /\ synced' \in 1..Len(file') /\ file'[1].t = "head"
      /\ CellsSound'
      /\ \A p \in 1..Len(file) : /\ p \in Footers(file)' <=> p \in Footers(file)
                                 /\ WalkAt(file, p)' = WalkAt(file, p)
      /\ Len(file) \in Nat /\ Len(file') = Len(file) + Len(out)
  BY AppendStep
<1>b. Len(out) \in Nat
  OBVIOUS
<1>3. TypeOK'
  BY <1>1, <1>2 DEF TypeOK
<1>4. JobSound'
  <2>1. SUFFICES ASSUME NEW v \in Writers, pc'[v] # "idle"
        PROVE  LET k == job'[v]
               IN  /\ k.prev <= Len(file')
                   /\ k.prev # 0 => /\ k.prev \in Footers(file)'
                                    /\ WalkAt(file', k.prev).view = k.view
                                    /\ WalkAt(file', k.prev).depth = k.depth
                   /\ pc'[v] = "plan" => k.put # << >>
                   /\ pc'[v] # "plan" /\ k.gen.kind = "delta" => k.depth < MaxDepth
                   /\ pc'[v] \in {"footer", "sync"} => k.prev <= synced'
    BY DEF JobSound
  <2>2. PICK j \in Jobs : j = job[v]
    BY <1>1 DEF TypeOK
  <2>3. /\ pc[v] # "idle"
        /\ pc'[v] = "plan" <=> pc[v] = "plan"
        /\ pc'[v] \in {"footer", "sync"} => pc[v] \in {"footer", "sync"}
    BY <1>1, <2>1 DEF TypeOK
  <2>4. /\ j.prev \in Nat /\ j.prev <= Len(file)
        /\ j.prev # 0 => /\ j.prev \in Footers(file)
                         /\ WalkAt(file, j.prev).view = j.view
                         /\ WalkAt(file, j.prev).depth = j.depth
        /\ pc[v] = "plan" => j.put # << >>
        /\ pc[v] # "plan" /\ j.gen.kind = "delta" => j.depth < MaxDepth
        /\ pc[v] \in {"footer", "sync"} => j.prev <= synced
    BY <1>1, <2>2, <2>3 DEF JobSound, Jobs
  <2>5. j.prev # 0 => j.prev \in 1..Len(file)
    BY <2>4
  <2> QED BY <1>2, <1>b, <2>2, <2>3, <2>4, <2>5
<1> QED BY <1>2, <1>3, <1>4 DEF IndInv

LEMMA RecordsStep ==
    ASSUME IndInv, NEW w \in Writers, WriteRecords(w)
    PROVE  IndInv'
<1> DEFINE new == job[w].new
           cells == [i \in DOMAIN new |-> Blob(new[i])]
<1>1. new \in Seq(Contents)
  BY DEF IndInv, TypeOK, Jobs
<1> HIDE DEF new
<1>2. \A i \in DOMAIN new : Blob(new[i]) \in Cells /\ Blob(new[i]).t = "blob"
  BY <1>1 DEF Blob, Cells
<1>3. cells \in Seq(Cells) /\ \A i \in 1..Len(cells) : cells[i].t = "blob"
  BY <1>1, <1>2
<1>4. PICK out \in Written(cells) : file' = file \o out
  BY DEF WriteRecords, new
<1> HIDE DEF cells
<1>5. out \in Seq(Cells) /\ \A i \in 1..Len(out) : out[i].t # "foot"
  <2>1. /\ out \in Seq(Cells) /\ Len(out) <= Len(cells)
        /\ \A i \in 1..Len(out) : out[i] = cells[i] \/ out[i] = Torn
    BY <1>3, <1>4, WrittenType
  <2>2. Torn.t # "foot" /\ \A i \in 1..Len(out) : i \in 1..Len(cells)
    BY <1>3, <2>1 DEF Torn
  <2> QED BY <1>3, <2>1, <2>2
<1>6. /\ pc[w] = "records" /\ pc' = [pc EXCEPT ![w] = "payload"]
      /\ synced' = synced /\ job' = job /\ acked' = acked
  BY DEF WriteRecords
<1> QED BY <1>4, <1>5, <1>6, QuietStep DEF Steps

LEMMA PayloadStep ==
    ASSUME IndInv, NEW w \in Writers, WritePayload(w)
    PROVE  IndInv'
<1> DEFINE cell == Payload(job[w].gen)
           cells == << cell >>
<1>1. job[w].gen \in Generations
  BY DEF IndInv, TypeOK, Jobs
<1>2. cell \in Cells /\ cell.t = "gen"
  BY <1>1 DEF Payload, Cells
<1>3. PICK out \in Written(cells) : file' = file \o out
  BY DEF WritePayload
<1> HIDE DEF cell
<1>4. cells \in Seq(Cells) /\ \A i \in 1..Len(cells) : cells[i].t = "gen"
  BY <1>2
<1> HIDE DEF cells
<1>5. out \in Seq(Cells) /\ \A i \in 1..Len(out) : out[i].t # "foot"
  <2>1. /\ out \in Seq(Cells) /\ Len(out) <= Len(cells)
        /\ \A i \in 1..Len(out) : out[i] = cells[i] \/ out[i] = Torn
    BY <1>3, <1>4, WrittenType
  <2>2. Torn.t # "foot" /\ \A i \in 1..Len(out) : i \in 1..Len(cells)
    BY <1>4, <2>1 DEF Torn
  <2> QED BY <1>4, <2>1, <2>2
<1>6. /\ pc[w] = "payload" /\ pc' = [pc EXCEPT ![w] = "flush"]
      /\ synced' = synced /\ job' = job /\ acked' = acked
  BY DEF WritePayload
<1> QED BY <1>3, <1>5, <1>6, QuietStep DEF Steps

\* A sync only moves the synced prefix forward.
LEMMA FlushStep ==
    ASSUME IndInv, NEW w \in Writers, Flush(w)
    PROVE  IndInv'
<1>1. TypeOK /\ CellsSound /\ JobSound
  BY DEF IndInv
<1>2. /\ pc[w] = "flush" /\ pc' = [pc EXCEPT ![w] = "footer"]
      /\ synced' = Len(file) /\ file' = file /\ job' = job /\ acked' = acked
  BY DEF Flush
<1>3. /\ Len(file) \in Nat /\ synced \in Nat /\ synced <= synced' /\ synced' \in 1..Len(file)
      /\ file \in Seq(Cells)
  BY <1>1, <1>2 DEF TypeOK
<1>4. TypeOK'
  BY <1>1, <1>2, <1>3 DEF TypeOK, Steps
<1>5. CellsSound'
  <2>1. SUFFICES ASSUME NEW q \in 1..Len(file), file[q].t = "foot"
                 PROVE  file[q].prev <= synced'
    BY <1>1, <1>2 DEF CellsSound
  <2>2. file[q].prev \in Nat
    BY <2>1, <1>3 DEF Cells, Torn
  <2> QED BY <1>1, <1>3, <2>1, <2>2 DEF CellsSound
<1>6. JobSound'
  <2>1. SUFFICES ASSUME NEW v \in Writers, pc'[v] # "idle"
        PROVE  LET k == job[v]
               IN  /\ k.prev <= Len(file)
                   /\ k.prev # 0 => /\ k.prev \in Footers(file)
                                    /\ WalkAt(file, k.prev).view = k.view
                                    /\ WalkAt(file, k.prev).depth = k.depth
                   /\ pc'[v] = "plan" => k.put # << >>
                   /\ pc'[v] # "plan" /\ k.gen.kind = "delta" => k.depth < MaxDepth
                   /\ pc'[v] \in {"footer", "sync"} => k.prev <= synced'
    BY <1>2 DEF JobSound
  <2>2. pc[v] # "idle" /\ (pc'[v] = "plan" <=> pc[v] = "plan")
    BY <1>1, <1>2, <2>1 DEF TypeOK
  <2> QED BY <1>1, <1>2, <2>2 DEF JobSound
<1> QED BY <1>4, <1>5, <1>6 DEF IndInv

\* What the walk from a job's footer yields, and that its chain is in bound.
LEMMA WalkFromType ==
    ASSUME NEW f \in Seq(Cells), NEW g \in Generations, NEW prev \in Nat, NEW depth \in Nat,
           prev # 0 => WalkAt(f, prev).depth = depth,
           g.kind = "delta" => depth < MaxDepth
    PROVE  LET walk == WalkFrom(f, g, prev)
           IN  /\ walk \in Walks
               /\ walk.depth <= MaxDepth
               /\ walk.ok /\ g.kind = "delta" =>
                    /\ prev \in Footers(f)
                    /\ walk.view = Replay(WalkAt(f, prev).view, g)
                    /\ walk.depth = WalkAt(f, prev).depth + 1
<1> USE JournalAssumption
<1>1. CASE g.kind = "checkpoint"
  <2>1. WalkFrom(f, g, prev) = [ok |-> TRUE, view |-> g.view, depth |-> 0]
    BY <1>1 DEF WalkFrom
  <2>2. g.view \in Views
    BY <1>1 DEF Generations, Deltas, Checkpoints
  <2> QED BY <1>1, <2>1, <2>2 DEF Walks
<1>2. CASE g.kind # "checkpoint" /\ prev \in Footers(f)
  <2>1. WalkFrom(f, g, prev) = [ok |-> TRUE, view |-> Replay(WalkAt(f, prev).view, g),
                                depth |-> WalkAt(f, prev).depth + 1]
    BY <1>2 DEF WalkFrom
  <2>2. g \in Deltas /\ g.kind = "delta"
    BY <1>2 DEF Generations, Deltas, Checkpoints
  <2>3. WalkAt(f, prev) \in Walks /\ prev \in 1..Len(f)
    BY <1>2, WalkAtType
  <2>4. Replay(WalkAt(f, prev).view, g) \in Views
    BY <2>2, <2>3, ReplayType DEF Walks
  <2>5. WalkAt(f, prev).depth = depth /\ depth + 1 \in Nat /\ depth + 1 <= MaxDepth
    BY <2>2, <2>3
  <2> QED BY <1>2, <2>1, <2>4, <2>5 DEF Walks
<1>3. CASE g.kind # "checkpoint" /\ prev \notin Footers(f)
  <2>1. WalkFrom(f, g, prev) = Unreadable
    BY <1>3 DEF WalkFrom
  <2> QED BY <2>1, NoViewType DEF Unreadable, Walks
<1> QED BY <1>1, <1>2, <1>3

LEMMA FooterStep ==
    ASSUME IndInv, NEW w \in Writers, WriteFooter(w)
    PROVE  IndInv'
<1> DEFINE walk == WalkFrom(file, job[w].gen, job[w].prev)
           cell == Footer(job[w].gen, job[w].prev, walk)
           cells == << cell >>
<1>1. TypeOK /\ CellsSound /\ JobSound
  BY DEF IndInv
<1>2. PICK out \in Written(cells) : file' = file \o out
  BY DEF WriteFooter
<1>3. /\ pc[w] = "footer" /\ pc' = [pc EXCEPT ![w] = "sync"]
      /\ job' = [job EXCEPT ![w].at = Len(file) + 1]
      /\ synced' = synced /\ acked' = acked
  BY DEF WriteFooter
<1>4. PICK j \in Jobs : j = job[w]
  BY <1>1 DEF TypeOK
<1>5. /\ file \in Seq(Cells) /\ Len(file) \in Nat /\ synced \in 1..Len(file)
      /\ j.gen \in Generations /\ j.prev \in Nat /\ j.depth \in Nat
      /\ j.prev <= Len(file) /\ j.prev <= synced
      /\ j.prev # 0 => WalkAt(file, j.prev).depth = j.depth
      /\ j.gen.kind = "delta" => j.depth < MaxDepth
  BY <1>1, <1>3, <1>4 DEF TypeOK, JobSound, Jobs
<1>6. /\ walk \in Walks
      /\ walk.depth <= MaxDepth
      /\ walk.ok /\ j.gen.kind = "delta" =>
           /\ j.prev \in Footers(file)
           /\ walk.view = Replay(WalkAt(file, j.prev).view, j.gen)
           /\ walk.depth = WalkAt(file, j.prev).depth + 1
  BY <1>4, <1>5, WalkFromType
<1> HIDE DEF walk
<1>7. /\ cell \in Cells /\ cell.t = "foot" /\ cell.gen = j.gen
      /\ cell.prev = j.prev /\ cell.walk = walk
  BY <1>4, <1>5, <1>6 DEF Footer, Cells
<1> HIDE DEF cell
<1>8. cells \in Seq(Cells) /\ Len(cells) = 1 /\ cells[1] = cell
  BY <1>7
<1> HIDE DEF cells
<1>9. /\ out \in Seq(Cells) /\ Len(out) \in {0, 1}
      /\ \A i \in 1..Len(out) : out[i] = cells[i] \/ out[i] = Torn
  <2>1. /\ out \in Seq(Cells) /\ Len(out) <= Len(cells)
        /\ \A i \in 1..Len(out) : out[i] = cells[i] \/ out[i] = Torn
    BY <1>2, <1>8, WrittenType
  <2>2. Len(out) \in Nat
    BY <2>1
  <2> QED BY <2>1, <2>2, <1>8
<1>10. /\ file' \in Seq(Cells)
       /\ Len(file') = Len(file) + Len(out)
       /\ \A p \in 1..Len(file) : /\ file'[p] = file[p]
                                  /\ p \in Footers(file') <=> p \in Footers(file)
                                  /\ WalkAt(file', p) = WalkAt(file, p)
  BY <1>2, <1>5, <1>9, AppendKeeps
<1>11. \A q \in 1..Len(file') : q \in 1..Len(file) \/
           (q = Len(file) + 1 /\ (file'[q] = cell \/ file'[q] = Torn))
  <2>1. SUFFICES ASSUME NEW q \in 1..Len(file'), q \notin 1..Len(file)
                 PROVE  q = Len(file) + 1 /\ (file'[q] = cell \/ file'[q] = Torn)
    OBVIOUS
  <2>2. q = Len(file) + 1 /\ Len(out) = 1
    <3>1. q \in 1..(Len(file) + Len(out)) /\ q \notin 1..Len(file)
      BY <2>1, <1>10
    <3> QED BY <3>1, <1>5, <1>9
  <2>3. file'[q] = out[1]
    BY <2>2, <1>2, <1>5, <1>9
  <2> QED BY <2>2, <2>3, <1>8, <1>9
<1>12. CellsSound'
  <2>1. SUFFICES ASSUME NEW q \in 1..Len(file'), file'[q].t = "foot"
        PROVE  /\ file'[q].prev < q
               /\ file'[q].prev <= synced
               /\ file'[q].walk.depth <= MaxDepth
               /\ file'[q].walk.ok /\ file'[q].gen.kind = "delta" =>
                    /\ file'[q].prev \in Footers(file')
                    /\ file'[q].walk.view = Replay(WalkAt(file', file'[q].prev).view, file'[q].gen)
                    /\ file'[q].walk.depth = WalkAt(file', file'[q].prev).depth + 1
    BY <1>3 DEF CellsSound
  <2>2. \A p \in Footers(file) : p \in 1..Len(file)
    BY DEF Footers
  <2>3. CASE q \in 1..Len(file)
    <3>1. file'[q] = file[q]
      BY <2>3, <1>10
    <3>2. /\ file[q].prev < q
          /\ file[q].prev <= synced
          /\ file[q].walk.depth <= MaxDepth
          /\ file[q].walk.ok /\ file[q].gen.kind = "delta" =>
               /\ file[q].prev \in Footers(file)
               /\ file[q].walk.view = Replay(WalkAt(file, file[q].prev).view, file[q].gen)
               /\ file[q].walk.depth = WalkAt(file, file[q].prev).depth + 1
      BY <1>1, <2>1, <2>3, <3>1 DEF CellsSound
    <3> QED BY <3>1, <3>2, <2>2, <1>10
  <2>4. CASE q = Len(file) + 1 /\ file'[q] = cell
    BY <2>4, <2>2, <1>5, <1>6, <1>7, <1>10
  <2>5. CASE q = Len(file) + 1 /\ file'[q] = Torn
    BY <2>1, <2>5 DEF Torn
  <2> QED BY <2>3, <2>4, <2>5, <1>11
<1>13. /\ job'[w] = [prev |-> j.prev, depth |-> j.depth, view |-> j.view, put |-> j.put,
                     new |-> j.new, gen |-> j.gen, at |-> Len(file) + 1]
       /\ pc'[w] = "sync"
       /\ \A v \in Writers : v # w => job'[v] = job[v] /\ pc'[v] = pc[v]
       /\ DOMAIN job' = Writers /\ job' = [v \in Writers |-> job'[v]]
  BY <1>1, <1>3, <1>4 DEF TypeOK, Jobs
<1>14. TypeOK'
  <2>1. job'[w] \in Jobs
    BY <1>4, <1>5, <1>13 DEF Jobs
  <2>2. \A v \in Writers : job'[v] \in Jobs
    BY <1>1, <1>13, <2>1 DEF TypeOK
  <2>3. file'[1].t = "head" /\ synced' \in 1..Len(file')
    <3>1. synced \in 1..Len(file') /\ 1 \in 1..Len(file)
      BY <1>5, <1>9, <1>10
    <3> QED BY <3>1, <1>1, <1>3, <1>10 DEF TypeOK
  <2> QED BY <1>1, <1>3, <1>10, <1>13, <2>2, <2>3 DEF TypeOK, Steps
<1>15. JobSound'
  <2>1. SUFFICES ASSUME NEW v \in Writers, pc'[v] # "idle"
        PROVE  LET k == job'[v]
               IN  /\ k.prev <= Len(file')
                   /\ k.prev # 0 => /\ k.prev \in Footers(file')
                                    /\ WalkAt(file', k.prev).view = k.view
                                    /\ WalkAt(file', k.prev).depth = k.depth
                   /\ pc'[v] = "plan" => k.put # << >>
                   /\ pc'[v] # "plan" /\ k.gen.kind = "delta" => k.depth < MaxDepth
                   /\ pc'[v] \in {"footer", "sync"} => k.prev <= synced'
    BY DEF JobSound
  <2>2. PICK i \in Jobs : i = job[v]
    BY <1>1 DEF TypeOK
  <2>3. /\ pc[v] # "idle"
        /\ pc'[v] = "plan" <=> pc[v] = "plan"
        /\ pc'[v] \in {"footer", "sync"} => pc[v] \in {"footer", "sync"}
    BY <1>3, <1>13, <2>1
  <2>4. /\ job'[v].prev = i.prev /\ job'[v].view = i.view /\ job'[v].depth = i.depth
        /\ job'[v].put = i.put /\ job'[v].gen = i.gen
    BY <1>13, <1>4, <2>2
  <2>5. /\ i.prev \in Nat /\ i.prev <= Len(file)
        /\ i.prev # 0 => /\ i.prev \in Footers(file)
                         /\ WalkAt(file, i.prev).view = i.view
                         /\ WalkAt(file, i.prev).depth = i.depth
        /\ pc[v] = "plan" => i.put # << >>
        /\ pc[v] # "plan" /\ i.gen.kind = "delta" => i.depth < MaxDepth
        /\ pc[v] \in {"footer", "sync"} => i.prev <= synced
    BY <1>1, <2>2, <2>3 DEF JobSound, Jobs
  <2>6. i.prev # 0 => i.prev \in 1..Len(file)
    BY <2>5
  <2> QED BY <1>3, <1>5, <1>9, <1>10, <2>3, <2>4, <2>5, <2>6
<1> QED BY <1>12, <1>14, <1>15 DEF IndInv

\* A writer that leaves, acknowledged or killed, takes its job with it.
LEMMA LeaveStep ==
    ASSUME IndInv, NEW w \in Writers, Acknowledge(w) \/ Kill(w)
    PROVE  IndInv'
<1>1. TypeOK /\ CellsSound /\ JobSound
  BY DEF IndInv
<1>2. /\ pc' = [pc EXCEPT ![w] = "idle"] /\ job' = [job EXCEPT ![w] = NoJob]
      /\ file' = file /\ synced' \in {synced, Len(file)}
  BY DEF Acknowledge, Kill
<1>3. /\ Len(file) \in Nat /\ synced \in 1..Len(file) /\ synced <= synced'
      /\ synced' \in 1..Len(file) /\ file \in Seq(Cells)
  BY <1>1, <1>2 DEF TypeOK
<1>4. TypeOK'
  <2>1. acked' \subseteq Nat
    <3>1. job[w].at \in Nat
      BY <1>1 DEF TypeOK, Jobs
    <3> QED BY <1>1, <3>1 DEF Acknowledge, Kill, TypeOK
  <2>2. job' \in [Writers -> Jobs] /\ pc' \in [Writers -> Steps]
    BY <1>1, <1>2, NoViewType DEF TypeOK, Steps
  <2> QED BY <1>1, <1>2, <1>3, <2>1, <2>2 DEF TypeOK
<1>5. CellsSound'
  <2>1. SUFFICES ASSUME NEW q \in 1..Len(file), file[q].t = "foot"
                 PROVE  file[q].prev <= synced'
    BY <1>1, <1>2 DEF CellsSound
  <2>2. file[q].prev \in Nat
    BY <2>1, <1>3 DEF Cells, Torn
  <2> QED BY <1>1, <1>3, <2>1, <2>2 DEF CellsSound
<1>6. JobSound'
  <2>1. SUFFICES ASSUME NEW v \in Writers, pc'[v] # "idle"
        PROVE  LET k == job'[v]
               IN  /\ k.prev <= Len(file)
                   /\ k.prev # 0 => /\ k.prev \in Footers(file)
                                    /\ WalkAt(file, k.prev).view = k.view
                                    /\ WalkAt(file, k.prev).depth = k.depth
                   /\ pc'[v] = "plan" => k.put # << >>
                   /\ pc'[v] # "plan" /\ k.gen.kind = "delta" => k.depth < MaxDepth
                   /\ pc'[v] \in {"footer", "sync"} => k.prev <= synced'
    BY <1>2 DEF JobSound
  <2>2. v # w /\ pc'[v] = pc[v] /\ job'[v] = job[v]
    BY <1>1, <1>2, <2>1 DEF TypeOK
  <2>3. job[v].prev \in Nat
    BY <1>1 DEF TypeOK, Jobs
  <2> QED BY <1>1, <1>3, <2>1, <2>2, <2>3 DEF JobSound
<1> QED BY <1>4, <1>5, <1>6 DEF IndInv

\* Losing the unsynced tail: what is built on is synced, so it stays.
LEMMA PowerLossStep ==
    ASSUME IndInv, PowerLoss
    PROVE  IndInv'
<1>1. TypeOK /\ CellsSound /\ JobSound
  BY DEF IndInv
<1>2. /\ file \in Seq(Cells) /\ Len(file) \in Nat /\ synced \in 1..Len(file)
      /\ file[1].t = "head"
  BY <1>1 DEF TypeOK
<1>a. PICK n \in synced..Len(file) : \E damaged \in SUBSET ((synced + 1)..n) :
         file' = Damaged(file, n, damaged)
  BY DEF PowerLoss
<1>3. PICK damaged \in SUBSET ((synced + 1)..n) :
         file' = Damaged(file, n, damaged)
  BY <1>a
<1>4. synced \in 0..Len(file)
  BY <1>2
<1>5. /\ file' \in Seq(Cells)
      /\ Len(file') = n
      /\ \A p \in 1..n : file'[p].t = "foot" => file'[p] = file[p]
      /\ \A p \in Footers(file) : p <= synced =>
            p \in Footers(file') /\ WalkAt(file', p) = WalkAt(file, p)
  BY <1>2, <1>3, <1>4, DamageKeeps
<1>6. /\ synced' = n /\ acked' = acked
      /\ pc' = [w \in Writers |-> "idle"] /\ job' = [w \in Writers |-> NoJob]
  BY <1>5 DEF PowerLoss
<1>7. n \in Nat /\ synced <= n /\ n \in 1..n /\ n <= Len(file)
  BY <1>2
<1>8. TypeOK'
  <2>1. 1 \in 1..n /\ 1 \notin damaged
    BY <1>2
  <2>2. file'[1] = file[1]
    BY <2>1, <1>3 DEF Damaged
  <2> QED BY <1>1, <1>2, <1>5, <1>6, <1>7, <2>2, NoViewType DEF TypeOK, Steps
<1>9. CellsSound'
  <2>1. SUFFICES ASSUME NEW q \in 1..n, file'[q].t = "foot"
        PROVE  /\ file'[q].prev < q
               /\ file'[q].prev <= n
               /\ file'[q].walk.depth <= MaxDepth
               /\ file'[q].walk.ok /\ file'[q].gen.kind = "delta" =>
                    /\ file'[q].prev \in Footers(file')
                    /\ file'[q].walk.view = Replay(WalkAt(file', file'[q].prev).view, file'[q].gen)
                    /\ file'[q].walk.depth = WalkAt(file', file'[q].prev).depth + 1
    BY <1>5, <1>6 DEF CellsSound
  <2>2. file'[q] = file[q] /\ q \in 1..Len(file)
    BY <2>1, <1>5, <1>7
  <2>3. /\ file[q].prev < q
        /\ file[q].prev <= synced
        /\ file[q].walk.depth <= MaxDepth
        /\ file[q].walk.ok /\ file[q].gen.kind = "delta" =>
             /\ file[q].prev \in Footers(file)
             /\ file[q].walk.view = Replay(WalkAt(file, file[q].prev).view, file[q].gen)
             /\ file[q].walk.depth = WalkAt(file, file[q].prev).depth + 1
    BY <1>1, <2>1, <2>2 DEF CellsSound
  <2>4. file[q].prev \in Nat
    BY <1>2, <2>1, <2>2 DEF Cells, Torn
  <2> QED BY <1>2, <1>5, <1>7, <2>2, <2>3, <2>4
<1>10. JobSound'
  BY <1>6 DEF JobSound
<1> QED BY <1>8, <1>9, <1>10 DEF IndInv

LEMMA NextIndInv == IndInv /\ [Next]_vars => IndInv'
<1> SUFFICES ASSUME IndInv, [Next]_vars PROVE IndInv'
  OBVIOUS
<1>1. ASSUME NEW w \in Writers, Mutation(w) PROVE IndInv'
  <2>1. CASE \E p \in Paths : AppendDelete(w, p)
    BY <2>1, DeleteStep
  <2>2. CASE \E p, q \in Paths : AppendRename(w, p, q)
    BY <2>2, RenameStep
  <2>3. CASE \E p \in Paths, parts \in Parts : AppendUpdate(w, p, parts)
    BY <2>3, UpdateStep
  <2>4. CASE PlanUpdate(w)
    BY <2>4, PlanStep
  <2>5. CASE WriteRecords(w)
    BY <2>5, RecordsStep
  <2>6. CASE WritePayload(w)
    BY <2>6, PayloadStep
  <2>7. CASE Flush(w)
    BY <2>7, FlushStep
  <2>8. CASE WriteFooter(w)
    BY <2>8, FooterStep
  <2>9. CASE Acknowledge(w)
    BY <2>9, LeaveStep
  <2> QED BY <1>1, <2>1, <2>2, <2>3, <2>4, <2>5, <2>6, <2>7, <2>8, <2>9 DEF Mutation
<1>2. ASSUME NEW w \in Writers, Kill(w) PROVE IndInv'
  BY <1>2, LeaveStep
<1>3. CASE PowerLoss
  BY <1>3, PowerLossStep
<1>4. CASE UNCHANGED vars
  <2>1. file' = file /\ synced' = synced /\ pc' = pc /\ job' = job /\ acked' = acked
    BY <1>4 DEF vars
  <2> QED BY <2>1 DEF IndInv, TypeOK, CellsSound, JobSound
<1> QED BY <1>1, <1>2, <1>3, <1>4 DEF Next

-----------------------------------------------------------------------------
(* The theorems that need no discipline of the callers.                    *)

\* The inductive invariant holds throughout, whatever the callers do.
THEOREM Invariance == Spec => []IndInv
<1>1. Init => IndInv
  BY InitIndInv
<1>2. IndInv /\ [Next]_vars => IndInv'
  BY NextIndInv
<1> QED BY <1>1, <1>2, PTL DEF Spec

\* Every variable keeps its type, and the header stays in the synced prefix.
THEOREM TypeCorrect == Spec => []TypeOK
<1>1. IndInv => TypeOK
  BY DEF IndInv
<1> QED BY <1>1, Invariance, PTL

\* No crash, kill, short write or second writer makes an accepted footer outlive
\* the footer it is built on, or its walk differ from the replay of its delta.
THEOREM ChainsAreSound == Spec => []ChainSound
<1>1. IndInv => ChainSound
  <2> SUFFICES ASSUME IndInv, NEW q \in Footers(file),
                      IsCommit(file, q), file[q].gen.kind = "delta"
               PROVE  /\ file[q].prev \in Footers(file)
                      /\ file[q].prev < q
                      /\ file[q].walk.view =
                            Replay(WalkAt(file, file[q].prev).view, file[q].gen)
                      /\ file[q].walk.depth = WalkAt(file, file[q].prev).depth + 1
    BY DEF ChainSound
  <2>1. q \in 1..Len(file) /\ file[q].t = "foot" /\ file[q].walk.ok
    BY DEF Footers, IsCommit, IsEmbedded
  <2> QED BY <2>1 DEF IndInv, CellsSound
<1> QED BY <1>1, Invariance, PTL

\* The chain an open walks never exceeds the checkpoint bound.
THEOREM ChainsAreBounded == Spec => []DepthBounded
<1>1. IndInv => DepthBounded
  <2> SUFFICES ASSUME IndInv, NEW q \in Footers(file)
               PROVE  WalkAt(file, q).depth <= MaxDepth
    BY DEF DepthBounded
  <2>1. q \in 1..Len(file)
    BY DEF Footers
  <2>2. CASE file[q].t = "foot"
    BY <2>1, <2>2 DEF IndInv, CellsSound, WalkAt
  <2>3. CASE file[q].t # "foot"
    BY <2>3, JournalAssumption DEF WalkAt
  <2> QED BY <2>2, <2>3
<1> QED BY <1>1, Invariance, PTL

-----------------------------------------------------------------------------
(* The walk a footer notes is the walk an open makes.                      *)

\* Cells join the file, noted footers among them.
LEMMA NotedAppend ==
    ASSUME IndInv, WalksNoted, NEW out \in Seq(Cells), file' = file \o out,
           \A i \in 1..Len(out) : out[i].t = "foot" =>
               /\ out[i].prev \in 0..Len(file)
               /\ out[i].gen.kind = "checkpoint" =>
                     out[i].walk = [ok |-> TRUE, view |-> out[i].gen.view, depth |-> 0]
               /\ out[i].gen.kind = "delta" /\ ~out[i].walk.ok => out[i].prev \notin Footers(file)
    PROVE  WalksNoted'
<1>1. /\ file \in Seq(Cells) /\ Len(file) \in Nat /\ Len(out) \in Nat
      /\ synced \in 1..Len(file) /\ CellsSound
  BY DEF IndInv, TypeOK
<1>2. /\ Len(file') = Len(file) + Len(out)
      /\ \A p \in 1..Len(file) : /\ file'[p] = file[p]
                                 /\ p \in Footers(file') <=> p \in Footers(file)
  BY <1>1, AppendKeeps
<1>3. \A p \in 0..Len(file) : p \notin Footers(file) => p \notin Footers(file')
  <2>1. 0 \notin Footers(file')
    BY DEF Footers
  <2>2. \A p \in 0..Len(file) : p = 0 \/ p \in 1..Len(file)
    BY <1>1
  <2> QED BY <1>2, <2>1, <2>2
<1>4. \A q \in (Len(file) + 1)..Len(file') :
         q - Len(file) \in 1..Len(out) /\ file'[q] = out[q - Len(file)]
  BY <1>1, <1>2
<1> SUFFICES ASSUME NEW q \in 1..Len(file'), file'[q].t = "foot"
             PROVE  /\ file'[q].gen.kind = "checkpoint" =>
                          file'[q].walk = [ok |-> TRUE, view |-> file'[q].gen.view, depth |-> 0]
                    /\ file'[q].gen.kind = "delta" /\ ~file'[q].walk.ok =>
                          file'[q].prev \notin Footers(file')
  BY DEF WalksNoted
<1>5. CASE q \in 1..Len(file)
  <2>1. file'[q] = file[q] /\ file[q].t = "foot"
    BY <1>2, <1>5
  <2>2. file[q].prev \in 0..Len(file)
    <3>1. file[q] \in Cells
      BY <1>1, <1>5
    <3>2. file[q].prev \in Nat
      BY <2>1, <3>1 DEF Cells, Torn
    <3>3. file[q].prev <= synced
      BY <1>1, <1>5, <2>1 DEF CellsSound
    <3> QED BY <1>1, <3>2, <3>3
  <2> QED BY <1>3, <1>5, <2>1, <2>2 DEF WalksNoted
<1>6. CASE q \notin 1..Len(file)
  <2>1. q \in (Len(file) + 1)..Len(file')
    BY <1>1, <1>2, <1>6
  <2>2. PICK i \in 1..Len(out) : file'[q] = out[i]
    BY <1>4, <2>1
  <2> QED BY <1>3, <2>2
<1> QED BY <1>5, <1>6

\* A write of cells that hold no footer.
LEMMA NotedWrite ==
    ASSUME IndInv, WalksNoted, NEW cells \in Seq(Cells), NEW out \in Written(cells),
           file' = file \o out, \A i \in 1..Len(cells) : cells[i].t # "foot"
    PROVE  WalksNoted'
<1>1. /\ out \in Seq(Cells) /\ Len(out) <= Len(cells)
      /\ \A i \in 1..Len(out) : out[i] = cells[i] \/ out[i] = Torn
  BY WrittenType
<1>2. Torn.t # "foot" /\ \A i \in 1..Len(out) : i \in 1..Len(cells)
  BY <1>1 DEF Torn
<1>3. \A i \in 1..Len(out) : out[i].t # "foot"
  BY <1>1, <1>2
<1> QED BY <1>1, <1>3, NotedAppend

LEMMA NotedFooter ==
    ASSUME IndInv, WalksNoted, NEW w \in Writers, WriteFooter(w)
    PROVE  WalksNoted'
<1>1. PICK j \in Jobs : j = job[w]
  BY DEF IndInv, TypeOK
<1> DEFINE walk == WalkFrom(file, j.gen, j.prev)
           cell == Footer(j.gen, j.prev, walk)
           cells == << cell >>
<1>2. PICK out \in Written(cells) : file' = file \o out
  BY <1>1 DEF WriteFooter
<1>3. /\ file \in Seq(Cells) /\ Len(file) \in Nat
      /\ j.gen \in Generations /\ j.prev \in Nat /\ j.depth \in Nat
      /\ j.prev <= Len(file)
      /\ j.prev # 0 => WalkAt(file, j.prev).depth = j.depth
      /\ j.gen.kind = "delta" => j.depth < MaxDepth
  <2>1. pc[w] = "footer" /\ TypeOK /\ JobSound
    BY DEF WriteFooter, IndInv
  <2>2. file \in Seq(Cells) /\ Len(file) \in Nat
        /\ j.gen \in Generations /\ j.prev \in Nat /\ j.depth \in Nat
    BY <2>1 DEF TypeOK, Jobs
  <2> QED BY <1>1, <2>1, <2>2 DEF JobSound
<1>4. walk \in Walks
  BY <1>3, WalkFromType
<1>5. /\ j.gen.kind = "checkpoint" => walk = [ok |-> TRUE, view |-> j.gen.view, depth |-> 0]
      /\ j.gen.kind = "delta" /\ ~walk.ok => j.prev \notin Footers(file)
  BY DEF WalkFrom
<1> HIDE DEF walk
<1>6. /\ cell \in Cells /\ cell.gen = j.gen /\ cell.prev = j.prev /\ cell.walk = walk
  BY <1>3, <1>4 DEF Footer, Cells
<1> HIDE DEF cell
<1>7. cells \in Seq(Cells) /\ Len(cells) = 1 /\ cells[1] = cell
  BY <1>6
<1> HIDE DEF cells
<1>8. /\ out \in Seq(Cells) /\ Len(out) <= 1
      /\ \A i \in 1..Len(out) : out[i] = cells[i] \/ out[i] = Torn
  BY <1>2, <1>7, WrittenType
<1>9. \A i \in 1..Len(out) : out[i] = cell \/ out[i] = Torn
  <2>1. \A i \in 1..Len(out) : i = 1
    BY <1>8
  <2> QED BY <1>7, <1>8, <2>1
<1>10. Torn.t # "foot" /\ j.prev \in 0..Len(file)
  BY <1>3 DEF Torn
<1>11. \A i \in 1..Len(out) : out[i].t = "foot" =>
           /\ out[i].prev \in 0..Len(file)
           /\ out[i].gen.kind = "checkpoint" =>
                 out[i].walk = [ok |-> TRUE, view |-> out[i].gen.view, depth |-> 0]
           /\ out[i].gen.kind = "delta" /\ ~out[i].walk.ok => out[i].prev \notin Footers(file)
  BY <1>5, <1>6, <1>9, <1>10
<1> QED BY <1>2, <1>8, <1>11, NotedAppend

LEMMA NotedPowerLoss ==
    ASSUME IndInv, WalksNoted, PowerLoss
    PROVE  WalksNoted'
<1>1. file \in Seq(Cells) /\ synced \in 0..Len(file)
  BY DEF IndInv, TypeOK
<1>2. PICK n \in synced..Len(file) : \E damaged \in SUBSET ((synced + 1)..n) :
         file' = Damaged(file, n, damaged)
  BY DEF PowerLoss
<1>3. PICK damaged \in SUBSET ((synced + 1)..n) : file' = Damaged(file, n, damaged)
  BY <1>2
<1>4. /\ Len(file') = n
      /\ \A p \in 1..n : file'[p].t = "foot" => file'[p] = file[p]
      /\ \A p \in Footers(file') : p \in Footers(file)
  BY <1>1, <1>3, DamageKeeps
<1>5. 1..n \subseteq 1..Len(file)
  BY <1>1
<1> QED BY <1>4, <1>5 DEF WalksNoted

LEMMA InitNoted == Init => WalksNoted
<1> SUFFICES ASSUME Init PROVE WalksNoted
  OBVIOUS
<1>1. PICK n \in Nat, gen \in Generations, walk \in Walks, last \in Cells :
         /\ file \in Seq(Cells) /\ Len(file) = n + 3
         /\ file[1].t = "head"
         /\ \A q \in 1..(n + 1) : file[q].t # "foot"
         /\ file[n + 2] = Payload(gen) /\ file[n + 3] = last
         /\ walk.ok /\ walk.depth = 0 /\ gen.kind = "checkpoint"
         /\ walk = [ok |-> TRUE, view |-> gen.view, depth |-> 0]
         /\ \/ last = Footer(gen, 0, walk)
            \/ last = Torn /\ BaseTails # {"whole"}
  BY BaseShape
<1>2. ASSUME NEW q \in 1..Len(file), file[q].t = "foot" PROVE file[q] = Footer(gen, 0, walk)
  <2>1. q \in 1..(n + 1) \/ q = n + 2 \/ q = n + 3
    BY <1>1
  <2>2. Payload(gen).t # "foot" /\ Torn.t # "foot"
    BY DEF Payload, Torn
  <2> QED BY <1>1, <1>2, <2>1, <2>2
<1>3. ASSUME NEW q \in 1..Len(file), file[q].t = "foot"
      PROVE  /\ file[q].walk = [ok |-> TRUE, view |-> file[q].gen.view, depth |-> 0]
             /\ file[q].gen.kind = "checkpoint"
  <2>1. file[q].walk = walk /\ file[q].gen = gen
    BY <1>2, <1>3 DEF Footer
  <2> QED BY <1>1, <2>1
<1> QED BY <1>3 DEF WalksNoted

\* What a footer notes of its chain stays true, whatever the callers do.
THEOREM NotedInvariance == Spec => [](IndInv /\ WalksNoted)
<1>1. Init => IndInv /\ WalksNoted
  BY InitIndInv, InitNoted
<1>2. IndInv /\ WalksNoted /\ [Next]_vars => (IndInv /\ WalksNoted)'
  <2> SUFFICES ASSUME IndInv, WalksNoted, [Next]_vars PROVE WalksNoted'
    BY NextIndInv
  <2>1. ASSUME file' = file PROVE WalksNoted'
    BY <2>1 DEF WalksNoted, Footers, IsCommit, IsEmbedded
  <2>2. ASSUME NEW w \in Writers, WriteRecords(w) PROVE WalksNoted'
    <3> DEFINE new == job[w].new
               cells == [i \in DOMAIN new |-> Blob(new[i])]
    <3>1. new \in Seq(Contents)
      BY DEF IndInv, TypeOK, Jobs
    <3>2. PICK out \in Written(cells) : file' = file \o out
      BY <2>2 DEF WriteRecords
    <3> HIDE DEF new
    <3>3. \A i \in DOMAIN new : Blob(new[i]) \in Cells /\ Blob(new[i]).t = "blob"
      BY <3>1 DEF Blob, Cells
    <3>4. cells \in Seq(Cells) /\ \A i \in 1..Len(cells) : cells[i].t # "foot"
      BY <3>1, <3>3
    <3> HIDE DEF cells
    <3> QED BY <3>2, <3>4, NotedWrite
  <2>3. ASSUME NEW w \in Writers, WritePayload(w) PROVE WalksNoted'
    <3> DEFINE cell == Payload(job[w].gen)
               cells == << cell >>
    <3>1. cell \in Cells /\ cell.t # "foot"
      BY DEF Payload, Cells, IndInv, TypeOK, Jobs
    <3>2. PICK out \in Written(cells) : file' = file \o out
      BY <2>3 DEF WritePayload
    <3> HIDE DEF cell
    <3>3. cells \in Seq(Cells) /\ \A i \in 1..Len(cells) : cells[i].t # "foot"
      BY <3>1
    <3> HIDE DEF cells
    <3> QED BY <3>2, <3>3, NotedWrite
  <2>4. ASSUME NEW w \in Writers, WriteFooter(w) PROVE WalksNoted'
    BY <2>4, NotedFooter
  <2>5. CASE PowerLoss
    BY <2>5, NotedPowerLoss
  <2>6. ASSUME NEW w \in Writers, Mutation(w) PROVE WalksNoted'
    <3>1. WriteRecords(w) \/ WritePayload(w) \/ WriteFooter(w) \/ file' = file
      BY <2>6 DEF Mutation, AppendDelete, AppendRename, AppendUpdate, Begin, PlanUpdate, Flush,
                  Acknowledge
    <3> QED BY <2>1, <2>2, <2>3, <2>4, <3>1
  <2>7. ASSUME NEW w \in Writers, Kill(w) PROVE WalksNoted'
    BY <2>1, <2>7 DEF Kill
  <2>8. CASE UNCHANGED vars
    BY <2>1, <2>8 DEF vars
  <2> QED BY <2>5, <2>6, <2>7, <2>8 DEF Next
<1> QED BY <1>1, <1>2, PTL DEF Spec

\* One step of the walk over f, h giving the walks from the footers below.
WalkBody(f, h, p) ==
    IF p > 0 /\ IsEmbedded(f, p) THEN [ok |-> TRUE, view |-> NoView, depth |-> 0]
    ELSE IF ~(p > 0 /\ IsCommit(f, p)) THEN Unreadable
    ELSE IF f[p].gen.kind = "checkpoint"
         THEN [ok |-> TRUE, view |-> f[p].gen.view, depth |-> 0]
    ELSE LET up == h[f[p].prev]
         IN  IF f[p].prev = 0 \/ ~up.ok THEN Unreadable
             ELSE [ok |-> TRUE, view |-> Replay(up.view, f[p].gen), depth |-> up.depth + 1]

\* Where there is such a function, the walk unfolds.
LEMMA WalkChosen ==
    ASSUME NEW f, NEW h, h = [p \in 0..Len(f) |-> WalkBody(f, h, p)]
    PROVE  Walk(f) = [p \in 0..Len(f) |-> WalkBody(f, Walk(f), p)]
BY Zenon DEF Walk, WalkBody

\* What the footers note, as a function of the position.
Noted(f) == [p \in 0..Len(f) |-> IF p \in Footers(f) THEN WalkAt(f, p) ELSE Unreadable]

\* What is noted is one such function: a checkpoint notes its own index, a delta the
\* replay on what its previous footer notes.
LEMMA NotedUnfolds ==
    ASSUME IndInv, WalksNoted, NEW p \in 0..Len(file)
    PROVE  Noted(file)[p] = WalkBody(file, Noted(file), p)
<1> DEFINE N == Noted(file)
<1> SUFFICES N[p] = WalkBody(file, N, p)
  OBVIOUS
<1>1. /\ file \in Seq(Cells) /\ Len(file) \in Nat /\ synced \in 1..Len(file) /\ CellsSound
      /\ 0 \notin Footers(file)
  BY DEF IndInv, TypeOK, Footers
<1>2. N[p] = IF p \in Footers(file) THEN WalkAt(file, p) ELSE Unreadable
  BY DEF Noted
<1>3. CASE p > 0 /\ IsEmbedded(file, p)
  <2>1. p \in Footers(file) /\ file[p].t # "foot"
    BY <1>1, <1>3 DEF Footers, IsEmbedded
  <2>2. N[p] = [ok |-> TRUE, view |-> NoView, depth |-> 0]
    BY <1>2, <2>1 DEF WalkAt
  <2> HIDE DEF N
  <2> QED BY <1>3, <2>2 DEF WalkBody
<1>4. CASE p > 0 /\ IsCommit(file, p)
  <2> DEFINE g == file[p].gen
             prev == file[p].prev
             walk == file[p].walk
  <2>1. file[p].t = "foot" /\ p \in 1..Len(file) /\ ~IsEmbedded(file, p)
    BY <1>1, <1>4 DEF IsCommit, IsEmbedded
  <2>2. walk \in Walks /\ g \in Generations /\ prev \in Nat
    <3>1. file[p] \in Cells
      BY <1>1, <2>1
    <3> QED BY <2>1, <3>1 DEF Cells, Torn
  <2>3. walk = [ok |-> walk.ok, view |-> walk.view, depth |-> walk.depth]
    BY <2>2 DEF Walks
  <2>4. /\ g.kind \in {"checkpoint", "delta"} /\ walk.ok \in BOOLEAN
        /\ g.kind = "checkpoint" => walk = [ok |-> TRUE, view |-> g.view, depth |-> 0]
        /\ g.kind = "delta" /\ ~walk.ok => prev \notin Footers(file)
        /\ g.kind = "delta" /\ walk.ok =>
              /\ prev \in Footers(file)
              /\ walk.view = Replay(WalkAt(file, prev).view, g)
              /\ walk.depth = WalkAt(file, prev).depth + 1
    BY <1>1, <2>1, <2>2 DEF WalksNoted, CellsSound, Generations, Deltas, Checkpoints, Walks
  <2>5. prev \in 0..Len(file)
    <3>1. prev <= synced
      BY <1>1, <2>1 DEF CellsSound
    <3> QED BY <1>1, <2>2, <3>1
  <2>6. N[prev] = IF prev \in Footers(file) THEN WalkAt(file, prev) ELSE Unreadable
    BY <2>5 DEF Noted
  <2>7. p \in Footers(file) <=> walk.ok
    BY <1>1, <1>4, <2>1 DEF Footers
  <2>8. walk.ok => N[p] = walk
    BY <1>2, <2>1, <2>7 DEF WalkAt
  <2>9. ~walk.ok => N[p] = Unreadable
    BY <1>2, <2>7
  <2>10. prev \in Footers(file) => N[prev].ok /\ prev # 0
    BY <1>1, <2>6 DEF Footers, WalkAt, IsCommit, IsEmbedded
  <2>11. ~Unreadable.ok
    BY DEF Unreadable
  <2>12. WalkBody(file, N, p) =
            IF g.kind = "checkpoint" THEN [ok |-> TRUE, view |-> g.view, depth |-> 0]
            ELSE IF prev = 0 \/ ~N[prev].ok THEN Unreadable
            ELSE [ok |-> TRUE, view |-> Replay(N[prev].view, g), depth |-> N[prev].depth + 1]
    <3> HIDE DEF N
    <3> QED BY <1>4, <2>1 DEF WalkBody
  <2> HIDE DEF N, g, prev, walk
  <2>13. CASE g.kind = "checkpoint"
    <3>1. walk = [ok |-> TRUE, view |-> g.view, depth |-> 0]
      BY <2>4, <2>13
    <3>2. walk.ok
      BY <3>1
    <3> QED BY <2>8, <2>12, <2>13, <3>1, <3>2
  <2>14. CASE g.kind = "delta" /\ ~walk.ok
    BY <2>4, <2>6, <2>9, <2>11, <2>12, <2>14
  <2>15. CASE g.kind = "delta" /\ walk.ok
    <3>1. N[prev] = WalkAt(file, prev) /\ prev # 0 /\ N[prev].ok
      BY <2>4, <2>6, <2>10, <2>15
    <3>2. walk = [ok |-> TRUE, view |-> Replay(N[prev].view, g), depth |-> N[prev].depth + 1]
      BY <2>3, <2>4, <2>15, <3>1
    <3> QED BY <2>8, <2>12, <2>15, <3>1, <3>2
  <2> QED BY <2>4, <2>13, <2>14, <2>15
<1>5. CASE ~(p > 0 /\ (IsEmbedded(file, p) \/ IsCommit(file, p)))
  <2>1. N[p] = Unreadable
    BY <1>1, <1>2, <1>5 DEF Footers
  <2> HIDE DEF N
  <2> QED BY <1>5, <2>1 DEF WalkBody
<1> QED BY <1>3, <1>4, <1>5

\* There is only one: every footer is built on one below it.
LEMMA WalkIsNoted ==
    ASSUME IndInv, WalksNoted, NEW p \in 0..Len(file)
    PROVE  Walk(file)[p] = Noted(file)[p]
<1> DEFINE N == Noted(file)
           W == Walk(file)
           G == {q \in 0..Len(file) : W[q] = N[q]}
<1>1. /\ file \in Seq(Cells) /\ Len(file) \in Nat /\ CellsSound
  BY DEF IndInv, TypeOK
<1>2. \A q \in 0..Len(file) : N[q] = WalkBody(file, N, q)
  BY NotedUnfolds
<1>3. N = [q \in 0..Len(file) |-> WalkBody(file, N, q)]
  <2>1. N = [q \in 0..Len(file) |-> N[q]]
    BY DEF Noted
  <2> HIDE DEF N
  <2> QED BY <1>2, <2>1, Zenon
<1>4. \A q \in 0..Len(file) : W[q] = WalkBody(file, W, q)
  <2> HIDE DEF N
  <2>1. W = [q \in 0..Len(file) |-> WalkBody(file, W, q)]
    BY <1>3, WalkChosen
  <2> HIDE DEF W
  <2> QED BY <2>1
<1> HIDE DEF N, W
<1>5. ASSUME NEW k \in 0..Len(file), \A j \in 0..Len(file) : j < k => j \in G
      PROVE  k \in G
  <2>1. ASSUME k > 0, IsCommit(file, k) PROVE W[file[k].prev] = N[file[k].prev]
    <3>1. k \in 1..Len(file) /\ file[k].t = "foot"
      BY <1>1, <2>1 DEF IsCommit
    <3>2. file[k].prev < k
      BY <1>1, <3>1 DEF CellsSound
    <3>3. file[k].prev \in Nat
      <4>1. file[k] \in Cells
        BY <1>1, <3>1
      <4> QED BY <3>1, <4>1 DEF Cells, Torn
    <3>4. file[k].prev \in 0..Len(file)
      BY <1>1, <3>1, <3>2, <3>3
    <3> QED BY <1>5, <3>2, <3>4
  <2>2. WalkBody(file, W, k) = WalkBody(file, N, k)
    BY <2>1 DEF WalkBody
  <2> QED BY <1>2, <1>4, <2>2
<1>6. \A k \in 0..Len(file) : k \in G
  <2> HIDE DEF G
  <2> QED BY <1>1, <1>5, Climb
<1> QED BY <1>6 DEF N, W

\* The walk a footer noted when it was written is the walk every later open makes,
\* whatever was appended, lost or killed since, for any number of writers.
THEOREM WalksAgree == Spec => []WalkAgrees
<1>1. IndInv /\ WalksNoted => WalkAgrees
  <2> SUFFICES ASSUME IndInv, WalksNoted, NEW p \in 1..Len(file)
               PROVE  IF p \in Footers(file) THEN Walk(file)[p] = WalkAt(file, p)
                      ELSE ~Walk(file)[p].ok
    BY DEF WalkAgrees
  <2>1. p \in 0..Len(file) /\ Walk(file)[p] = Noted(file)[p]
    BY WalkIsNoted
  <2>2. Noted(file)[p] = IF p \in Footers(file) THEN WalkAt(file, p) ELSE Unreadable
    BY <2>1 DEF Noted
  <2> QED BY <2>1, <2>2 DEF Unreadable
<1> QED BY <1>1, NotedInvariance, PTL

-----------------------------------------------------------------------------
(* Steps by which the accepted footers stay what they were.                *)

\* Without embedded archives the accepted footers are the readable commits.
LEMMA OnlyCommits ==
    ASSUME Granted, NEW f, NEW p
    PROVE  p \in Footers(f) <=> p \in 1..Len(f) /\ IsCommit(f, p) /\ f[p].walk.ok
BY DEF Granted, Footers, IsEmbedded

\* The footers of a history stay linear and durable while none is added.
LEMMA SameFooters ==
    ASSUME HistoryInv, Footers(file)' \subseteq Footers(file),
           \A q \in Footers(file)' : IsCommit(file, q)' => IsCommit(file, q) /\ file'[q] = file[q],
           \A q \in acked : q <= synced => q <= synced',
           \A q \in acked : q \in Footers(file) => q \in Footers(file)',
           acked' = acked
    PROVE  LinearHistory' /\ AckedDurable'
<1>1. LinearHistory'
  BY DEF HistoryInv, LinearHistory
<1>2. AckedDurable'
  BY DEF HistoryInv, AckedDurable
<1> QED BY <1>1, <1>2

\* A step of the one active writer w keeps SoleWriter when it keeps what
\* SoleWriter says of w.
LEMMA SoleStep ==
    ASSUME TypeOK, HistoryInv, NEW w \in Writers, NEW step \in Steps,
           \A v \in Writers : v # w => pc[v] = "idle",
           pc' = [pc EXCEPT ![w] = step], acked' # {},
           step \notin {"idle", "sync"} =>
              /\ job'[w].prev \in Footers(file)'
              /\ \A p \in Footers(file)' : p <= job'[w].prev,
           step \in {"flush", "footer"} => file'[Len(file')] = Payload(job'[w].gen),
           step = "sync" => job'[w].at \in Footers(file)'
    PROVE  SoleWriter'
<1>1. pc'[w] = step /\ \A v \in Writers : v # w => pc'[v] = "idle"
  BY DEF TypeOK
<1> QED BY <1>1 DEF SoleWriter

\* While w mutates, nobody else does.
LEMMA Alone ==
    ASSUME HistoryInv, NEW w \in Writers, pc[w] # "idle"
    PROVE  \A v \in Writers : v # w => pc[v] = "idle"
BY DEF HistoryInv, SoleWriter

LEMMA InitHistory == Granted /\ Init => HistoryInv
<1> SUFFICES ASSUME Granted, Init PROVE HistoryInv
  OBVIOUS
<1>1. PICK n \in Nat, gen \in Generations, walk \in Walks, last \in Cells :
         /\ file \in Seq(Cells) /\ Len(file) = n + 3
         /\ file[1].t = "head"
         /\ \A q \in 1..(n + 1) : file[q].t # "foot"
         /\ file[n + 2] = Payload(gen) /\ file[n + 3] = last
         /\ walk.ok /\ walk.depth = 0 /\ gen.kind = "checkpoint"
         /\ \/ last = Footer(gen, 0, walk)
            \/ last = Torn /\ BaseTails # {"whole"}
  BY BaseShape
<1>2. file[n + 3] = Footer(gen, 0, walk)
  BY <1>1 DEF Granted
<1>3. /\ file[n + 3].t = "foot" /\ file[n + 3].gen = gen /\ file[n + 3].walk = walk
      /\ file[n + 2].t = "gen"
  BY <1>1, <1>2 DEF Footer, Payload
<1>4. (n + 3) - 1 = n + 2 /\ n + 3 > 1 /\ n + 3 \in 1..Len(file)
  BY <1>1
<1>5. n + 3 \in Footers(file)
  BY <1>1, <1>3, <1>4, OnlyCommits DEF IsCommit
<1>6. \A p \in Footers(file) : p = n + 3
  <2>1. SUFFICES ASSUME NEW p \in Footers(file), p # n + 3 PROVE FALSE
    OBVIOUS
  <2>2. p \in 1..(n + 3) /\ file[p].t = "foot"
    BY <2>1, <1>1, OnlyCommits DEF IsCommit
  <2>3. p \in 1..(n + 1) \/ p = n + 2
    BY <2>1, <2>2
  <2> QED BY <2>2, <2>3, <1>1, <1>3
<1>7. acked = {n + 3} /\ synced = n + 3
  BY <1>1, <1>5, <1>6 DEF Init
<1>8. SoleWriter
  BY <1>7 DEF SoleWriter, Init
<1>9. LinearHistory
  BY <1>6, <1>1 DEF LinearHistory
<1>10. AckedDurable
  BY <1>5, <1>7 DEF AckedDurable
<1> QED BY <1>8, <1>9, <1>10 DEF HistoryInv

\* Opening for a mutation finds the newest footer: there is always one, the
\* acknowledged ones being durable.
LEMMA BeginHistory ==
    ASSUME Granted, IndInv, HistoryInv, NEW w \in Writers, MayStart(w),
           NEW step \in {"plan", "payload"}, NEW put, NEW gen, Begin(w, step, put, gen)
    PROVE  HistoryInv'
<1>1. TypeOK /\ \A v \in Writers : pc[v] = "idle"
  BY DEF IndInv, MayStart, Granted
<1>2. /\ file' = file /\ synced' = synced /\ acked' = acked
      /\ pc' = [pc EXCEPT ![w] = step]
      /\ job'[w].prev = Opened(file).pos
  BY <1>1 DEF Begin, TypeOK
<1>3. LinearHistory' /\ AckedDurable'
  BY <1>2, SameFooters
<1>4. acked # {} /\ Footers(file) # {}
  BY DEF HistoryInv, SoleWriter, AckedDurable
<1>5. /\ Opened(file).pos \in Footers(file)
      /\ \A p \in Footers(file) : p <= Opened(file).pos
  BY <1>1, <1>4, OpenedType
<1>6. SoleWriter'
  <2>1. step \in Steps /\ step \notin {"flush", "footer", "sync"}
    BY DEF Steps
  <2> QED BY <1>1, <1>2, <1>4, <1>5, <2>1, SoleStep
<1> QED BY <1>3, <1>6 DEF HistoryInv

\* Planning changes neither the file nor the footer built on.
LEMMA PlanHistory ==
    ASSUME IndInv, HistoryInv, NEW w \in Writers, PlanUpdate(w)
    PROVE  HistoryInv'
<1>1. TypeOK /\ pc[w] = "plan"
  BY DEF IndInv, PlanUpdate
<1>2. PICK new, gen :
         /\ job' = [job EXCEPT ![w].new = new, ![w].gen = gen]
         /\ pc' = [pc EXCEPT ![w] = IF new = << >> THEN "payload" ELSE "records"]
  BY DEF PlanUpdate
<1>3. file' = file /\ synced' = synced /\ acked' = acked
  BY DEF PlanUpdate
<1>4. job'[w].prev = job[w].prev
  BY <1>1, <1>2 DEF TypeOK, Jobs
<1>5. LinearHistory' /\ AckedDurable'
  BY <1>3, SameFooters
<1>6. SoleWriter'
  <2>1. /\ job[w].prev \in Footers(file)
        /\ \A p \in Footers(file) : p <= job[w].prev
        /\ acked # {}
    BY <1>1 DEF HistoryInv, SoleWriter
  <2>2. PICK step \in {"payload", "records"} : pc' = [pc EXCEPT ![w] = step]
    BY <1>2
  <2>3. step \in Steps /\ step \notin {"flush", "footer", "sync"}
    BY DEF Steps
  <2>4. \A v \in Writers : v # w => pc[v] = "idle"
    BY <1>1, Alone
  <2> QED BY <1>1, <1>3, <1>4, <2>1, <2>2, <2>3, <2>4, SoleStep
<1> QED BY <1>5, <1>6 DEF HistoryInv

\* Appending cells that hold no footer leaves the accepted footers alone.
LEMMA AppendHistory ==
    ASSUME Granted, TypeOK, HistoryInv, NEW out \in Seq(Cells),
           \A i \in 1..Len(out) : out[i].t # "foot",
           file' = file \o out, synced' = synced, acked' = acked
    PROVE  /\ Footers(file)' = Footers(file)
           /\ LinearHistory' /\ AckedDurable'
<1>1. file \in Seq(Cells) /\ Len(file) \in Nat /\ Len(out) \in Nat
  BY DEF TypeOK
<1>2. /\ Len(file') = Len(file) + Len(out)
      /\ \A p \in 1..Len(file) : /\ file'[p] = file[p]
                                 /\ IsCommit(file', p) <=> IsCommit(file, p)
                                 /\ p \in Footers(file') <=> p \in Footers(file)
  BY <1>1, AppendKeeps
<1>3. ASSUME NEW p \in Footers(file') PROVE p \in 1..Len(file)
  <2>1. p \in 1..Len(file') /\ file'[p].t = "foot"
    BY OnlyCommits DEF IsCommit
  <2>2. SUFFICES ASSUME p \notin 1..Len(file) PROVE FALSE
    OBVIOUS
  <2>3. p - Len(file) \in 1..Len(out) /\ file'[p] = out[p - Len(file)]
    BY <1>1, <1>2, <2>1, <2>2
  <2> QED BY <2>1, <2>3
<1>4. Footers(file') = Footers(file)
  <2>1. \A p \in Footers(file) : p \in 1..Len(file)
    BY DEF Footers
  <2> QED BY <1>2, <1>3, <2>1
<1>5. LinearHistory' /\ AckedDurable'
  BY <1>2, <1>3, <1>4, SameFooters
<1> QED BY <1>4, <1>5

\* Without short writes a write() puts down all its cells.
LEMMA WholeWrite == ASSUME Granted, NEW cells, NEW out \in Written(cells) PROVE out = cells
BY DEF Granted, Written

\* A single cell lands at the end.
LEMMA AppendOne ==
    ASSUME NEW f \in Seq(Cells), NEW c \in Cells
    PROVE  /\ << c >> \in Seq(Cells) /\ Len(<< c >>) = 1
           /\ Len(f \o << c >>) = Len(f) + 1
           /\ (f \o << c >>)[Len(f) + 1] = c
OBVIOUS

LEMMA RecordsHistory ==
    ASSUME Granted, IndInv, HistoryInv, NEW w \in Writers, WriteRecords(w)
    PROVE  HistoryInv'
<1> DEFINE cells == [i \in DOMAIN job[w].new |-> Blob(job[w].new[i])]
<1>1. TypeOK /\ pc[w] = "records"
  BY DEF IndInv, WriteRecords
<1>2. /\ file' = file \o cells /\ synced' = synced /\ job' = job /\ acked' = acked
      /\ pc' = [pc EXCEPT ![w] = "payload"]
  BY WholeWrite DEF WriteRecords
<1>3. cells \in Seq(Cells) /\ \A i \in 1..Len(cells) : cells[i].t # "foot"
  <2>1. PICK new \in Seq(Contents) : new = job[w].new
    BY <1>1 DEF TypeOK, Jobs
  <2>2. \A i \in DOMAIN new : Blob(new[i]) \in Cells /\ Blob(new[i]).t = "blob"
    BY DEF Blob, Cells
  <2>3. DOMAIN new = 1..Len(new) /\ Len(new) \in Nat
    OBVIOUS
  <2> QED BY <2>1, <2>2, <2>3
<1> HIDE DEF cells
<1>4. /\ Footers(file)' = Footers(file)
      /\ LinearHistory' /\ AckedDurable'
  BY <1>1, <1>2, <1>3, AppendHistory
<1>5. /\ job[w].prev \in Footers(file)
      /\ \A p \in Footers(file) : p <= job[w].prev
      /\ acked # {}
  BY <1>1 DEF HistoryInv, SoleWriter
<1>6. SoleWriter'
  <2>1. "payload" \in Steps
    BY DEF Steps
  <2>2. \A v \in Writers : v # w => pc[v] = "idle"
    BY <1>1, Alone
  <2> QED BY <1>1, <1>2, <1>4, <1>5, <2>1, <2>2, SoleStep
<1> QED BY <1>4, <1>6 DEF HistoryInv

LEMMA PayloadHistory ==
    ASSUME Granted, IndInv, HistoryInv, NEW w \in Writers, WritePayload(w)
    PROVE  HistoryInv'
<1> DEFINE cells == << Payload(job[w].gen) >>
<1>1. TypeOK /\ pc[w] = "payload"
  BY DEF IndInv, WritePayload
<1>2. /\ file' = file \o cells /\ synced' = synced /\ job' = job /\ acked' = acked
      /\ pc' = [pc EXCEPT ![w] = "flush"]
  BY WholeWrite DEF WritePayload
<1>3. /\ cells \in Seq(Cells) /\ Len(cells) = 1 /\ cells[1] = Payload(job[w].gen)
      /\ \A i \in 1..Len(cells) : cells[i].t # "foot"
  <2>1. job[w].gen \in Generations
    BY <1>1 DEF TypeOK, Jobs
  <2>2. Payload(job[w].gen) \in Cells /\ Payload(job[w].gen).t # "foot"
    BY <2>1 DEF Payload, Cells
  <2> QED BY <2>2
<1> HIDE DEF cells
<1>4. /\ Footers(file)' = Footers(file)
      /\ LinearHistory' /\ AckedDurable'
  BY <1>1, <1>2, <1>3, AppendHistory
<1>5. /\ job[w].prev \in Footers(file)
      /\ \A p \in Footers(file) : p <= job[w].prev
      /\ acked # {}
  BY <1>1 DEF HistoryInv, SoleWriter
<1>6. file'[Len(file')] = Payload(job[w].gen)
  <2>1. file \in Seq(Cells) /\ Len(file) \in Nat
    BY <1>1 DEF TypeOK
  <2>2. Len(file') = Len(file) + 1 /\ file'[Len(file) + 1] = cells[1]
    <3>1. Payload(job[w].gen) \in Cells
      BY <1>1 DEF TypeOK, Jobs, Payload, Cells
    <3>2. file' = file \o << Payload(job[w].gen) >>
      BY <1>2 DEF cells
    <3> QED BY <1>3, <2>1, <3>1, <3>2, AppendOne
  <2> QED BY <1>3, <2>2
<1>7. SoleWriter'
  <2>1. "flush" \in Steps
    BY DEF Steps
  <2>2. \A v \in Writers : v # w => pc[v] = "idle"
    BY <1>1, Alone
  <2> QED BY <1>1, <1>2, <1>4, <1>5, <1>6, <2>1, <2>2, SoleStep
<1> QED BY <1>4, <1>7 DEF HistoryInv

\* The first fsync only extends what is durable.
LEMMA FlushHistory ==
    ASSUME IndInv, HistoryInv, NEW w \in Writers, Flush(w)
    PROVE  HistoryInv'
<1>1. TypeOK /\ pc[w] = "flush"
  BY DEF IndInv, Flush
<1>2. /\ file' = file /\ synced' = Len(file) /\ job' = job /\ acked' = acked
      /\ pc' = [pc EXCEPT ![w] = "footer"]
  BY DEF Flush
<1>3. LinearHistory' /\ AckedDurable'
  <2>1. \A q \in acked : q <= Len(file)
    BY DEF HistoryInv, AckedDurable, Footers
  <2> QED BY <1>2, <2>1, SameFooters
<1>4. /\ job[w].prev \in Footers(file)
      /\ \A p \in Footers(file) : p <= job[w].prev
      /\ acked # {}
      /\ file[Len(file)] = Payload(job[w].gen)
  BY <1>1 DEF HistoryInv, SoleWriter
<1>5. SoleWriter'
  <2>1. "footer" \in Steps
    BY DEF Steps
  <2>2. \A v \in Writers : v # w => pc[v] = "idle"
    BY <1>1, Alone
  <2> QED BY <1>1, <1>2, <1>4, <2>1, <2>2, SoleStep
<1> QED BY <1>3, <1>5 DEF HistoryInv

\* The commit footer lands right behind its payload and names the newest footer
\* before it, so it is accepted and bypasses nothing.
LEMMA FooterHistory ==
    ASSUME Granted, IndInv, HistoryInv, NEW w \in Writers, WriteFooter(w)
    PROVE  HistoryInv'
<1> DEFINE N == Len(file)
           walk == WalkFrom(file, job[w].gen, job[w].prev)
           cell == Footer(job[w].gen, job[w].prev, walk)
           cells == << cell >>
<1>1. TypeOK /\ JobSound /\ pc[w] = "footer"
  BY DEF IndInv, WriteFooter
<1>2. /\ file' = file \o cells /\ synced' = synced /\ acked' = acked
      /\ pc' = [pc EXCEPT ![w] = "sync"]
      /\ job' = [job EXCEPT ![w].at = N + 1]
  BY WholeWrite DEF WriteFooter
<1>3. PICK j \in Jobs : j = job[w]
  BY <1>1 DEF TypeOK
<1>4. /\ j.prev \in Footers(file)
      /\ \A p \in Footers(file) : p <= j.prev
      /\ acked # {}
      /\ file[N] = Payload(j.gen)
  BY <1>1, <1>3 DEF HistoryInv, SoleWriter
<1>5. /\ file \in Seq(Cells) /\ N \in Nat /\ N >= 1
      /\ j.gen \in Generations /\ j.prev \in Nat /\ j.depth \in Nat
      /\ j.prev # 0 => WalkAt(file, j.prev).depth = j.depth
      /\ j.gen.kind = "delta" => j.depth < MaxDepth
  BY <1>1, <1>3 DEF TypeOK, JobSound, Jobs
<1>6. walk \in Walks /\ walk.ok
  <2>1. walk \in Walks
    BY <1>3, <1>5, WalkFromType
  <2>2. walk.ok
    BY <1>3, <1>4 DEF WalkFrom
  <2> QED BY <2>1, <2>2
<1> HIDE DEF walk
<1>7. /\ cell \in Cells /\ cell.t = "foot" /\ cell.gen = j.gen
      /\ cell.prev = j.prev /\ cell.walk = walk
  BY <1>3, <1>5, <1>6 DEF Footer, Cells
<1> HIDE DEF cell
<1>8. /\ file' \in Seq(Cells) /\ Len(file') = N + 1 /\ file'[N + 1] = cell
      /\ \A p \in 1..N : /\ file'[p] = file[p]
                         /\ IsCommit(file', p) <=> IsCommit(file, p)
                         /\ p \in Footers(file') <=> p \in Footers(file)
  <2>1. file' = file \o << cell >>
    BY <1>2
  <2>2. /\ << cell >> \in Seq(Cells) /\ Len(<< cell >>) = 1
        /\ Len(file \o << cell >>) = N + 1
        /\ (file \o << cell >>)[N + 1] = cell
    BY <1>5, <1>7, AppendOne
  <2> HIDE DEF cells
  <2> QED BY <1>5, <2>1, <2>2, AppendKeeps
<1>9. IsCommit(file', N + 1)
  <2>1. (N + 1) - 1 = N /\ N + 1 > 1 /\ N \in 1..N
    BY <1>5
  <2> QED BY <1>4, <1>7, <1>8, <2>1 DEF IsCommit
<1>10. N + 1 \in Footers(file')
  <2>1. N + 1 \in 1..Len(file')
    BY <1>5, <1>8
  <2> QED BY <1>6, <1>7, <1>8, <1>9, <2>1, OnlyCommits
<1>11. \A p \in Footers(file') : p = N + 1 \/ (p \in 1..N /\ p \in Footers(file))
  <2>1. \A p \in Footers(file') : p \in 1..(N + 1)
    BY <1>8 DEF Footers
  <2> QED BY <1>5, <1>8, <2>1
<1>12. LinearHistory'
  <2>1. SUFFICES ASSUME NEW p \in Footers(file'), NEW q \in Footers(file'),
                        p < q, IsCommit(file', q)
                 PROVE  file'[q].prev >= p
    BY DEF LinearHistory
  <2>2. CASE q = N + 1
    <3>1. p \in Footers(file) /\ p \in 1..N
      BY <2>1, <2>2, <1>11
    <3> QED BY <3>1, <2>2, <1>4, <1>5, <1>7, <1>8
  <2>3. CASE q \in 1..N /\ q \in Footers(file)
    <3>1. p \in Footers(file) /\ p \in 1..N
      BY <2>1, <2>3, <1>5, <1>11
    <3> QED BY <2>1, <2>3, <3>1, <1>8 DEF HistoryInv, LinearHistory
  <2> QED BY <2>2, <2>3, <1>11
<1>13. AckedDurable'
  <2>1. \A q \in Footers(file) : q \in 1..N
    BY DEF Footers
  <2> QED BY <2>1, <1>2, <1>8 DEF HistoryInv, AckedDurable
<1>14. SoleWriter'
  <2>1. job'[w].at = N + 1
    BY <1>1, <1>2 DEF TypeOK, Jobs
  <2>2. \A v \in Writers : v # w => pc[v] = "idle"
    BY <1>1, Alone
  <2>3. "sync" \in Steps
    BY DEF Steps
  <2> QED BY <1>1, <1>2, <1>4, <1>10, <2>1, <2>2, <2>3, SoleStep
<1> QED BY <1>12, <1>13, <1>14 DEF HistoryInv

\* The caller hears of the commit only after the second fsync.
LEMMA AcknowledgeHistory ==
    ASSUME IndInv, HistoryInv, NEW w \in Writers, Acknowledge(w)
    PROVE  HistoryInv'
<1>1. TypeOK /\ pc[w] = "sync"
  BY DEF IndInv, Acknowledge
<1>2. /\ file' = file /\ synced' = Len(file) /\ acked' = acked \cup {job[w].at}
      /\ pc' = [pc EXCEPT ![w] = "idle"]
  BY DEF Acknowledge
<1>3. job[w].at \in Footers(file)
  BY <1>1 DEF HistoryInv, SoleWriter
<1>4. \A q \in Footers(file) : q <= Len(file)
  BY DEF Footers
<1>5. LinearHistory'
  BY <1>2 DEF HistoryInv, LinearHistory
<1>6. AckedDurable'
  BY <1>2, <1>3, <1>4 DEF HistoryInv, AckedDurable
<1>7. SoleWriter'
  <2>1. \A v \in Writers : v # w => pc[v] = "idle"
    BY <1>1, Alone
  <2> QED BY <1>1, <1>2, <2>1, SoleStep DEF Steps
<1> QED BY <1>5, <1>6, <1>7 DEF HistoryInv

LEMMA KillHistory ==
    ASSUME IndInv, HistoryInv, NEW w \in Writers, Kill(w)
    PROVE  HistoryInv'
<1>1. TypeOK /\ pc[w] # "idle"
  BY DEF IndInv, Kill
<1>2. /\ file' = file /\ synced' = synced /\ acked' = acked
      /\ pc' = [pc EXCEPT ![w] = "idle"]
  BY DEF Kill
<1>3. LinearHistory' /\ AckedDurable'
  BY <1>2, SameFooters
<1>4. SoleWriter'
  <2>1. \A v \in Writers : v # w => pc[v] = "idle"
    BY <1>1, Alone
  <2>2. acked # {}
    BY DEF HistoryInv, SoleWriter
  <2> QED BY <1>1, <1>2, <2>1, <2>2, SoleStep DEF Steps
<1> QED BY <1>3, <1>4 DEF HistoryInv

\* A power loss takes only footers nobody was told of.
LEMMA PowerLossHistory ==
    ASSUME Granted, IndInv, HistoryInv, PowerLoss
    PROVE  HistoryInv'
<1>1. /\ file \in Seq(Cells) /\ Len(file) \in Nat /\ synced \in 1..Len(file)
      /\ synced \in 0..Len(file)
  BY DEF IndInv, TypeOK
<1>2. PICK n \in synced..Len(file) : \E damaged \in SUBSET ((synced + 1)..n) :
         file' = Damaged(file, n, damaged)
  BY DEF PowerLoss
<1>3. PICK damaged \in SUBSET ((synced + 1)..n) : file' = Damaged(file, n, damaged)
  BY <1>2
<1>4. /\ Len(file') = n
      /\ \A p \in 1..n : file'[p].t = "foot" => file'[p] = file[p]
      /\ \A p \in 1..n : IsCommit(file', p) => IsCommit(file, p)
      /\ \A p \in Footers(file') : p \in Footers(file)
      /\ \A p \in Footers(file) : p <= synced => p \in Footers(file')
  BY <1>1, <1>3, DamageKeeps
<1>5. /\ synced' = n /\ acked' = acked
      /\ pc' = [w \in Writers |-> "idle"]
  BY <1>4 DEF PowerLoss
<1>6. \A q \in Footers(file') :
         IsCommit(file', q) => IsCommit(file, q) /\ file'[q] = file[q]
  <2>1. \A q \in Footers(file') : q \in 1..n
    BY <1>4 DEF Footers
  <2> QED BY <2>1, <1>4 DEF IsCommit
<1>7. \A q \in acked : q \in Footers(file') /\ q <= synced'
  <2>1. \A q \in acked : q \in Footers(file')
    BY <1>4 DEF HistoryInv, AckedDurable
  <2>2. \A q \in Footers(file') : q <= n
    BY <1>4 DEF Footers
  <2> QED BY <2>1, <2>2, <1>5
<1>8. LinearHistory' /\ AckedDurable'
  BY <1>4, <1>5, <1>6, <1>7, SameFooters
<1>9. SoleWriter'
  BY <1>5 DEF SoleWriter, HistoryInv
<1> QED BY <1>8, <1>9 DEF HistoryInv

LEMMA NextHistory ==
    ASSUME Granted, IndInv, HistoryInv, [Next]_vars
    PROVE  HistoryInv'
<1>1. ASSUME NEW w \in Writers, Mutation(w) PROVE HistoryInv'
  <2>1. CASE \E p \in Paths : AppendDelete(w, p)
    BY <2>1, BeginHistory DEF AppendDelete
  <2>2. CASE \E p, q \in Paths : AppendRename(w, p, q)
    BY <2>2, BeginHistory DEF AppendRename
  <2>3. CASE \E p \in Paths, parts \in Parts : AppendUpdate(w, p, parts)
    BY <2>3, BeginHistory DEF AppendUpdate
  <2>4. CASE PlanUpdate(w)
    BY <2>4, PlanHistory
  <2>5. CASE WriteRecords(w)
    BY <2>5, RecordsHistory
  <2>6. CASE WritePayload(w)
    BY <2>6, PayloadHistory
  <2>7. CASE Flush(w)
    BY <2>7, FlushHistory
  <2>8. CASE WriteFooter(w)
    BY <2>8, FooterHistory
  <2>9. CASE Acknowledge(w)
    BY <2>9, AcknowledgeHistory
  <2> QED BY <1>1, <2>1, <2>2, <2>3, <2>4, <2>5, <2>6, <2>7, <2>8, <2>9 DEF Mutation
<1>2. ASSUME NEW w \in Writers, Kill(w) PROVE HistoryInv'
  BY <1>2, KillHistory
<1>3. CASE PowerLoss
  BY <1>3, PowerLossHistory
<1>4. CASE UNCHANGED vars
  <2>1. file' = file /\ synced' = synced /\ pc' = pc /\ job' = job /\ acked' = acked
    BY <1>4 DEF vars
  <2> QED BY <2>1 DEF HistoryInv, SoleWriter, LinearHistory, AckedDurable
<1> QED BY <1>1, <1>2, <1>3, <1>4 DEF Next

-----------------------------------------------------------------------------
(* The theorems.                                                           *)

\* Under what Granted lists, the stronger invariant holds throughout.
THEOREM History == ASSUME Granted PROVE Spec => []HistoryInv
<1>1. Init => HistoryInv
  BY InitHistory
<1>2. IndInv /\ HistoryInv /\ [Next]_vars => HistoryInv'
  BY NextHistory
<1>3. Spec => []IndInv
  BY Invariance
<1> QED BY <1>1, <1>2, <1>3, PTL DEF Spec

\* An acknowledged update, delete or rename survives every later crash, kill and
\* mutation: its footer stays synced and accepted.
THEOREM AcknowledgedIsDurable == ASSUME Granted PROVE Spec => []AckedDurable
<1>1. HistoryInv => AckedDurable
  BY DEF HistoryInv
<1> QED BY <1>1, History, PTL

\* The accepted footers form one chain in file order: none bypasses an earlier.
THEOREM HistoryIsLinear == ASSUME Granted PROVE Spec => []LinearHistory
<1>1. HistoryInv => LinearHistory
  BY DEF HistoryInv
<1> QED BY <1>1, History, PTL

-----------------------------------------------------------------------------
(* The records of an index, and the store.                                 *)

\* A blob record lies at p.
Record(f, p) == p \in 1..Len(f) /\ f[p].t = "blob"

\* Rows name entries of the blob table.
InTable(view) ==
    \A p \in Paths : \A i \in DOMAIN view.rows[p] : view.rows[p][i] \in DOMAIN view.blobs

\* An index whose records no power loss can take.
Secured(view) ==
    /\ InTable(view)
    /\ \A i \in DOMAIN view.blobs : view.blobs[i] <= synced /\ Record(file, view.blobs[i])

\* Where its records are while the mutation is at a step: new ones come next in the
\* file, then they are in it, and durable once the footer may be written.
Placed(w) ==
    LET v == Planned(job[w])
    IN  /\ InTable(v)
        /\ \A i \in DOMAIN v.blobs :
              \/ /\ Record(file, v.blobs[i])
                 /\ pc[w] = "footer" => v.blobs[i] <= synced
              \/ /\ pc[w] = "records"
                 /\ \E k \in DOMAIN job[w].new : v.blobs[i] = Len(file) + k

RefsInv ==
    /\ \A q \in Footers(file) : Secured(WalkAt(file, q).view)
    /\ \A w \in Writers : pc[w] = "plan" => Secured(job[w].view)
    /\ \A w \in Writers : pc[w] \in {"records", "payload", "flush", "footer"} => Placed(w)

-----------------------------------------------------------------------------
(* Replaying and planning.                                                 *)

LEMMA ReplayInTable ==
    ASSUME NEW view \in Views, NEW delta \in Deltas, InTable(view),
           delta.op.tag = "put" => \A i \in DOMAIN delta.op.refs :
               delta.op.refs[i] \in 1..(Len(view.blobs) + Len(delta.blobs))
    PROVE  /\ InTable(Replay(view, delta))
           /\ Replay(view, delta).blobs = view.blobs \o delta.blobs
<1>1. PICK op \in Ops : op = delta.op
  BY DEF Deltas
<1>2. PICK rows \in [Paths -> Seq(Nat)] : rows = view.rows
  BY DEF Views
<1>3. view.blobs \in Seq(Nat) /\ delta.blobs \in Seq(Nat)
  BY DEF Views, Deltas
<1> DEFINE n == Len(view.blobs)
           m == Len(delta.blobs)
           blobs == view.blobs \o delta.blobs
<1>4. n \in Nat /\ m \in Nat /\ DOMAIN view.blobs = 1..n /\ DOMAIN blobs = 1..(n + m)
  BY <1>3
<1> HIDE DEF n, m, blobs
<1>5. \A p \in Paths : \A i \in DOMAIN rows[p] : rows[p][i] \in 1..(n + m)
  <2>1. \A p \in Paths : \A i \in DOMAIN rows[p] : rows[p][i] \in 1..n
    BY <1>2, <1>4 DEF InTable
  <2>2. \A k \in 1..n : k \in 1..(n + m)
    BY <1>4
  <2> QED BY <2>1, <2>2
<1> DEFINE new == RowsAfter(rows, op)
<1>6. op.tag \in {"put", "del", "ren"} /\ op.path \in Paths
      /\ (op.tag = "ren" => op.new \in Paths)
  BY DEF Ops
<1>7. op.tag = "put" => \A i \in DOMAIN op.refs : op.refs[i] \in 1..(n + m)
  BY <1>1 DEF n, m
<1>8. \A p \in Paths : \A i \in DOMAIN new[p] : new[p][i] \in 1..(n + m)
  <2>1. CASE op.tag = "put"
    <3>1. new = [rows EXCEPT ![op.path] = op.refs]
      BY <2>1 DEF RowsAfter
    <3> QED BY <3>1, <2>1, <1>5, <1>6, <1>7
  <2>2. CASE op.tag = "del"
    <3>1. new = [rows EXCEPT ![op.path] = << >>]
      BY <2>2 DEF RowsAfter
    <3>2. DOMAIN << >> = {}
      OBVIOUS
    <3> QED BY <3>1, <3>2, <1>5, <1>6
  <2>3. CASE op.tag = "ren"
    <3>1. new = [rows EXCEPT ![op.path] = << >>, ![op.new] = rows[op.path]]
      BY <2>3 DEF RowsAfter
    <3>2. DOMAIN << >> = {}
      OBVIOUS
    <3>3. \A p \in Paths : new[p] = << >> \/ new[p] = rows[p] \/ new[p] = rows[op.path]
      BY <3>1, <1>6, <2>3
    <3> QED BY <3>2, <3>3, <1>5, <1>6
  <2> QED BY <2>1, <2>2, <2>3, <1>6
<1>9. Replay(view, delta).rows = new /\ Replay(view, delta).blobs = blobs
  BY <1>1, <1>2 DEF Replay, blobs
<1> QED BY <1>4, <1>8, <1>9 DEF InTable, blobs

\* Delta or checkpoint, what is committed is the delta replayed on the index read.
LEMMA PlannedIsReplayed ==
    ASSUME NEW view \in Views, NEW depth \in Nat, NEW delta \in Deltas, NEW j,
           j.view = view, j.gen = GenerationOf(view, depth, delta)
    PROVE  Planned(j) = Replay(view, delta)
<1>1. delta.kind = "delta"
  BY DEF Deltas
<1>2. CASE depth >= MaxDepth
  BY <1>2 DEF GenerationOf, Planned
<1>3. CASE ~(depth >= MaxDepth)
  BY <1>1, <1>3 DEF GenerationOf, Planned
<1> QED BY <1>2, <1>3

-----------------------------------------------------------------------------
(* Steps.                                                                  *)

\* What is secured stays secured while the synced prefix stays.
LEMMA StaysSecured ==
    ASSUME TypeOK, synced' >= synced, synced' \in Nat,
           \A p \in 1..synced : p \in 1..Len(file') /\ file'[p] = file[p],
           NEW view, Secured(view), view.blobs \in Seq(Nat)
    PROVE  Secured(view)'
<1>1. synced \in Nat
  BY DEF TypeOK
<1>2. SUFFICES ASSUME NEW i \in DOMAIN view.blobs
               PROVE  view.blobs[i] <= synced' /\ Record(file', view.blobs[i])
  BY DEF Secured, InTable
<1>3. /\ view.blobs[i] \in Nat /\ view.blobs[i] <= synced
      /\ view.blobs[i] \in 1..Len(file) /\ file[view.blobs[i]].t = "blob"
  BY DEF Secured, Record
<1>4. view.blobs[i] \in 1..synced
  BY <1>1, <1>3
<1> QED BY <1>1, <1>3, <1>4 DEF Record

\* The indexes of footers that stay are still secured.
LEMMA FootersStaySecured ==
    ASSUME TypeOK, RefsInv, synced' >= synced, synced' \in Nat,
           \A p \in 1..synced : p \in 1..Len(file') /\ file'[p] = file[p],
           NEW q \in Footers(file), WalkAt(file', q) = WalkAt(file, q)
    PROVE  Secured(WalkAt(file, q).view)'
<1>1. Secured(WalkAt(file, q).view)
  BY DEF RefsInv
<1>2. WalkAt(file, q).view.blobs \in Seq(Nat)
  <2>1. file \in Seq(Cells)
    BY DEF TypeOK
  <2>2. WalkAt(file, q) \in Walks
    BY <2>1, WalkAtType
  <2> QED BY <2>2 DEF Walks, Views
<1>3. PICK view : view = WalkAt(file, q).view
  OBVIOUS
<1>4. Secured(view)'
  BY <1>1, <1>2, <1>3, StaysSecured
<1> QED BY <1>3, <1>4 DEF Secured, InTable

\* A step of the one active writer w keeps RefsInv when it keeps what RefsInv says
\* of w and of the footers.
LEMMA RefsStep ==
    ASSUME TypeOK, NEW w \in Writers, NEW step \in Steps,
           \A v \in Writers : v # w => pc[v] = "idle",
           pc' = [pc EXCEPT ![w] = step],
           \A q \in Footers(file)' : Secured(WalkAt(file, q).view)',
           step = "plan" => Secured(job[w].view)',
           step \in {"records", "payload", "flush", "footer"} => Placed(w)'
    PROVE  RefsInv'
<1>1. pc'[w] = step /\ \A v \in Writers : v # w => pc'[v] = "idle"
  BY DEF TypeOK
<1> QED BY <1>1 DEF RefsInv

\* An open, of which there is a footer to find, yields a secured index.
LEMMA OpenedSecured ==
    ASSUME Granted, IndInv, HistoryInv, RefsInv
    PROVE  LET o == Opened(file)
           IN  o.view \in Views /\ o.depth \in Nat /\ Secured(o.view)
<1>1. TypeOK /\ Footers(file) # {}
  BY DEF IndInv, HistoryInv, SoleWriter, AckedDurable
<1>2. PICK o : o = Opened(file)
  OBVIOUS
<1>3. /\ o.pos \in Footers(file) /\ WalkAt(file, o.pos).view = o.view
      /\ o.view \in Views /\ o.depth \in Nat
  BY <1>1, <1>2, OpenedType
<1>4. Secured(WalkAt(file, o.pos).view)
  BY <1>3 DEF RefsInv
<1> QED BY <1>2, <1>3, <1>4

\* What the footers say of a file that does not change.
LEMMA SameFile ==
    ASSUME RefsInv, file' = file, synced' = synced
    PROVE  \A q \in Footers(file)' : Secured(WalkAt(file, q).view)'
BY DEF RefsInv, Secured, InTable

LEMMA UpdateRefs ==
    ASSUME Granted, IndInv, HistoryInv, RefsInv, NEW w \in Writers, MayStart(w),
           NEW put, Begin(w, "plan", put, NoGeneration)
    PROVE  RefsInv'
<1>1. TypeOK /\ \A v \in Writers : pc[v] = "idle"
  BY DEF IndInv, MayStart, Granted
<1>2. /\ file' = file /\ synced' = synced /\ pc' = [pc EXCEPT ![w] = "plan"]
      /\ job'[w].view = Opened(file).view
  BY <1>1 DEF Begin, TypeOK
<1>3. Secured(job[w].view)'
  <2>1. Secured(Opened(file).view)
    BY OpenedSecured
  <2> QED BY <1>2, <2>1 DEF Secured, InTable
<1>4. "plan" \in Steps
  BY DEF Steps
<1> QED BY <1>1, <1>2, <1>3, <1>4, SameFile, RefsStep

\* A delete or a rename brings no record.
LEMMA RowRefs ==
    ASSUME Granted, IndInv, HistoryInv, RefsInv, NEW w \in Writers, MayStart(w),
           NEW op \in Ops, op.tag # "put",
           Begin(w, "payload", << >>,
                 GenerationOf(Opened(file).view, Opened(file).depth, RowDelta(op)))
    PROVE  RefsInv'
<1>1. TypeOK /\ \A v \in Writers : pc[v] = "idle"
  BY DEF IndInv, MayStart, Granted
<1>2. PICK o : o = Opened(file)
  OBVIOUS
<1>3. o.view \in Views /\ o.depth \in Nat /\ Secured(o.view)
  BY <1>2, OpenedSecured
<1>4. /\ file' = file /\ synced' = synced /\ pc' = [pc EXCEPT ![w] = "payload"]
      /\ job'[w].view = o.view
      /\ job'[w].gen = GenerationOf(o.view, o.depth, RowDelta(op))
  BY <1>1, <1>2 DEF Begin, TypeOK
<1> DEFINE v == Replay(o.view, RowDelta(op))
<1>5. RowDelta(op) \in Deltas /\ RowDelta(op).op = op /\ RowDelta(op).blobs = << >>
  BY DEF RowDelta, Deltas
<1>6. Planned(job'[w]) = v
  BY <1>3, <1>4, <1>5, PlannedIsReplayed
<1>7. InTable(v) /\ v.blobs = o.view.blobs
  <2>1. InTable(v) /\ v.blobs = o.view.blobs \o << >>
    BY <1>3, <1>5, ReplayInTable DEF Secured
  <2>2. o.view.blobs \in Seq(Nat)
    BY <1>3 DEF Views
  <2> HIDE DEF v
  <2> QED BY <2>1, <2>2
<1> HIDE DEF v
<1>8. pc'[w] = "payload" /\ "payload" \in Steps
  BY <1>1, <1>4 DEF TypeOK, Steps
<1>9. Placed(w)'
  <2>1. \A i \in DOMAIN v.blobs : Record(file', v.blobs[i])
    BY <1>3, <1>4, <1>7 DEF Secured
  <2> QED BY <2>1, <1>6, <1>7, <1>8 DEF Placed, InTable
<1> QED BY <1>1, <1>4, <1>8, <1>9, SameFile, RefsStep

LEMMA DeleteRefs ==
    ASSUME Granted, IndInv, HistoryInv, RefsInv, NEW w \in Writers, NEW p \in Paths,
           AppendDelete(w, p)
    PROVE  RefsInv'
<1> DEFINE op == [tag |-> "del", path |-> p]
<1>1. op \in Ops /\ op.tag # "put"
  BY DEF Ops
<1>2. MayStart(w) /\ Begin(w, "payload", << >>,
            GenerationOf(Opened(file).view, Opened(file).depth, RowDelta(op)))
  BY DEF AppendDelete
<1> HIDE DEF op
<1> QED BY <1>1, <1>2, RowRefs

LEMMA RenameRefs ==
    ASSUME Granted, IndInv, HistoryInv, RefsInv, NEW w \in Writers, NEW p \in Paths,
           NEW q \in Paths, AppendRename(w, p, q)
    PROVE  RefsInv'
<1> DEFINE op == [tag |-> "ren", path |-> p, new |-> q]
<1>1. op \in Ops /\ op.tag # "put"
  BY DEF Ops
<1>2. MayStart(w) /\ Begin(w, "payload", << >>,
            GenerationOf(Opened(file).view, Opened(file).depth, RowDelta(op)))
  BY DEF AppendRename
<1> HIDE DEF op
<1> QED BY <1>1, <1>2, RowRefs

\* What append_update plans: each part refers to a record that holds it already or
\* to a new one, and the new ones get the offsets right behind the file.
LEMMA UpdatePlanned ==
    ASSUME IndInv, NEW w \in Writers, PlanUpdate(w)
    PROVE  LET j == job[w]
               L == Len(j.view.blobs)
           IN  \E new \in Seq(Contents), refs \in Seq(Nat), offsets \in Seq(Nat), delta \in Deltas :
                 /\ j.put[1] \in Paths /\ j.put[2] \in Parts /\ j.put[2] \in Seq(Contents)
                 /\ delta.op = [tag |-> "put", path |-> j.put[1], refs |-> refs]
                 /\ delta.blobs = offsets
                 /\ DOMAIN refs = DOMAIN j.put[2]
                 /\ \A i \in DOMAIN refs :
                       \/ refs[i] \in 1..L /\ ContentAt(file, j.view.blobs[refs[i]]) = j.put[2][i]
                       \/ \E k \in 1..Len(new) : refs[i] = L + k /\ new[k] = j.put[2][i]
                 /\ Len(offsets) = Len(new)
                 /\ \A k \in 1..Len(new) : offsets[k] = Len(file) + k
                 /\ job'[w].view = j.view /\ job'[w].new = new
                 /\ job'[w].gen = GenerationOf(j.view, j.depth, delta)
                 /\ pc' = [pc EXCEPT ![w] = IF new = << >> THEN "payload" ELSE "records"]
<1> DEFINE j == job[w]
           L == Len(j.view.blobs)
           path == j.put[1]
           parts == j.put[2]
           fresh == {c \in {parts[i] : i \in DOMAIN parts} : Stored(j.view, c) = {}}
           refs(new) == [i \in DOMAIN parts |-> RefTo(j.view, new, parts[i])]
           delta(new) == [kind  |-> "delta",
                          blobs |-> [i \in DOMAIN new |-> RecordOffset(i)],
                          op    |-> [tag |-> "put", path |-> path, refs |-> refs(new)]]
           gen(new) == GenerationOf(j.view, j.depth, delta(new))
<1>1. TypeOK /\ JobSound /\ pc[w] = "plan"
  BY DEF IndInv, PlanUpdate
<1>a. PICK n \in 0..Len(parts) : \E new \in [1..n -> fresh] :
         /\ fresh = {new[i] : i \in DOMAIN new}
         /\ job' = [job EXCEPT ![w].new = new, ![w].gen = gen(new)]
         /\ pc' = [pc EXCEPT ![w] = IF new = << >> THEN "payload" ELSE "records"]
  BY DEF PlanUpdate
<1>2. PICK new \in [1..n -> fresh] :
         /\ fresh = {new[i] : i \in DOMAIN new}
         /\ job' = [job EXCEPT ![w].new = new, ![w].gen = gen(new)]
         /\ pc' = [pc EXCEPT ![w] = IF new = << >> THEN "payload" ELSE "records"]
  BY <1>a
<1>3. j \in Jobs /\ path \in Paths /\ parts \in Parts /\ parts \in Seq(Contents)
  BY <1>1, JournalAssumption DEF TypeOK, JobSound, Jobs
<1>4. j.view.blobs \in Seq(Nat) /\ L \in Nat
  BY <1>3 DEF Jobs, Views
<1>5. n \in Nat /\ DOMAIN new = 1..n /\ Len(file) \in Nat
  BY <1>1, <1>2, <1>3 DEF TypeOK
<1>6. new \in Seq(Contents) /\ Len(new) = n
  <2>1. \A c \in fresh : c \in Contents
    BY <1>3
  <2>2. new \in [1..n -> Contents]
    BY <2>1, <1>2
  <2> QED BY <2>2, <1>5
<1>7. ASSUME NEW i \in DOMAIN parts
      PROVE  \/ /\ RefTo(j.view, new, parts[i]) \in 1..L
                /\ ContentAt(file, j.view.blobs[RefTo(j.view, new, parts[i])]) = parts[i]
             \/ \E k \in 1..n : RefTo(j.view, new, parts[i]) = L + k /\ new[k] = parts[i]
  <2> DEFINE c == parts[i]
  <2>1. CASE Stored(j.view, c) # {}
    <3>1. Stored(j.view, c) \in SUBSET (0..L)
      BY <1>4 DEF Stored
    <3>2. Min(Stored(j.view, c)) \in Stored(j.view, c)
      BY <2>1, <3>1, <1>4, MinIsSmallest
    <3>3. RefTo(j.view, new, c) = Min(Stored(j.view, c))
      BY <2>1 DEF RefTo
    <3> QED BY <3>2, <3>3 DEF Stored
  <2>2. CASE Stored(j.view, c) = {}
    <3>1. c \in {new[k] : k \in DOMAIN new}
      BY <2>2, <1>2
    <3>2. PICK m : m = CHOOSE k \in DOMAIN new : new[k] = c
      OBVIOUS
    <3>3. m \in 1..n /\ new[m] = c
      BY <3>1, <3>2, <1>5
    <3>4. RefTo(j.view, new, c) = L + CHOOSE k \in DOMAIN new : new[k] = c
      BY <2>2, Zenon DEF RefTo
    <3> QED BY <3>2, <3>3, <3>4
  <2> QED BY <2>1, <2>2
<1>8. refs(new) \in Seq(Nat) /\ DOMAIN refs(new) = DOMAIN parts
  <2>1. DOMAIN parts = 1..Len(parts) /\ Len(parts) \in Nat
    BY <1>3
  <2>2. \A i \in 1..Len(parts) : RefTo(j.view, new, parts[i]) \in Nat
    <3>1. PICK l \in Nat : l = L
      BY <1>4
    <3>2. (\A k \in 1..l : k \in Nat) /\ \A k \in 1..n : l + k \in Nat
      BY <1>5
    <3> QED BY <1>7, <2>1, <3>1, <3>2
  <2> QED BY <2>1, <2>2
<1> DEFINE offsets == [i \in DOMAIN new |-> RecordOffset(i)]
<1>9. /\ offsets \in Seq(Nat) /\ Len(offsets) = n
      /\ \A i \in 1..n : offsets[i] = Len(file) + i
  BY <1>5 DEF RecordOffset
<1>10. /\ delta(new) \in Deltas /\ delta(new).blobs = offsets
       /\ delta(new).op = [tag |-> "put", path |-> path, refs |-> refs(new)]
  <2> HIDE DEF refs
  <2>1. /\ delta(new).op = [tag |-> "put", path |-> path, refs |-> refs(new)]
        /\ delta(new).blobs = offsets
    OBVIOUS
  <2>2. delta(new) \in Deltas
    <3> HIDE DEF offsets
    <3> QED BY <1>3, <1>8, <1>9 DEF Deltas, Ops, offsets
  <2> QED BY <2>1, <2>2
<1>11. \A i \in DOMAIN refs(new) :
          \/ refs(new)[i] \in 1..L /\ ContentAt(file, j.view.blobs[refs(new)[i]]) = parts[i]
          \/ \E k \in 1..n : refs(new)[i] = L + k /\ new[k] = parts[i]
  BY <1>7
<1> HIDE DEF refs, delta, offsets, gen
<1>12. /\ job'[w].view = j.view /\ job'[w].new = new /\ job'[w].gen = gen(new)
       /\ pc' = [pc EXCEPT ![w] = IF new = << >> THEN "payload" ELSE "records"]
  BY <1>1, <1>2, <1>3 DEF TypeOK, Jobs
<1> HIDE DEF L
<1>13. \E r \in Seq(Nat), o \in Seq(Nat), d \in Deltas :
          /\ path \in Paths /\ parts \in Parts /\ parts \in Seq(Contents)
          /\ d.op = [tag |-> "put", path |-> path, refs |-> r]
          /\ d.blobs = o
          /\ DOMAIN r = DOMAIN parts
          /\ \A i \in DOMAIN r :
                \/ r[i] \in 1..L /\ ContentAt(file, j.view.blobs[r[i]]) = parts[i]
                \/ \E k \in 1..Len(new) : r[i] = L + k /\ new[k] = parts[i]
          /\ Len(o) = Len(new)
          /\ \A k \in 1..Len(new) : o[k] = Len(file) + k
          /\ job'[w].view = j.view /\ job'[w].new = new
          /\ job'[w].gen = GenerationOf(j.view, j.depth, d)
          /\ pc' = [pc EXCEPT ![w] = IF new = << >> THEN "payload" ELSE "records"]
  <2>1. PICK r \in Seq(Nat), o \in Seq(Nat), d \in Deltas :
           r = refs(new) /\ o = offsets /\ d = delta(new)
    BY <1>8, <1>9, <1>10
  <2>2. /\ job'[w].gen = GenerationOf(j.view, j.depth, d)
        /\ job'[w].view = j.view /\ job'[w].new = new
    BY <1>12, <2>1 DEF gen
  <2>3. \A i \in DOMAIN r :
           \/ r[i] \in 1..L /\ ContentAt(file, j.view.blobs[r[i]]) = parts[i]
           \/ \E k \in 1..Len(new) : r[i] = L + k /\ new[k] = parts[i]
    BY <1>6, <1>11, <2>1
  <2>4. /\ path \in Paths /\ parts \in Parts /\ parts \in Seq(Contents)
        /\ d.op = [tag |-> "put", path |-> path, refs |-> r]
        /\ d.blobs = o /\ DOMAIN r = DOMAIN parts
        /\ Len(o) = Len(new) /\ \A k \in 1..Len(new) : o[k] = Len(file) + k
        /\ pc' = [pc EXCEPT ![w] = IF new = << >> THEN "payload" ELSE "records"]
    BY <1>3, <1>6, <1>8, <1>9, <1>10, <1>12, <2>1
  <2> QED BY <2>2, <2>3, <2>4
<1> QED BY <1>6, <1>13 DEF L

\* Planned references lead to records that are there or to the new ones.
LEMMA PlanRefs ==
    ASSUME IndInv, HistoryInv, RefsInv, NEW w \in Writers, PlanUpdate(w)
    PROVE  RefsInv'
<1> DEFINE j == job[w]
           L == Len(j.view.blobs)
<1>1. TypeOK /\ pc[w] = "plan" /\ Secured(j.view)
  BY DEF IndInv, PlanUpdate, RefsInv
<1>2. PICK new \in Seq(Contents), refs \in Seq(Nat), offsets \in Seq(Nat), delta \in Deltas :
         /\ j.put[1] \in Paths /\ j.put[2] \in Parts /\ j.put[2] \in Seq(Contents)
         /\ delta.op = [tag |-> "put", path |-> j.put[1], refs |-> refs]
         /\ delta.blobs = offsets
         /\ DOMAIN refs = DOMAIN j.put[2]
         /\ \A i \in DOMAIN refs :
               \/ refs[i] \in 1..L /\ ContentAt(file, j.view.blobs[refs[i]]) = j.put[2][i]
               \/ \E k \in 1..Len(new) : refs[i] = L + k /\ new[k] = j.put[2][i]
         /\ Len(offsets) = Len(new)
         /\ \A k \in 1..Len(new) : offsets[k] = Len(file) + k
         /\ job'[w].view = j.view /\ job'[w].new = new
         /\ job'[w].gen = GenerationOf(j.view, j.depth, delta)
         /\ pc' = [pc EXCEPT ![w] = IF new = << >> THEN "payload" ELSE "records"]
  BY UpdatePlanned
<1>3. file' = file /\ synced' = synced
  BY DEF PlanUpdate
<1>4. j.view \in Views /\ j.depth \in Nat /\ j.view.blobs \in Seq(Nat) /\ L \in Nat
  BY <1>1 DEF TypeOK, Jobs, Views
<1> DEFINE n == Len(new)
           v == Replay(j.view, delta)
<1>5. n \in Nat /\ DOMAIN new = 1..n
  OBVIOUS
<1>6. \A i \in DOMAIN refs : refs[i] \in 1..(L + n)
  <2>1. PICK l \in Nat : l = L
    BY <1>4
  <2>2. PICK m \in Nat : m = n
    BY <1>5
  <2>3. (\A k \in 1..l : k \in 1..(l + m)) /\ \A k \in 1..m : l + k \in 1..(l + m)
    OBVIOUS
  <2> QED BY <2>1, <2>2, <2>3, <1>2
<1>7. InTable(v) /\ v.blobs = j.view.blobs \o offsets
  <2>1. delta.op.refs = refs /\ Len(delta.blobs) = n /\ InTable(j.view)
    BY <1>1, <1>2 DEF Secured
  <2>2. \A i \in DOMAIN delta.op.refs :
           delta.op.refs[i] \in 1..(Len(j.view.blobs) + Len(delta.blobs))
    BY <1>6, <2>1
  <2> QED BY <1>2, <1>4, <2>1, <2>2, ReplayInTable
<1>8. Planned(job'[w]) = v
  BY <1>2, <1>4, PlannedIsReplayed
<1> HIDE DEF v
<1>9. pc'[w] = IF new = << >> THEN "payload" ELSE "records"
  BY <1>1, <1>2 DEF TypeOK
<1>10. Placed(w)'
  <2>1. SUFFICES ASSUME NEW i \in DOMAIN v.blobs
                 PROVE  \/ Record(file, v.blobs[i])
                        \/ /\ pc'[w] = "records"
                           /\ \E k \in DOMAIN new : v.blobs[i] = Len(file) + k
    <3>1. pc'[w] # "footer"
      BY <1>9
    <3> QED BY <2>1, <3>1, <1>2, <1>3, <1>7, <1>8 DEF Placed, InTable
  <2>2. CASE i \in 1..L
    <3>1. v.blobs[i] = j.view.blobs[i]
      BY <1>4, <1>7, <2>2
    <3> QED BY <1>1, <1>4, <2>2, <3>1 DEF Secured
  <2>3. CASE i \notin 1..L
    <3>1. PICK k \in 1..n : i = L + k
      <4>1. i \in 1..(L + n) /\ i \notin 1..L
        BY <2>3, <1>2, <1>4, <1>7
      <4> HIDE DEF L, n
      <4>2. i - L \in 1..n /\ i = L + (i - L)
        BY <4>1, <1>4, <1>5
      <4> QED BY <4>2
    <3>2. v.blobs[i] = offsets[k]
      BY <1>2, <1>4, <1>7, <3>1
    <3>3. new # << >>
      BY <1>5, <3>1
    <3>4. k \in DOMAIN new /\ offsets[k] = Len(file) + k
      BY <3>1, <1>2, <1>5
    <3> QED BY <3>2, <3>3, <3>4, <1>9
  <2> QED BY <2>2, <2>3
<1>11. PICK step \in {"payload", "records"} : pc' = [pc EXCEPT ![w] = step]
  BY <1>2
<1>12. step \in Steps /\ step # "plan" /\ \A u \in Writers : u # w => pc[u] = "idle"
  BY <1>1, Alone DEF Steps
<1> QED BY <1>1, <1>3, <1>10, <1>11, <1>12, SameFile, RefsStep

\* Appending takes no record away, and no footer's index.
LEMMA AppendRefs ==
    ASSUME TypeOK, RefsInv, NEW out \in Seq(Cells), file' = file \o out, synced' = synced
    PROVE  /\ Len(file) \in Nat /\ Len(file') = Len(file) + Len(out)
           /\ \A p \in 1..Len(file) : file'[p] = file[p]
           /\ \A p : Record(file, p) => Record(file', p)
           /\ \A p \in Footers(file') : p \in 1..Len(file) =>
                 p \in Footers(file) /\ Secured(WalkAt(file, p).view)'
<1>1. file \in Seq(Cells) /\ Len(file) \in Nat /\ Len(out) \in Nat /\ synced \in 1..Len(file)
  BY DEF TypeOK
<1>2. /\ Len(file') = Len(file) + Len(out)
      /\ \A p \in 1..Len(file) : /\ file'[p] = file[p]
                                 /\ p \in Footers(file') <=> p \in Footers(file)
                                 /\ WalkAt(file', p) = WalkAt(file, p)
  BY <1>1, AppendKeeps
<1>3. \A p \in 1..Len(file) : p \in 1..Len(file')
  BY <1>1, <1>2
<1>4. \A p : Record(file, p) => Record(file', p)
  BY <1>2, <1>3 DEF Record
<1>5. \A p \in 1..synced : p \in 1..Len(file') /\ file'[p] = file[p]
  <2>1. \A p \in 1..synced : p \in 1..Len(file)
    BY <1>1
  <2> QED BY <2>1, <1>2, <1>3
<1>6. synced' >= synced /\ synced' \in Nat
  BY <1>1
<1>7. ASSUME NEW p \in Footers(file'), p \in 1..Len(file)
      PROVE  p \in Footers(file) /\ Secured(WalkAt(file, p).view)'
  <2>1. p \in Footers(file) /\ WalkAt(file', p) = WalkAt(file, p)
    BY <1>2, <1>7
  <2> QED BY <2>1, <1>5, <1>6, FootersStaySecured
<1> QED BY <1>1, <1>2, <1>4, <1>7

LEMMA RecordsRefs ==
    ASSUME Granted, IndInv, HistoryInv, RefsInv, NEW w \in Writers, WriteRecords(w)
    PROVE  RefsInv'
<1> DEFINE cells == [i \in DOMAIN job[w].new |-> Blob(job[w].new[i])]
<1>1. TypeOK /\ pc[w] = "records" /\ Placed(w)
  BY DEF IndInv, WriteRecords, RefsInv
<1>2. /\ file' = file \o cells /\ synced' = synced /\ job' = job /\ acked' = acked
      /\ pc' = [pc EXCEPT ![w] = "payload"]
  BY WholeWrite DEF WriteRecords
<1>3. /\ cells \in Seq(Cells) /\ Len(cells) \in Nat /\ DOMAIN job[w].new = 1..Len(cells)
      /\ \A i \in 1..Len(cells) : cells[i].t = "blob"
  <2>1. PICK new \in Seq(Contents) : new = job[w].new
    BY <1>1 DEF TypeOK, Jobs
  <2>2. \A i \in DOMAIN new : Blob(new[i]) \in Cells /\ Blob(new[i]).t = "blob"
    BY DEF Blob, Cells
  <2>3. DOMAIN new = 1..Len(new) /\ Len(new) \in Nat
    OBVIOUS
  <2> QED BY <2>1, <2>2, <2>3
<1> HIDE DEF cells
<1>4. /\ Footers(file)' = Footers(file) /\ Len(file) \in Nat
      /\ Len(file') = Len(file) + Len(cells)
      /\ \A p : Record(file, p) => Record(file', p)
      /\ \A p \in Footers(file)' : Secured(WalkAt(file, p).view)'
  <2>1. Footers(file)' = Footers(file)
    BY <1>1, <1>2, <1>3, AppendHistory
  <2>2. \A p \in Footers(file) : p \in 1..Len(file)
    BY DEF Footers
  <2> QED BY <2>1, <2>2, <1>1, <1>2, <1>3, AppendRefs
<1>5. ASSUME NEW k \in DOMAIN job[w].new PROVE Record(file', Len(file) + k)
  <2>1. k \in 1..Len(cells) /\ file \in Seq(Cells)
    BY <1>3, <1>1 DEF TypeOK
  <2>2. (file \o cells)[Len(file) + k] = cells[k]
    BY <2>1, <1>3
  <2>3. Len(file) + k \in 1..Len(file')
    BY <2>1, <1>3, <1>4
  <2> QED BY <2>1, <2>2, <2>3, <1>2, <1>3 DEF Record
<1>6. pc'[w] = "payload" /\ "payload" \in Steps
  BY <1>1, <1>2 DEF TypeOK, Steps
<1>7. Placed(w)'
  <2>1. Planned(job'[w]) = Planned(job[w])
    BY <1>2
  <2>2. InTable(Planned(job[w]))
    BY <1>1 DEF Placed
  <2>3. \A i \in DOMAIN Planned(job[w]).blobs : Record(file', Planned(job[w]).blobs[i])
    BY <1>1, <1>4, <1>5 DEF Placed
  <2> QED BY <2>1, <2>2, <2>3, <1>6 DEF Placed, InTable
<1>8. \A v \in Writers : v # w => pc[v] = "idle"
  BY <1>1, Alone
<1> QED BY <1>1, <1>2, <1>4, <1>6, <1>7, <1>8, RefsStep

LEMMA PayloadRefs ==
    ASSUME Granted, IndInv, HistoryInv, RefsInv, NEW w \in Writers, WritePayload(w)
    PROVE  RefsInv'
<1> DEFINE cells == << Payload(job[w].gen) >>
<1>1. TypeOK /\ pc[w] = "payload" /\ Placed(w)
  BY DEF IndInv, WritePayload, RefsInv
<1>2. /\ file' = file \o cells /\ synced' = synced /\ job' = job /\ acked' = acked
      /\ pc' = [pc EXCEPT ![w] = "flush"]
  BY WholeWrite DEF WritePayload
<1>3. cells \in Seq(Cells) /\ \A i \in 1..Len(cells) : cells[i].t # "foot"
  <2>1. job[w].gen \in Generations
    BY <1>1 DEF TypeOK, Jobs
  <2>2. Payload(job[w].gen) \in Cells /\ Payload(job[w].gen).t # "foot"
    BY <2>1 DEF Payload, Cells
  <2> QED BY <2>2
<1> HIDE DEF cells
<1>4. /\ \A p : Record(file, p) => Record(file', p)
      /\ \A p \in Footers(file)' : Secured(WalkAt(file, p).view)'
  <2>1. Footers(file)' = Footers(file)
    BY <1>1, <1>2, <1>3, AppendHistory
  <2>2. \A p \in Footers(file) : p \in 1..Len(file)
    BY DEF Footers
  <2> QED BY <2>1, <2>2, <1>1, <1>2, <1>3, AppendRefs
<1>5. pc'[w] = "flush" /\ "flush" \in Steps
  BY <1>1, <1>2 DEF TypeOK, Steps
<1>6. Placed(w)'
  <2>1. Planned(job'[w]) = Planned(job[w])
    BY <1>2
  <2>2. InTable(Planned(job[w]))
    BY <1>1 DEF Placed
  <2>3. \A i \in DOMAIN Planned(job[w]).blobs : Record(file', Planned(job[w]).blobs[i])
    BY <1>1, <1>4 DEF Placed
  <2> QED BY <2>1, <2>2, <2>3, <1>5 DEF Placed, InTable
<1>7. \A v \in Writers : v # w => pc[v] = "idle"
  BY <1>1, Alone
<1> QED BY <1>1, <1>2, <1>4, <1>5, <1>6, <1>7, RefsStep

\* The first fsync secures the records.
LEMMA FlushRefs ==
    ASSUME IndInv, HistoryInv, RefsInv, NEW w \in Writers, Flush(w)
    PROVE  RefsInv'
<1>1. TypeOK /\ pc[w] = "flush" /\ Placed(w)
  BY DEF IndInv, Flush, RefsInv
<1>2. /\ file' = file /\ synced' = Len(file) /\ job' = job
      /\ pc' = [pc EXCEPT ![w] = "footer"]
  BY DEF Flush
<1>3. synced \in 1..Len(file) /\ Len(file) \in Nat
  BY <1>1 DEF TypeOK
<1>4. \A p \in Footers(file)' : Secured(WalkAt(file, p).view)'
  <2>1. \A p \in 1..synced : p \in 1..Len(file') /\ file'[p] = file[p]
    BY <1>2, <1>3
  <2>2. synced' >= synced /\ synced' \in Nat
    BY <1>2, <1>3
  <2> QED BY <2>1, <2>2, <1>1, <1>2, FootersStaySecured
<1>5. pc'[w] = "footer" /\ "footer" \in Steps
  BY <1>1, <1>2 DEF TypeOK, Steps
<1>6. Placed(w)'
  <2>1. Planned(job'[w]) = Planned(job[w])
    BY <1>2
  <2>2. InTable(Planned(job[w]))
    BY <1>1 DEF Placed
  <2>3. \A i \in DOMAIN Planned(job[w]).blobs :
           /\ Record(file', Planned(job[w]).blobs[i])
           /\ Planned(job[w]).blobs[i] <= synced'
    BY <1>1, <1>2, <1>3 DEF Placed, Record
  <2> QED BY <2>1, <2>2, <2>3, <1>5 DEF Placed, InTable
<1>7. \A v \in Writers : v # w => pc[v] = "idle"
  BY <1>1, Alone
<1> QED BY <1>1, <1>2, <1>4, <1>5, <1>6, <1>7, RefsStep

\* The footer lands at the end, and its index is the planned one.
LEMMA FooterLands ==
    ASSUME Granted, IndInv, HistoryInv, NEW w \in Writers, WriteFooter(w)
    PROVE  \E cell \in Cells :
             /\ file' = file \o << cell >> /\ << cell >> \in Seq(Cells)
             /\ Len(file) \in Nat /\ Len(file') = Len(file) + 1
             /\ file'[Len(file) + 1] = cell /\ cell.t = "foot"
             /\ WalkAt(file', Len(file) + 1).view = Planned(job[w])
             /\ Planned(job[w]) \in Views
             /\ synced' = synced /\ pc' = [pc EXCEPT ![w] = "sync"]
             /\ job'[w].at = Len(file) + 1
<1> DEFINE N == Len(file)
           walk == WalkFrom(file, job[w].gen, job[w].prev)
           cell == Footer(job[w].gen, job[w].prev, walk)
<1>1. TypeOK /\ JobSound /\ pc[w] = "footer"
  BY DEF IndInv, WriteFooter
<1>2. /\ file' = file \o << cell >> /\ synced' = synced
      /\ pc' = [pc EXCEPT ![w] = "sync"]
      /\ job' = [job EXCEPT ![w].at = N + 1]
  BY WholeWrite DEF WriteFooter
<1>3. PICK j \in Jobs : j = job[w]
  BY <1>1 DEF TypeOK
<1>4. /\ file \in Seq(Cells) /\ N \in Nat /\ N >= 1
      /\ j.gen \in Generations /\ j.prev \in Nat /\ j.depth \in Nat
      /\ j.prev # 0 => /\ WalkAt(file, j.prev).depth = j.depth
                       /\ WalkAt(file, j.prev).view = j.view
      /\ j.gen.kind = "delta" => j.depth < MaxDepth
      /\ j.prev \in Footers(file)
  <2>1. file \in Seq(Cells) /\ N \in Nat /\ N >= 1
    BY <1>1 DEF TypeOK
  <2>2. j.gen \in Generations /\ j.prev \in Nat /\ j.depth \in Nat
    BY <1>3 DEF Jobs
  <2>3. /\ j.prev # 0 => /\ WalkAt(file, j.prev).depth = j.depth
                         /\ WalkAt(file, j.prev).view = j.view
        /\ j.gen.kind = "delta" => j.depth < MaxDepth
    BY <1>1, <1>3 DEF JobSound
  <2>4. j.prev \in Footers(file)
    BY <1>1, <1>3 DEF HistoryInv, SoleWriter
  <2> QED BY <2>1, <2>2, <2>3, <2>4
<1>5. walk.view = Planned(job[w]) /\ walk \in Walks
  <2>1. j.prev # 0
    BY <1>4 DEF Footers
  <2>2. walk \in Walks
    BY <1>3, <1>4, WalkFromType
  <2>3. walk.view = Planned(job[w])
    BY <1>3, <1>4, <2>1 DEF WalkFrom, Planned
  <2> QED BY <2>2, <2>3
<1> HIDE DEF walk
<1>6. cell \in Cells /\ cell.t = "foot" /\ cell.walk = walk
  BY <1>3, <1>4, <1>5 DEF Footer, Cells
<1> HIDE DEF cell
<1>7. Len(file') = N + 1 /\ file'[N + 1] = cell /\ << cell >> \in Seq(Cells)
  BY <1>2, <1>4, <1>6, AppendOne
<1>8. WalkAt(file', N + 1).view = Planned(job[w]) /\ Planned(job[w]) \in Views
  BY <1>5, <1>6, <1>7 DEF WalkAt, Walks
<1>9. job'[w].at = N + 1
  BY <1>1, <1>2 DEF TypeOK, Jobs
<1> QED BY <1>2, <1>4, <1>6, <1>7, <1>8, <1>9

\* The footer's index is the one whose records the first fsync secured.
LEMMA FooterRefs ==
    ASSUME Granted, IndInv, HistoryInv, RefsInv, NEW w \in Writers, WriteFooter(w)
    PROVE  RefsInv'
<1> DEFINE N == Len(file)
<1>1. TypeOK /\ pc[w] = "footer" /\ Placed(w)
  BY DEF IndInv, WriteFooter, RefsInv
<1>2. PICK cell \in Cells :
         /\ file' = file \o << cell >> /\ << cell >> \in Seq(Cells)
         /\ N \in Nat /\ Len(file') = N + 1
         /\ WalkAt(file', N + 1).view = Planned(job[w])
         /\ synced' = synced /\ pc' = [pc EXCEPT ![w] = "sync"]
  BY FooterLands
<1>3. /\ \A p : Record(file, p) => Record(file', p)
      /\ \A p \in Footers(file') : p \in 1..N =>
            p \in Footers(file) /\ Secured(WalkAt(file, p).view)'
  BY <1>1, <1>2, AppendRefs
<1>4. ASSUME NEW p, p = N + 1 PROVE Secured(WalkAt(file, p).view)'
  <2>1. PICK view : view = Planned(job[w])
    OBVIOUS
  <2>2. InTable(view)
    BY <1>1, <2>1 DEF Placed
  <2>3. \A i \in DOMAIN view.blobs : view.blobs[i] <= synced' /\ Record(file', view.blobs[i])
    BY <1>1, <1>2, <1>3, <2>1 DEF Placed
  <2>4. Secured(view)'
    BY <2>2, <2>3 DEF Secured, InTable
  <2> QED BY <1>2, <1>4, <2>1, <2>4 DEF Secured, InTable
<1>5. ASSUME NEW p \in Footers(file') PROVE Secured(WalkAt(file, p).view)'
  <2>1. p \in 1..N \/ p = N + 1
    BY <1>2 DEF Footers
  <2> QED BY <2>1, <1>3, <1>4
<1>6. "sync" \in Steps /\ \A v \in Writers : v # w => pc[v] = "idle"
  BY <1>1, Alone DEF Steps
<1> QED BY <1>1, <1>2, <1>5, <1>6, RefsStep

LEMMA AcknowledgeRefs ==
    ASSUME IndInv, HistoryInv, RefsInv, NEW w \in Writers, Acknowledge(w)
    PROVE  RefsInv'
<1>1. TypeOK /\ pc[w] = "sync"
  BY DEF IndInv, Acknowledge
<1>2. file' = file /\ synced' = Len(file) /\ pc' = [pc EXCEPT ![w] = "idle"]
  BY DEF Acknowledge
<1>3. synced \in 1..Len(file) /\ Len(file) \in Nat
  BY <1>1 DEF TypeOK
<1>4. \A q \in Footers(file)' : Secured(WalkAt(file, q).view)'
  <2>1. \A p \in 1..synced : p \in 1..Len(file') /\ file'[p] = file[p]
    BY <1>2, <1>3
  <2>2. synced' >= synced /\ synced' \in Nat
    BY <1>2, <1>3
  <2> QED BY <2>1, <2>2, <1>1, <1>2, FootersStaySecured
<1>5. "idle" \in Steps /\ \A v \in Writers : v # w => pc[v] = "idle"
  BY <1>1, Alone DEF Steps
<1> QED BY <1>1, <1>2, <1>4, <1>5, RefsStep

LEMMA KillRefs ==
    ASSUME IndInv, HistoryInv, RefsInv, NEW w \in Writers, Kill(w)
    PROVE  RefsInv'
<1>1. TypeOK /\ pc[w] # "idle"
  BY DEF IndInv, Kill
<1>2. file' = file /\ synced' = synced /\ pc' = [pc EXCEPT ![w] = "idle"]
  BY DEF Kill
<1>3. "idle" \in Steps /\ \A v \in Writers : v # w => pc[v] = "idle"
  BY <1>1, Alone DEF Steps
<1> QED BY <1>1, <1>2, <1>3, SameFile, RefsStep

\* A power loss spares the synced prefix, and the footers it leaves were there.
LEMMA PowerLossRefs ==
    ASSUME Granted, IndInv, HistoryInv, RefsInv, PowerLoss
    PROVE  RefsInv'
<1>1. /\ TypeOK
      /\ file \in Seq(Cells) /\ Len(file) \in Nat /\ synced \in 1..Len(file)
      /\ synced \in 0..Len(file)
  BY DEF IndInv, TypeOK
<1>2. PICK n \in synced..Len(file) : \E damaged \in SUBSET ((synced + 1)..n) :
         file' = Damaged(file, n, damaged)
  BY DEF PowerLoss
<1>3. PICK damaged \in SUBSET ((synced + 1)..n) : file' = Damaged(file, n, damaged)
  BY <1>2
<1>4. /\ Len(file') = n
      /\ \A q \in Footers(file') : q \in Footers(file) /\ WalkAt(file', q) = WalkAt(file, q)
  BY <1>1, <1>3, DamageKeeps
<1>5. synced' = n /\ pc' = [w \in Writers |-> "idle"] /\ n \in Nat /\ n >= synced
  BY <1>1, <1>4 DEF PowerLoss
<1>6. \A p \in 1..synced : p \in 1..Len(file') /\ file'[p] = file[p]
  <2>1. \A p \in 1..synced : p \in 1..n /\ p \notin damaged
    BY <1>1, <1>5
  <2> QED BY <2>1, <1>3, <1>4 DEF Damaged
<1>7. \A q \in Footers(file') : Secured(WalkAt(file, q).view)'
  BY <1>1, <1>4, <1>5, <1>6, FootersStaySecured
<1>8. \A w \in Writers : pc'[w] = "idle"
  BY <1>5
<1> QED BY <1>7, <1>8 DEF RefsInv

-----------------------------------------------------------------------------
(* The builder's archive.                                                  *)

\* What the builder left: the records right behind the header, and an index of
\* single-blob members at the only footer.
LEMMA BuiltFile ==
    ASSUME Granted, Init
    PROVE  \E blobs \in BaseBlobs, members \in SUBSET Paths :
           \E ref \in [members -> DOMAIN blobs] :
             LET n == Len(blobs)
             IN  /\ n \in Nat /\ Len(file) = n + 3 /\ DOMAIN blobs = 1..n
                 /\ \A i \in 1..n : file[i + 1] = Blob(blobs[i])
                 /\ \A q \in Footers(file) : q = n + 3
                 /\ WalkAt(file, n + 3).view =
                      [members |-> members,
                       rows    |-> [p \in Paths |-> IF p \in members THEN << ref[p] >> ELSE << >>],
                       blobs   |-> [i \in DOMAIN blobs |-> i + 1]]
<1> USE JournalAssumption
<1>1. PICK blobs \in BaseBlobs, members \in SUBSET Paths, tail \in BaseTails :
        \E ref \in [members -> DOMAIN blobs] :
           file = BaseFile([members |-> members,
                            rows    |-> [p \in Paths |-> IF p \in members THEN << ref[p] >>
                                                                        ELSE << >>],
                            blobs   |-> [i \in DOMAIN blobs |-> i + 1]],
                           blobs, tail)
  BY DEF Init
<1>2. PICK ref \in [members -> DOMAIN blobs] :
           file = BaseFile([members |-> members,
                            rows    |-> [p \in Paths |-> IF p \in members THEN << ref[p] >>
                                                                        ELSE << >>],
                            blobs   |-> [i \in DOMAIN blobs |-> i + 1]],
                           blobs, tail)
  BY <1>1
<1> DEFINE rows == [p \in Paths |-> IF p \in members THEN << ref[p] >> ELSE << >>]
           offsets == [i \in DOMAIN blobs |-> i + 1]
           view == [members |-> members, rows |-> rows, blobs |-> offsets]
           gen == [kind |-> "checkpoint", view |-> view]
           walk == [ok |-> TRUE, view |-> view, depth |-> 0]
           records == [i \in DOMAIN blobs |-> Blob(blobs[i])]
           n == Len(blobs)
<1>3. blobs \in Seq(Contents) /\ n \in Nat /\ DOMAIN blobs = 1..n
  OBVIOUS
<1>4. tail = "whole"
  BY DEF Granted
<1>5. file = << Header(view) >> \o records \o << Payload(gen) >> \o << Footer(gen, 0, walk) >>
  BY <1>2, <1>4 DEF BaseFile
<1>6. view.blobs = offsets /\ DOMAIN offsets = 1..n /\ \A i \in 1..n : offsets[i] = i + 1
  BY <1>3
<1>8. /\ Len(records) = n
      /\ \A i \in 1..n : records[i].t = "blob"
      /\ records \in Seq(Cells)
  BY <1>3 DEF Blob, Cells
<1>9. Footer(gen, 0, walk).t = "foot" /\ Footer(gen, 0, walk).walk = walk
      /\ Payload(gen).t = "gen" /\ Header(view).t = "head" /\ walk.view = view
  BY DEF Footer, Payload, Header
<1> DEFINE h == Header(view)
           g == Payload(gen)
           z == Footer(gen, 0, walk)
<1> HIDE DEF view, gen, walk, records, offsets
<1>10. z.t = "foot" /\ z.walk = walk /\ g.t = "gen" /\ h.t = "head"
  BY <1>9
<1>11. file = << h >> \o records \o << g >> \o << z >>
  BY <1>5
<1> HIDE DEF h, g, z, n
<1>12. /\ Len(file) = n + 3 /\ file[1] = h /\ file[n + 2] = g /\ file[n + 3] = z
       /\ \A i \in 1..n : file[i + 1] = records[i]
  <2> DEFINE C == Cells \cup {h, g, z}
             body == << h >> \o records
  <2>1. records \in Seq(C) /\ h \in C /\ g \in C /\ z \in C
    BY <1>8
  <2> HIDE DEF C
  <2>2. /\ body \in Seq(C) /\ Len(body) = n + 1 /\ body[1] = h
        /\ \A i \in 1..n : body[i + 1] = records[i]
    BY <2>1, <1>3, <1>8
  <2>3. file = (body \o << g >>) \o << z >>
    BY <1>11
  <2> HIDE DEF body
  <2>4. /\ Len(file) = n + 3 /\ file[n + 2] = g /\ file[n + 3] = z
        /\ \A i \in 1..(n + 1) : file[i] = body[i]
    <3> DEFINE mid == body \o << g >>
    <3>1. /\ mid \in Seq(C) /\ Len(mid) = n + 2 /\ mid[n + 2] = g
          /\ \A i \in 1..(n + 1) : mid[i] = body[i]
      <4>1. Len(mid) = (n + 1) + 1 /\ mid[(n + 1) + 1] = g
        <5>1. Len(mid) = Len(body) + 1 /\ mid[Len(body) + 1] = g
          BY <2>1, <2>2
        <5> QED BY <5>1, <2>2
      <4>2. \A i \in 1..(n + 1) : mid[i] = body[i]
        BY <2>1, <2>2, <1>3
      <4>3. mid \in Seq(C)
        BY <2>1, <2>2
      <4>4. (n + 1) + 1 = n + 2
        BY <1>3
      <4> QED BY <4>1, <4>2, <4>3, <4>4
    <3>2. file = mid \o << z >>
      BY <2>3
    <3> HIDE DEF mid
    <3>3. Len(file) = (n + 2) + 1 /\ file[(n + 2) + 1] = z
      BY <3>1, <3>2, <2>1, <1>3
    <3>4. \A i \in 1..(n + 2) : file[i] = mid[i]
      BY <3>1, <3>2, <2>1, <1>3
    <3>5. (n + 2) + 1 = n + 3 /\ n + 2 \in 1..(n + 2) /\ \A i \in 1..(n + 1) : i \in 1..(n + 2)
      BY <1>3
    <3> QED BY <3>1, <3>3, <3>4, <3>5
  <2>5. \A i \in 1..n : i + 1 \in 1..(n + 1)
    BY <1>3
  <2>6. 1 \in 1..(n + 1)
    BY <1>3
  <2> QED BY <2>2, <2>4, <2>5, <2>6
<1>16. \A q \in Footers(file) : q = n + 3
  <2>1. SUFFICES ASSUME NEW q \in Footers(file), q # n + 3 PROVE FALSE
    OBVIOUS
  <2>2. q \in 1..(n + 3) /\ file[q].t = "foot"
    BY <1>12, OnlyCommits DEF IsCommit
  <2>3. q = 1 \/ q = n + 2 \/ (q - 1 \in 1..n /\ q = (q - 1) + 1)
    BY <1>3, <2>1, <2>2
  <2> QED BY <2>2, <2>3, <1>8, <1>10, <1>12
<1>17. WalkAt(file, n + 3).view = view
  BY <1>9, <1>10, <1>12 DEF WalkAt
<1>18. /\ n \in Nat /\ Len(file) = n + 3
       /\ \A i \in 1..n : file[i + 1] = Blob(blobs[i])
  BY <1>3, <1>12 DEF records
<1> QED BY <1>3, <1>16, <1>17, <1>18 DEF view, offsets, n

\* The rows of a built archive name its records.
LEMMA InitRefs == Granted /\ Init => RefsInv
<1> SUFFICES ASSUME Granted, Init PROVE RefsInv
  OBVIOUS
<1>1. PICK blobs \in BaseBlobs, members \in SUBSET Paths :
           \E ref \in [members -> DOMAIN blobs] :
             LET n == Len(blobs)
             IN  /\ n \in Nat /\ Len(file) = n + 3 /\ DOMAIN blobs = 1..n
                 /\ \A i \in 1..n : file[i + 1] = Blob(blobs[i])
                 /\ \A q \in Footers(file) : q = n + 3
                 /\ WalkAt(file, n + 3).view =
                      [members |-> members,
                       rows    |-> [p \in Paths |-> IF p \in members THEN << ref[p] >> ELSE << >>],
                       blobs   |-> [i \in DOMAIN blobs |-> i + 1]]
  BY BuiltFile
<1> DEFINE n == Len(blobs)
<1>2. PICK ref \in [members -> DOMAIN blobs] :
         /\ n \in Nat /\ Len(file) = n + 3 /\ DOMAIN blobs = 1..n
         /\ \A i \in 1..n : file[i + 1] = Blob(blobs[i])
         /\ \A q \in Footers(file) : q = n + 3
         /\ WalkAt(file, n + 3).view =
              [members |-> members,
               rows    |-> [p \in Paths |-> IF p \in members THEN << ref[p] >> ELSE << >>],
               blobs   |-> [i \in DOMAIN blobs |-> i + 1]]
  BY <1>1
<1> DEFINE rows == [p \in Paths |-> IF p \in members THEN << ref[p] >> ELSE << >>]
           offsets == [i \in DOMAIN blobs |-> i + 1]
           view == [members |-> members, rows |-> rows, blobs |-> offsets]
<1>3. InTable(view)
  <2>1. SUFFICES ASSUME NEW p \in Paths, NEW i \in DOMAIN rows[p]
                 PROVE  rows[p][i] \in DOMAIN offsets
    BY DEF InTable
  <2>2. p \in members /\ rows[p] = << ref[p] >>
    BY <2>1
  <2>3. i = 1 /\ ref[p] \in DOMAIN blobs
    BY <2>1, <2>2
  <2> QED BY <2>2, <2>3
<1>4. \A i \in 1..n : i + 1 \in 1..Len(file) /\ i + 1 <= synced /\ file[i + 1].t = "blob"
  <2>1. synced = n + 3 /\ \A c : Blob(c).t = "blob"
    BY <1>2 DEF Init, Blob
  <2>2. \A i \in 1..n : i + 1 \in 1..(n + 3) /\ i + 1 <= n + 3
    BY <1>2
  <2> QED BY <2>1, <2>2, <1>2
<1>5. \A i \in DOMAIN offsets : offsets[i] <= synced /\ Record(file, offsets[i])
  BY <1>2, <1>4 DEF Record
<1>6. Secured(view)
  <2> HIDE DEF rows, offsets
  <2> QED BY <1>3, <1>5 DEF Secured
<1>7. \A q \in Footers(file) : WalkAt(file, q).view = view
  BY <1>2
<1> HIDE DEF view
<1>8. \A w \in Writers : pc[w] = "idle"
  BY DEF Init
<1> QED BY <1>6, <1>7, <1>8 DEF RefsInv

LEMMA NextRefs ==
    ASSUME Granted, IndInv, HistoryInv, RefsInv, [Next]_vars
    PROVE  RefsInv'
<1>1. ASSUME NEW w \in Writers, Mutation(w) PROVE RefsInv'
  <2>1. CASE \E p \in Paths : AppendDelete(w, p)
    BY <2>1, DeleteRefs
  <2>2. CASE \E p, q \in Paths : AppendRename(w, p, q)
    BY <2>2, RenameRefs
  <2>3. CASE \E p \in Paths, parts \in Parts : AppendUpdate(w, p, parts)
    BY <2>3, UpdateRefs DEF AppendUpdate
  <2>4. CASE PlanUpdate(w)
    BY <2>4, PlanRefs
  <2>5. CASE WriteRecords(w)
    BY <2>5, RecordsRefs
  <2>6. CASE WritePayload(w)
    BY <2>6, PayloadRefs
  <2>7. CASE Flush(w)
    BY <2>7, FlushRefs
  <2>8. CASE WriteFooter(w)
    BY <2>8, FooterRefs
  <2>9. CASE Acknowledge(w)
    BY <2>9, AcknowledgeRefs
  <2> QED BY <1>1, <2>1, <2>2, <2>3, <2>4, <2>5, <2>6, <2>7, <2>8, <2>9 DEF Mutation
<1>2. ASSUME NEW w \in Writers, Kill(w) PROVE RefsInv'
  BY <1>2, KillRefs
<1>3. CASE PowerLoss
  BY <1>3, PowerLossRefs
<1>4. CASE UNCHANGED vars
  <2>1. file' = file /\ synced' = synced /\ pc' = pc /\ job' = job
    BY <1>4 DEF vars
  <2> QED BY <2>1 DEF RefsInv, Secured, InTable, Placed
<1> QED BY <1>1, <1>2, <1>3, <1>4 DEF Next

-----------------------------------------------------------------------------
(* What an open shows.                                                     *)

\* The newest accepted footer is the one an open uses.
LEMMA NewestIsOpened ==
    ASSUME NEW f \in Seq(Cells), NEW q \in Footers(f), \A p \in Footers(f) : p <= q
    PROVE  Opened(f).pos = q /\ Opened(f).view = WalkAt(f, q).view
<1> DEFINE S == Footers(f)
<1>1. S \in SUBSET (0..Len(f)) /\ Len(f) \in Nat /\ S # {}
  BY DEF Footers
<1>2. Max(S) \in S /\ \A p \in S : p <= Max(S)
  BY <1>1, MaxIsLargest
<1>3. Max(S) = q
  <2>1. Max(S) <= q /\ q <= Max(S) /\ q \in Nat /\ Max(S) \in Nat
    BY <1>1, <1>2
  <2> QED BY <2>1
<1> QED BY <1>1, <1>3 DEF Opened

LEMMA TreeNowIs == ASSUME NEW f PROVE TreeNow(f) = TreeOf(f, Opened(f).view)
<1> DEFINE S == {TreeOf(f, v) : v \in {Opened(f).view}}
<1>1. TreeOf(f, Opened(f).view) \in S /\ \A t \in S : t = TreeOf(f, Opened(f).view)
  OBVIOUS
<1>2. (CHOOSE t \in S : TRUE) \in S
  BY <1>1, Zenon
<1> QED BY <1>1, <1>2 DEF TreeNow

\* A tree depends only on the records its index names.
LEMMA SameTree ==
    ASSUME NEW f, NEW g, NEW view \in Views, InTable(view),
           \A i \in DOMAIN view.blobs : ContentAt(g, view.blobs[i]) = ContentAt(f, view.blobs[i])
    PROVE  TreeOf(g, view) = TreeOf(f, view)
<1>1. view.members \subseteq Paths
  BY DEF Views
<1>2. \A p \in view.members : \A i \in DOMAIN view.rows[p] :
         ContentAt(g, view.blobs[view.rows[p][i]]) = ContentAt(f, view.blobs[view.rows[p][i]])
  BY <1>1 DEF InTable
<1> QED BY <1>2, Zenon DEF TreeOf

\* A file that keeps a record keeps its content.
LEMMA SameContent ==
    ASSUME NEW f, NEW g, NEW p, Record(f, p), p \in 1..Len(g), g[p] = f[p]
    PROVE  ContentAt(g, p) = ContentAt(f, p)
BY DEF Record, ContentAt

\* Two files that keep the same prefix, with the same newest footer whose records
\* lie in it, show the same tree.
LEMMA SameNow ==
    ASSUME NEW f \in Seq(Cells), NEW g \in Seq(Cells), NEW s \in Nat,
           \A p \in 1..s : p \in 1..Len(g) /\ g[p] = f[p],
           NEW q \in Footers(f), q \in Footers(g), WalkAt(g, q) = WalkAt(f, q),
           \A p \in Footers(f) : p <= q, \A p \in Footers(g) : p <= q,
           InTable(WalkAt(f, q).view),
           \A i \in DOMAIN WalkAt(f, q).view.blobs :
              /\ WalkAt(f, q).view.blobs[i] <= s
              /\ Record(f, WalkAt(f, q).view.blobs[i])
    PROVE  TreeNow(g) = TreeNow(f)
<1>1. PICK view \in Views : view = WalkAt(f, q).view
  BY WalkAtType DEF Walks
<1>2. Opened(f).view = view /\ Opened(g).view = view
  BY <1>1, NewestIsOpened
<1>3. ASSUME NEW i \in DOMAIN view.blobs
      PROVE  ContentAt(g, view.blobs[i]) = ContentAt(f, view.blobs[i])
  <2>1. Record(f, view.blobs[i]) /\ view.blobs[i] <= s
    BY <1>1
  <2>2. view.blobs[i] \in 1..s
    BY <2>1 DEF Record
  <2> QED BY <2>1, <2>2, SameContent
<1>4. TreeOf(g, view) = TreeOf(f, view)
  BY <1>1, <1>3, SameTree
<1> QED BY <1>2, <1>4, TreeNowIs

\* The synced prefix is a file of its own, with the footers that lie in it.
LEMMA SyncedPrefix ==
    ASSUME TypeOK
    PROVE  LET g == SubSeq(file, 1, synced)
           IN  /\ g \in Seq(Cells) /\ Len(g) = synced
               /\ \A p \in 1..synced : p \in 1..Len(file) /\ g[p] = file[p]
               /\ \A p : p \in Footers(g) <=> p \in Footers(file) /\ p <= synced
               /\ \A p \in Footers(g) : WalkAt(g, p) = WalkAt(file, p)
<1> DEFINE g == SubSeq(file, 1, synced)
<1>1. file \in Seq(Cells) /\ Len(file) \in Nat /\ synced \in 1..Len(file)
  BY DEF TypeOK
<1>2. g \in Seq(Cells) /\ Len(g) = synced /\ \A p \in 1..synced : g[p] = file[p]
  BY <1>1
<1>3. g = Damaged(file, synced, {})
  <2>1. g = [p \in 1..synced |-> file[p]]
    BY <1>1
  <2> QED BY <2>1 DEF Damaged
<1> HIDE DEF g
<1>4. /\ \A p \in Footers(g) : p \in Footers(file) /\ WalkAt(g, p) = WalkAt(file, p)
      /\ \A p \in Footers(file) : p <= synced => p \in Footers(g)
  <2>1. synced \in 0..Len(file) /\ synced \in synced..Len(file)
        /\ {} \in SUBSET ((synced + 1)..synced)
    BY <1>1
  <2> QED BY <1>1, <1>3, <2>1, DamageKeeps
<1>5. \A p \in Footers(g) : p <= synced
  BY <1>1, <1>2 DEF Footers
<1> QED BY <1>1, <1>2, <1>4, <1>5 DEF g

\* There is a footer in the synced prefix, and a newest one in the file.
LEMMA NewestExists ==
    ASSUME IndInv, HistoryInv
    PROVE  /\ \E q \in Footers(file) : q <= synced
           /\ \E q \in Footers(file) : \A p \in Footers(file) : p <= q
<1>1. \E q \in Footers(file) : q <= synced
  BY DEF HistoryInv, SoleWriter, AckedDurable
<1>2. Footers(file) \in SUBSET (0..Len(file)) /\ Len(file) \in Nat
  BY DEF Footers, IndInv, TypeOK
<1> QED BY <1>1, <1>2, MaxIsLargest

-----------------------------------------------------------------------------
(* Replaying an operation is doing it on the tree.                         *)

\* Replaying a delta that brings no record.
LEMMA RowReplay ==
    ASSUME NEW view \in Views, NEW op \in Ops
    PROVE  LET v == Replay(view, RowDelta(op))
           IN  /\ v.members = MembersAfter(view.members, op)
               /\ v.rows = RowsAfter(view.rows, op)
               /\ v.blobs = view.blobs
<1>1. view.blobs \in Seq(Nat)
  BY DEF Views
<1>2. view.blobs \o << >> = view.blobs
  BY <1>1
<1> QED BY <1>2 DEF Replay, RowDelta

\* A replayed delete cuts the member.
LEMMA CutTree ==
    ASSUME NEW f, NEW view \in Views, NEW p \in Paths
    PROVE  TreeOf(f, Replay(view, RowDelta([tag |-> "del", path |-> p])))
              = Store!Cut(TreeOf(f, view), p)
<1> DEFINE op == [tag |-> "del", path |-> p]
           v == Replay(view, RowDelta(op))
           t == TreeOf(f, view)
<1>1. op \in Ops
  BY DEF Ops
<1>2. PICK rows \in [Paths -> Seq(Nat)] : rows = view.rows
  BY DEF Views
<1>3. /\ v.members = view.members \ {p}
      /\ v.rows = [rows EXCEPT ![p] = << >>]
      /\ v.blobs = view.blobs /\ view.members \subseteq Paths
  BY <1>1, <1>2, RowReplay DEF MembersAfter, RowsAfter, Views
<1> HIDE DEF v
<1>4. \A q \in v.members : v.rows[q] = view.rows[q]
  BY <1>2, <1>3
<1>5. TreeOf(f, v) = [q \in view.members \ {p} |->
                        [i \in DOMAIN view.rows[q] |-> ContentAt(f, view.blobs[view.rows[q][i]])]]
  BY <1>3, <1>4 DEF TreeOf
<1>6. DOMAIN t = view.members
  BY DEF TreeOf
<1>7. \A q \in view.members :
         t[q] = [i \in DOMAIN view.rows[q] |-> ContentAt(f, view.blobs[view.rows[q][i]])]
  BY DEF TreeOf
<1> HIDE DEF t
<1>8. TreeOf(f, v) = Store!Cut(t, p)
  BY <1>5, <1>6, <1>7 DEF Store!Cut
<1> QED BY <1>8 DEF v, t

\* A replayed rename moves the member, with its row.
LEMMA MoveTree ==
    ASSUME NEW f, NEW view \in Views, NEW p \in view.members, NEW r \in Paths \ view.members
    PROVE  TreeOf(f, Replay(view, RowDelta([tag |-> "ren", path |-> p, new |-> r])))
              = Store!Put(Store!Cut(TreeOf(f, view), p), r, TreeOf(f, view)[p])
<1> DEFINE op == [tag |-> "ren", path |-> p, new |-> r]
           v == Replay(view, RowDelta(op))
           t == TreeOf(f, view)
           row(q) == [i \in DOMAIN view.rows[q] |-> ContentAt(f, view.blobs[view.rows[q][i]])]
<1>1. op \in Ops /\ p \in Paths /\ p # r
  BY DEF Ops, Views
<1>2. PICK rows \in [Paths -> Seq(Nat)] : rows = view.rows
  BY DEF Views
<1>3. /\ v.members = (view.members \ {p}) \cup {r}
      /\ v.rows = [rows EXCEPT ![p] = << >>, ![r] = rows[p]]
      /\ v.blobs = view.blobs /\ view.members \subseteq Paths
  BY <1>1, <1>2, RowReplay DEF MembersAfter, RowsAfter, Views
<1> HIDE DEF v
<1>4. \A q \in v.members : v.rows[q] = IF q = r THEN view.rows[p] ELSE view.rows[q]
  BY <1>1, <1>2, <1>3
<1>5. TreeOf(f, v) = [q \in v.members |->
                        [i \in DOMAIN v.rows[q] |-> ContentAt(f, view.blobs[v.rows[q][i]])]]
  BY <1>3 DEF TreeOf
<1>6. \A q \in v.members :
         [i \in DOMAIN v.rows[q] |-> ContentAt(f, view.blobs[v.rows[q][i]])]
            = IF q = r THEN row(p) ELSE row(q)
  BY <1>4
<1>7. DOMAIN t = view.members /\ \A q \in view.members : t[q] = row(q)
  BY DEF TreeOf
<1> HIDE DEF t, row
<1>8. TreeOf(f, v) = [q \in (view.members \ {p}) \cup {r} |-> IF q = r THEN row(p) ELSE row(q)]
  <2>1. TreeOf(f, v) = [q \in v.members |-> IF q = r THEN row(p) ELSE row(q)]
    BY <1>5, <1>6, Zenon
  <2> QED BY <2>1, <1>3
<1>9. DOMAIN Store!Cut(t, p) = view.members \ {p}
      /\ \A q \in view.members \ {p} : Store!Cut(t, p)[q] = row(q)
  BY <1>7 DEF Store!Cut
<1>10. PICK cut : cut = Store!Cut(t, p)
  OBVIOUS
<1>11. Store!Put(cut, r, t[p])
          = [q \in (view.members \ {p}) \cup {r} |-> IF q = r THEN row(p) ELSE row(q)]
  BY <1>7, <1>9, <1>10 DEF Store!Put
<1> QED BY <1>8, <1>10, <1>11 DEF v, t

\* A replayed update puts the member there with its parts.
LEMMA PutTree ==
    ASSUME NEW f, NEW g, NEW view \in Views, NEW delta \in Deltas, NEW parts \in Seq(Contents),
           InTable(view), delta.op.tag = "put", DOMAIN delta.op.refs = DOMAIN parts,
           \A i \in DOMAIN view.blobs : ContentAt(g, view.blobs[i]) = ContentAt(f, view.blobs[i]),
           \A i \in DOMAIN parts :
              ContentAt(g, Replay(view, delta).blobs[delta.op.refs[i]]) = parts[i]
    PROVE  TreeOf(g, Replay(view, delta)) = Store!Put(TreeOf(f, view), delta.op.path, parts)
<1> DEFINE p == delta.op.path
           refs == delta.op.refs
           blobs == view.blobs \o delta.blobs
           v == Replay(view, delta)
           t == TreeOf(f, view)
           row(q) == [i \in DOMAIN view.rows[q] |-> ContentAt(f, view.blobs[view.rows[q][i]])]
<1>a. p \in Paths
  BY DEF Deltas, Ops
<1>1. PICK rows \in [Paths -> Seq(Nat)] : rows = view.rows
  BY DEF Views
<1>2. /\ v.members = view.members \cup {p}
      /\ v.rows = [rows EXCEPT ![p] = refs]
      /\ v.blobs = blobs /\ view.members \subseteq Paths
  BY <1>1, <1>a DEF Replay, MembersAfter, RowsAfter, Views
<1>3. \A i \in DOMAIN view.blobs : blobs[i] = view.blobs[i]
  <2>1. PICK a \in Seq(Nat), b \in Seq(Nat) : a = view.blobs /\ b = delta.blobs
    BY DEF Views, Deltas
  <2>2. \A i \in DOMAIN a : (a \o b)[i] = a[i]
    OBVIOUS
  <2> QED BY <2>1, <2>2
<1>b. \A i \in DOMAIN parts : ContentAt(g, blobs[refs[i]]) = parts[i]
  BY <1>2
<1> HIDE DEF blobs, v, p, refs
<1>c. DOMAIN refs = DOMAIN parts
  BY DEF refs
<1>4. \A q \in v.members : v.rows[q] = IF q = p THEN refs ELSE view.rows[q]
  BY <1>1, <1>2, <1>a
<1>5. TreeOf(g, v) = [q \in v.members |->
                        [i \in DOMAIN v.rows[q] |-> ContentAt(g, blobs[v.rows[q][i]])]]
  BY <1>2 DEF TreeOf
<1>6. [i \in DOMAIN refs |-> ContentAt(g, blobs[refs[i]])] = parts
  <2>1. parts = [i \in DOMAIN refs |-> parts[i]]
    BY <1>c
  <2>2. \A i \in DOMAIN refs : ContentAt(g, blobs[refs[i]]) = parts[i]
    BY <1>b, <1>c
  <2> QED BY <2>1, <2>2
<1>7. ASSUME NEW q \in view.members
      PROVE  [i \in DOMAIN view.rows[q] |-> ContentAt(g, blobs[view.rows[q][i]])] = row(q)
  <2>1. \A i \in DOMAIN view.rows[q] : view.rows[q][i] \in DOMAIN view.blobs
    BY <1>2 DEF InTable
  <2>2. \A i \in DOMAIN view.rows[q] :
           ContentAt(g, blobs[view.rows[q][i]]) = ContentAt(f, view.blobs[view.rows[q][i]])
    BY <2>1, <1>3
  <2> QED BY <2>2
<1>8. DOMAIN t = view.members /\ \A q \in view.members : t[q] = row(q)
  BY DEF TreeOf
<1>9. \A q \in v.members :
         [i \in DOMAIN v.rows[q] |-> ContentAt(g, blobs[v.rows[q][i]])]
            = IF q = p THEN parts ELSE t[q]
  <2>1. SUFFICES ASSUME NEW q \in v.members
                 PROVE  [i \in DOMAIN v.rows[q] |-> ContentAt(g, blobs[v.rows[q][i]])]
                           = IF q = p THEN parts ELSE t[q]
    OBVIOUS
  <2>2. CASE q = p
    BY <2>1, <2>2, <1>4, <1>6
  <2>3. CASE q # p
    <3>1. v.rows[q] = view.rows[q] /\ q \in view.members
      BY <2>1, <2>3, <1>2, <1>4
    <3> HIDE DEF t, row
    <3> QED BY <2>3, <3>1, <1>7, <1>8
  <2> QED BY <2>2, <2>3
<1> HIDE DEF t
<1>10. TreeOf(g, v) = [q \in v.members |-> IF q = p THEN parts ELSE t[q]]
  BY <1>5, <1>9
<1>11. TreeOf(g, v) = Store!Put(t, p, parts)
  BY <1>2, <1>8, <1>10 DEF Store!Put
<1> QED BY <1>11 DEF v, t, p
-----------------------------------------------------------------------------
(* Each step of the journal is a step of the store, or none.               *)

StoreStep == [Store!Next]_<<Live, Durable>>

\* A step of the one active writer w keeps StoreInv when it keeps what StoreInv says
\* of w and of the footers.
LEMMA StoreInvStep ==
    ASSUME TypeOK, NEW w \in Writers, NEW step \in Steps,
           \A v \in Writers : v # w => pc[v] = "idle",
           pc' = [pc EXCEPT ![w] = step],
           \A p, q \in Footers(file)' : p > synced' /\ q > synced' => p = q,
           step = "footer" => synced' = Len(file'),
           step \in {"records", "payload", "flush", "footer"} =>
              OneOperation(TreeOf(file, job[w].view), TreeOf(Ahead(w), Planned(job[w])))'
    PROVE  StoreInv'
<1>1. pc'[w] = step /\ \A v \in Writers : v # w => pc'[v] = "idle"
  BY DEF TypeOK
<1> QED BY <1>1 DEF StoreInv

\* What a mutation is about to commit is an index.
LEMMA PlannedType ==
    ASSUME IndInv, NEW w \in Writers
    PROVE  Planned(job[w]) \in Views
<1>1. PICK j \in Jobs : j = job[w]
  BY DEF IndInv, TypeOK
<1>2. j.view \in Views /\ j.gen \in Generations
  BY DEF Jobs
<1>3. CASE j.gen \in Checkpoints
  BY <1>1, <1>3 DEF Checkpoints, Planned
<1>4. CASE j.gen \in Deltas
  BY <1>1, <1>2, <1>4, ReplayType DEF Deltas, Planned
<1> QED BY <1>2, <1>3, <1>4 DEF Generations

LEMMA SameStore ==
    ASSUME Live' = Live, Durable' = Durable PROVE StoreStep
BY DEF StoreStep

LEMMA SameFileStore ==
    ASSUME file' = file, synced' = synced PROVE Live' = Live /\ Durable' = Durable
BY DEF Live, Durable

\* The index a mutation started from is the one an open finds.
LEMMA ViewNow ==
    ASSUME IndInv, HistoryInv, RefsInv, NEW w \in Writers, pc[w] \notin {"idle", "sync"}
    PROVE  /\ job[w].view \in Views /\ job[w].depth \in Nat
           /\ Secured(job[w].view) /\ Opened(file).view = job[w].view
           /\ Live = TreeOf(file, job[w].view)
<1>1. TypeOK /\ JobSound /\ file \in Seq(Cells)
  BY DEF IndInv, TypeOK
<1>2. PICK j \in Jobs : j = job[w]
  BY <1>1 DEF TypeOK
<1>3. j.prev \in Footers(file) /\ \A p \in Footers(file) : p <= j.prev
  BY <1>2 DEF HistoryInv, SoleWriter
<1>4. j.prev # 0
  BY <1>3 DEF Footers
<1>5. WalkAt(file, j.prev).view = j.view
  BY <1>1, <1>2, <1>4 DEF JobSound
<1>6. Opened(file).view = j.view
  BY <1>1, <1>3, <1>5, NewestIsOpened
<1>7. Secured(j.view)
  BY <1>3, <1>5 DEF RefsInv
<1>8. j.view \in Views /\ j.depth \in Nat
  BY DEF Jobs
<1> QED BY <1>2, <1>6, <1>7, <1>8, TreeNowIs DEF Live

\* Where the whole file is durable, both trees are one.
LEMMA WholeIsDurable ==
    ASSUME TypeOK, synced = Len(file) PROVE Durable = Live
<1>1. file \in Seq(Cells)
  BY DEF TypeOK
<1>2. SubSeq(file, 1, Len(file)) = file
  BY <1>1
<1> QED BY <1>2 DEF Live, Durable

\* An append does not touch the durable tree.
LEMMA AppendDurable ==
    ASSUME TypeOK, NEW out \in Seq(Cells), file' = file \o out, synced' = synced
    PROVE  Durable' = Durable
<1>1. file \in Seq(Cells) /\ synced \in 1..Len(file) /\ Len(file) \in Nat
  BY DEF TypeOK
<1>2. /\ Len(file') = Len(file) + Len(out) /\ Len(out) \in Nat
      /\ \A p \in 1..Len(file) : file'[p] = file[p]
  BY <1>1
<1>3. SubSeq(file', 1, synced) = SubSeq(file, 1, synced)
  <2>1. SubSeq(file, 1, synced) = [p \in 1..synced |-> file[p]]
    BY <1>1
  <2>2. file' \in Seq(Cells) /\ synced \in 1..Len(file')
    BY <1>1, <1>2
  <2>3. SubSeq(file', 1, synced) = [p \in 1..synced |-> file'[p]]
    BY <2>2
  <2>4. \A p \in 1..synced : file'[p] = file[p]
    BY <1>1, <1>2
  <2> QED BY <2>1, <2>3, <2>4
<1> QED BY <1>3 DEF Durable

\* Nor, when no footer is among what is appended, the tree an open shows; nor any
\* tree whose records are there.
LEMMA AppendStore ==
    ASSUME Granted, IndInv, HistoryInv, RefsInv, NEW out \in Seq(Cells),
           \A i \in 1..Len(out) : out[i].t # "foot",
           file' = file \o out, synced' = synced, acked' = acked
    PROVE  /\ Live' = Live /\ Durable' = Durable /\ Footers(file)' = Footers(file)
           /\ \A view \in Views :
                 InTable(view) /\ (\A i \in DOMAIN view.blobs : Record(file, view.blobs[i]))
                    => TreeOf(file', view) = TreeOf(file, view)
<1>1. TypeOK /\ file \in Seq(Cells) /\ Len(file) \in Nat /\ synced \in 1..Len(file)
  BY DEF IndInv, TypeOK
<1>2. Footers(file)' = Footers(file)
  BY <1>1, AppendHistory
<1>3. /\ file' \in Seq(Cells)
      /\ \A p \in 1..Len(file) : file'[p] = file[p] /\ WalkAt(file', p) = WalkAt(file, p)
      /\ \A p \in 1..Len(file) : p \in 1..Len(file')
  BY <1>1, AppendKeeps
<1>4. PICK q \in Footers(file) : \A p \in Footers(file) : p <= q
  BY NewestExists
<1>5. Secured(WalkAt(file, q).view) /\ q \in 1..Len(file)
  BY <1>4 DEF RefsInv, Footers
<1>6. TreeNow(file') = TreeNow(file)
  <2>1. \A p \in 1..synced : p \in 1..Len(file') /\ file'[p] = file[p]
    BY <1>1, <1>3
  <2>2. synced \in Nat /\ WalkAt(file', q) = WalkAt(file, q)
    BY <1>1, <1>3, <1>5
  <2> QED BY <1>1, <1>2, <1>3, <1>4, <1>5, <2>1, <2>2, SameNow DEF Secured
<1>7. ASSUME NEW view \in Views, InTable(view),
             \A i \in DOMAIN view.blobs : Record(file, view.blobs[i])
      PROVE  TreeOf(file', view) = TreeOf(file, view)
  <2>1. \A i \in DOMAIN view.blobs :
           ContentAt(file', view.blobs[i]) = ContentAt(file, view.blobs[i])
    BY <1>3, <1>7, SameContent DEF Record
  <2> QED BY <1>7, <2>1, SameTree
<1>8. Durable' = Durable
  BY <1>1, AppendDurable
<1> QED BY <1>2, <1>6, <1>7, <1>8 DEF Live

\* Opening for an update changes neither tree.
LEMMA UpdateStore ==
    ASSUME Granted, IndInv, StoreInv, NEW w \in Writers, MayStart(w),
           NEW put, Begin(w, "plan", put, NoGeneration)
    PROVE  StoreInv' /\ StoreStep
<1>1. TypeOK /\ \A v \in Writers : pc[v] = "idle"
  BY DEF IndInv, MayStart, Granted
<1>2. file' = file /\ synced' = synced /\ pc' = [pc EXCEPT ![w] = "plan"]
  BY DEF Begin
<1>3. \A p, q \in Footers(file)' : p > synced' /\ q > synced' => p = q
  BY <1>2 DEF StoreInv
<1>4. "plan" \in Steps
  BY DEF Steps
<1>5. StoreInv'
  BY <1>1, <1>2, <1>3, <1>4, StoreInvStep
<1> QED BY <1>2, <1>5, SameFileStore, SameStore

\* Nor does a delete or a rename, whose delta does its operation on the open tree.
LEMMA RowStore ==
    ASSUME Granted, IndInv, HistoryInv, RefsInv, StoreInv, NEW w \in Writers, MayStart(w),
           NEW op \in Ops, op.tag # "put",
           Begin(w, "payload", << >>,
                 GenerationOf(Opened(file).view, Opened(file).depth, RowDelta(op))),
           OneOperation(TreeOf(file, Opened(file).view),
                        TreeOf(file, Replay(Opened(file).view, RowDelta(op))))
    PROVE  StoreInv' /\ StoreStep
<1>1. TypeOK /\ \A v \in Writers : pc[v] = "idle"
  BY DEF IndInv, MayStart, Granted
<1>2. PICK o : o = Opened(file)
  OBVIOUS
<1>3. o.view \in Views /\ o.depth \in Nat
  BY <1>2, OpenedSecured
<1>4. /\ file' = file /\ synced' = synced /\ pc' = [pc EXCEPT ![w] = "payload"]
      /\ job'[w].view = o.view
      /\ job'[w].gen = GenerationOf(o.view, o.depth, RowDelta(op))
      /\ pc'[w] = "payload"
  BY <1>1, <1>2 DEF Begin, TypeOK
<1>5. RowDelta(op) \in Deltas
  BY DEF RowDelta, Deltas
<1>6. Planned(job'[w]) = Replay(o.view, RowDelta(op))
  BY <1>3, <1>4, <1>5, PlannedIsReplayed
<1>7. Ahead(w)' = file
  BY <1>4 DEF Ahead
<1>8. OneOperation(TreeOf(file, job[w].view), TreeOf(Ahead(w), Planned(job[w])))'
  BY <1>2, <1>4, <1>6, <1>7
<1>9. \A p, q \in Footers(file)' : p > synced' /\ q > synced' => p = q
  BY <1>4 DEF StoreInv
<1>10. "payload" \in Steps
  BY DEF Steps
<1>11. StoreInv'
  BY <1>1, <1>4, <1>8, <1>9, <1>10, StoreInvStep
<1> QED BY <1>4, <1>11, SameFileStore, SameStore

LEMMA DeleteStore ==
    ASSUME Granted, IndInv, HistoryInv, RefsInv, StoreInv, NEW w \in Writers,
           NEW p \in Paths, AppendDelete(w, p)
    PROVE  StoreInv' /\ StoreStep
<1> DEFINE op == [tag |-> "del", path |-> p]
<1>1. PICK view \in Views : view = Opened(file).view
  BY OpenedSecured
<1>2. op \in Ops /\ op.tag # "put"
  BY DEF Ops
<1>3. MayStart(w) /\ p \in view.members /\ Begin(w, "payload", << >>,
            GenerationOf(Opened(file).view, Opened(file).depth, RowDelta(op)))
  BY <1>1 DEF AppendDelete
<1>4. TreeOf(file, Replay(view, RowDelta(op))) = Store!Cut(TreeOf(file, view), p)
  BY CutTree
<1>5. p \in DOMAIN TreeOf(file, view)
  BY <1>3 DEF TreeOf
<1> HIDE DEF op
<1>6. OneOperation(TreeOf(file, view), TreeOf(file, Replay(view, RowDelta(op))))
  BY <1>4, <1>5 DEF OneOperation
<1> QED BY <1>1, <1>2, <1>3, <1>6, RowStore

LEMMA RenameStore ==
    ASSUME Granted, IndInv, HistoryInv, RefsInv, StoreInv, NEW w \in Writers,
           NEW p \in Paths, NEW r \in Paths, AppendRename(w, p, r)
    PROVE  StoreInv' /\ StoreStep
<1> DEFINE op == [tag |-> "ren", path |-> p, new |-> r]
<1>1. PICK view \in Views : view = Opened(file).view
  BY OpenedSecured
<1>2. op \in Ops /\ op.tag # "put"
  BY DEF Ops
<1>3. /\ MayStart(w) /\ p \in view.members /\ r \in Paths \ view.members
      /\ Begin(w, "payload", << >>,
            GenerationOf(Opened(file).view, Opened(file).depth, RowDelta(op)))
  BY <1>1 DEF AppendRename
<1>4. TreeOf(file, Replay(view, RowDelta(op)))
        = Store!Put(Store!Cut(TreeOf(file, view), p), r, TreeOf(file, view)[p])
  BY <1>3, MoveTree
<1>5. DOMAIN TreeOf(file, view) = view.members
  BY DEF TreeOf
<1> HIDE DEF op
<1>6. OneOperation(TreeOf(file, view), TreeOf(file, Replay(view, RowDelta(op))))
  BY <1>3, <1>4, <1>5 DEF OneOperation
<1> QED BY <1>1, <1>2, <1>3, <1>6, RowStore

\* What is planned for an update puts its parts: the records referred to hold them,
\* once the new ones are there.
LEMMA PlanStore ==
    ASSUME Granted, IndInv, HistoryInv, RefsInv, StoreInv, NEW w \in Writers, PlanUpdate(w)
    PROVE  StoreInv' /\ StoreStep
<1> DEFINE j == job[w]
           L == Len(j.view.blobs)
           parts == j.put[2]
<1>1. TypeOK /\ pc[w] = "plan" /\ Secured(j.view)
  BY DEF IndInv, PlanUpdate, RefsInv
<1>2. PICK new \in Seq(Contents), refs \in Seq(Nat), offsets \in Seq(Nat), delta \in Deltas :
         /\ j.put[1] \in Paths /\ j.put[2] \in Parts /\ j.put[2] \in Seq(Contents)
         /\ delta.op = [tag |-> "put", path |-> j.put[1], refs |-> refs]
         /\ delta.blobs = offsets
         /\ DOMAIN refs = DOMAIN j.put[2]
         /\ \A i \in DOMAIN refs :
               \/ refs[i] \in 1..L /\ ContentAt(file, j.view.blobs[refs[i]]) = j.put[2][i]
               \/ \E k \in 1..Len(new) : refs[i] = L + k /\ new[k] = j.put[2][i]
         /\ Len(offsets) = Len(new)
         /\ \A k \in 1..Len(new) : offsets[k] = Len(file) + k
         /\ job'[w].view = j.view /\ job'[w].new = new
         /\ job'[w].gen = GenerationOf(j.view, j.depth, delta)
         /\ pc' = [pc EXCEPT ![w] = IF new = << >> THEN "payload" ELSE "records"]
  BY UpdatePlanned
<1>3. file' = file /\ synced' = synced
  BY DEF PlanUpdate
<1>4. /\ j.view \in Views /\ j.depth \in Nat /\ j.view.blobs \in Seq(Nat) /\ L \in Nat
      /\ file \in Seq(Cells) /\ Len(file) \in Nat
  BY <1>1 DEF TypeOK, Jobs, Views
<1> DEFINE cells == [i \in DOMAIN new |-> Blob(new[i])]
           g == file \o cells
           blobs == j.view.blobs \o offsets
<1>5. /\ cells \in Seq(Cells) /\ Len(cells) = Len(new)
      /\ \A k \in 1..Len(new) : cells[k] = Blob(new[k])
  <2>1. \A i \in DOMAIN new : Blob(new[i]) \in Cells
    BY DEF Blob, Cells
  <2>2. DOMAIN new = 1..Len(new) /\ Len(new) \in Nat
    OBVIOUS
  <2> QED BY <2>1, <2>2
<1>6. /\ Len(g) = Len(file) + Len(new)
      /\ \A p \in 1..Len(file) : g[p] = file[p]
      /\ \A k \in 1..Len(new) : g[Len(file) + k] = Blob(new[k])
  <2> HIDE DEF cells
  <2>1. PICK n \in Nat : n = Len(cells)
    BY <1>5
  <2>2. Len(g) = Len(file) + n /\ \A p \in 1..Len(file) : g[p] = file[p]
    BY <1>4, <1>5, <2>1, AppendKeeps
  <2>3. \A k \in 1..n : g[Len(file) + k] = cells[k]
    BY <1>4, <1>5, <2>1
  <2> QED BY <1>5, <2>1, <2>2, <2>3
<1>7. Ahead(w)' = g
  <2>1. pc'[w] = IF new = << >> THEN "payload" ELSE "records"
    BY <1>1, <1>2 DEF TypeOK
  <2>2. CASE new = << >>
    <3>1. cells = << >> /\ file \o << >> = file
      BY <2>2, <1>4
    <3> QED BY <2>1, <2>2, <3>1, <1>3 DEF Ahead
  <2>3. CASE new # << >>
    BY <2>1, <2>3, <1>2, <1>3 DEF Ahead
  <2> QED BY <2>2, <2>3
<1> HIDE DEF g, cells
<1>8. \A p \in 1..Len(file) : p \in 1..Len(g)
  BY <1>4, <1>6
<1>9. \A i \in DOMAIN j.view.blobs :
         ContentAt(g, j.view.blobs[i]) = ContentAt(file, j.view.blobs[i])
  <2>1. SUFFICES ASSUME NEW i \in DOMAIN j.view.blobs
                 PROVE  ContentAt(g, j.view.blobs[i]) = ContentAt(file, j.view.blobs[i])
    OBVIOUS
  <2>2. Record(file, j.view.blobs[i])
    BY <1>1 DEF Secured
  <2>3. j.view.blobs[i] \in 1..Len(file)
    BY <2>2 DEF Record
  <2> QED BY <2>2, <2>3, <1>6, <1>8, SameContent
<1>10. ASSUME NEW i \in DOMAIN refs PROVE ContentAt(g, blobs[refs[i]]) = parts[i]
  <2>1. CASE refs[i] \in 1..L /\ ContentAt(file, j.view.blobs[refs[i]]) = parts[i]
    <3>1. \A r \in 1..L : blobs[r] = j.view.blobs[r] /\ r \in DOMAIN j.view.blobs
      BY <1>4
    <3> HIDE DEF blobs
    <3> QED BY <2>1, <3>1, <1>9
  <2>2. ASSUME NEW k \in 1..Len(new), refs[i] = L + k, new[k] = parts[i]
        PROVE  ContentAt(g, blobs[refs[i]]) = parts[i]
    <3>1. blobs[L + k] = offsets[k]
      <4>1. k \in 1..Len(offsets)
        BY <1>2, <2>2
      <4>2. PICK a \in Seq(Nat) : a = j.view.blobs
        BY <1>4
      <4>3. \A m \in 1..Len(offsets) : (a \o offsets)[Len(a) + m] = offsets[m]
        OBVIOUS
      <4> QED BY <4>1, <4>2, <4>3
    <3>2. blobs[refs[i]] = Len(file) + k
      BY <2>2, <3>1, <1>2
    <3>3. Len(file) + k \in 1..Len(g)
      BY <1>4, <1>6
    <3>4. g[Len(file) + k] = Blob(new[k])
      BY <1>6
    <3> HIDE DEF blobs
    <3> QED BY <2>2, <3>2, <3>3, <3>4 DEF ContentAt, Blob
  <2> QED BY <2>1, <2>2, <1>2
<1>11. TreeOf(g, Replay(j.view, delta)) = Store!Put(TreeOf(file, j.view), j.put[1], parts)
  <2>1. InTable(j.view)
    BY <1>1 DEF Secured
  <2>2. /\ delta.op.tag = "put" /\ delta.op.path = j.put[1] /\ delta.op.refs = refs
        /\ parts \in Seq(Contents) /\ DOMAIN refs = DOMAIN parts
    BY <1>2
  <2>3. Replay(j.view, delta).blobs = blobs
    BY <1>2 DEF Replay
  <2> HIDE DEF parts, blobs
  <2>4. \A i \in DOMAIN parts :
           ContentAt(g, Replay(j.view, delta).blobs[delta.op.refs[i]]) = parts[i]
    BY <1>10, <2>2, <2>3
  <2>5. DOMAIN delta.op.refs = DOMAIN parts
    BY <2>2
  <2>6. TreeOf(g, Replay(j.view, delta)) = Store!Put(TreeOf(file, j.view), delta.op.path, parts)
    <3>a. PICK view \in Views, ps \in Seq(Contents) : view = j.view /\ ps = parts
      BY <1>4, <2>2
    <3>b. PICK f, h : f = file /\ h = g
      OBVIOUS
    <3>1. view = j.view /\ ps = parts /\ f = file /\ h = g
      BY <3>a, <3>b
    <3>2. \A i \in DOMAIN view.blobs : ContentAt(h, view.blobs[i]) = ContentAt(f, view.blobs[i])
      BY <1>9, <3>1
    <3>3. \A i \in DOMAIN ps : ContentAt(h, Replay(view, delta).blobs[delta.op.refs[i]]) = ps[i]
      BY <2>4, <3>1
    <3>4. InTable(view) /\ delta.op.tag = "put" /\ DOMAIN delta.op.refs = DOMAIN ps
      BY <2>1, <2>2, <2>5, <3>1
    <3>5. TreeOf(h, Replay(view, delta)) = Store!Put(TreeOf(f, view), delta.op.path, ps)
      BY <3>2, <3>3, <3>4, PutTree
    <3> QED BY <3>1, <3>5
  <2> QED BY <2>2, <2>6
<1>12. Planned(job'[w]) = Replay(j.view, delta)
  BY <1>2, <1>4, PlannedIsReplayed
<1>13. OneOperation(TreeOf(file, j.view), TreeOf(g, Replay(j.view, delta)))
  BY <1>2, <1>11 DEF OneOperation
<1>14. OneOperation(TreeOf(file, job[w].view), TreeOf(Ahead(w), Planned(job[w])))'
  BY <1>2, <1>3, <1>7, <1>12, <1>13
<1>15. PICK step \in {"payload", "records"} : pc' = [pc EXCEPT ![w] = step]
  BY <1>2
<1>16. step \in Steps /\ step # "footer" /\ \A v \in Writers : v # w => pc[v] = "idle"
  BY <1>1, Alone DEF Steps
<1>17. \A p, q \in Footers(file)' : p > synced' /\ q > synced' => p = q
  BY <1>3 DEF StoreInv
<1>18. StoreInv'
  BY <1>1, <1>14, <1>15, <1>16, <1>17, StoreInvStep
<1> QED BY <1>3, <1>18, SameFileStore, SameStore

\* The records an update brings change no tree, and are those planned with.
LEMMA RecordsStore ==
    ASSUME Granted, IndInv, HistoryInv, RefsInv, StoreInv, NEW w \in Writers, WriteRecords(w)
    PROVE  StoreInv' /\ StoreStep
<1> DEFINE cells == [i \in DOMAIN job[w].new |-> Blob(job[w].new[i])]
<1>1. TypeOK /\ pc[w] = "records"
  BY DEF IndInv, WriteRecords
<1>2. /\ file' = file \o cells /\ synced' = synced /\ job' = job /\ acked' = acked
      /\ pc' = [pc EXCEPT ![w] = "payload"]
  BY WholeWrite DEF WriteRecords
<1>3. cells \in Seq(Cells) /\ \A i \in 1..Len(cells) : cells[i].t # "foot"
  <2>1. PICK new \in Seq(Contents) : new = job[w].new
    BY <1>1 DEF TypeOK, Jobs
  <2>2. \A i \in DOMAIN new : Blob(new[i]) \in Cells /\ Blob(new[i]).t = "blob"
    BY DEF Blob, Cells
  <2>3. DOMAIN new = 1..Len(new) /\ Len(new) \in Nat
    OBVIOUS
  <2> QED BY <2>1, <2>2, <2>3
<1>4. pc'[w] = "payload" /\ "payload" \in Steps
  BY <1>1, <1>2 DEF TypeOK, Steps
<1>5. Ahead(w) = file' /\ Ahead(w)' = file'
  BY <1>1, <1>2, <1>4 DEF Ahead
<1> HIDE DEF cells
<1>6. /\ Live' = Live /\ Durable' = Durable /\ Footers(file)' = Footers(file)
      /\ TreeOf(file', job[w].view) = TreeOf(file, job[w].view)
  <2>1. job[w].view \in Views /\ Secured(job[w].view)
    BY <1>1, ViewNow
  <2> QED BY <2>1, <1>2, <1>3, AppendStore DEF Secured
<1>7. OneOperation(TreeOf(file, job[w].view), TreeOf(Ahead(w), Planned(job[w])))
  BY <1>1 DEF StoreInv
<1>8. OneOperation(TreeOf(file, job[w].view), TreeOf(Ahead(w), Planned(job[w])))'
  BY <1>2, <1>5, <1>6, <1>7
<1>9. \A p, q \in Footers(file)' : p > synced' /\ q > synced' => p = q
  BY <1>2, <1>6 DEF StoreInv
<1>10. \A v \in Writers : v # w => pc[v] = "idle"
  BY <1>1, Alone
<1>11. StoreInv'
  BY <1>1, <1>2, <1>4, <1>8, <1>9, <1>10, StoreInvStep
<1> QED BY <1>6, <1>11, SameStore

LEMMA PayloadStore ==
    ASSUME Granted, IndInv, HistoryInv, RefsInv, StoreInv, NEW w \in Writers, WritePayload(w)
    PROVE  StoreInv' /\ StoreStep
<1> DEFINE cells == << Payload(job[w].gen) >>
<1>1. TypeOK /\ pc[w] = "payload" /\ Placed(w)
  BY DEF IndInv, WritePayload, RefsInv
<1>2. /\ file' = file \o cells /\ synced' = synced /\ job' = job /\ acked' = acked
      /\ pc' = [pc EXCEPT ![w] = "flush"]
  BY WholeWrite DEF WritePayload
<1>3. cells \in Seq(Cells) /\ \A i \in 1..Len(cells) : cells[i].t # "foot"
  <2>1. job[w].gen \in Generations
    BY <1>1 DEF TypeOK, Jobs
  <2>2. Payload(job[w].gen) \in Cells /\ Payload(job[w].gen).t # "foot"
    BY <2>1 DEF Payload, Cells
  <2> QED BY <2>2
<1>4. pc'[w] = "flush" /\ "flush" \in Steps
  BY <1>1, <1>2 DEF TypeOK, Steps
<1>5. Ahead(w) = file /\ Ahead(w)' = file'
  BY <1>1, <1>4 DEF Ahead
<1> HIDE DEF cells
<1>6. /\ Live' = Live /\ Durable' = Durable /\ Footers(file)' = Footers(file)
      /\ TreeOf(file', job[w].view) = TreeOf(file, job[w].view)
      /\ TreeOf(file', Planned(job[w])) = TreeOf(file, Planned(job[w]))
  <2>1. job[w].view \in Views /\ Secured(job[w].view)
    BY <1>1, ViewNow
  <2>2. Planned(job[w]) \in Views
    BY <1>1, PlannedType
  <2>3. /\ InTable(Planned(job[w]))
        /\ \A i \in DOMAIN Planned(job[w]).blobs : Record(file, Planned(job[w]).blobs[i])
    BY <1>1 DEF Placed
  <2> QED BY <2>1, <2>2, <2>3, <1>2, <1>3, AppendStore DEF Secured
<1>7. OneOperation(TreeOf(file, job[w].view), TreeOf(Ahead(w), Planned(job[w])))
  BY <1>1 DEF StoreInv
<1>8. OneOperation(TreeOf(file, job[w].view), TreeOf(Ahead(w), Planned(job[w])))'
  BY <1>2, <1>5, <1>6, <1>7
<1>9. \A p, q \in Footers(file)' : p > synced' /\ q > synced' => p = q
  BY <1>2, <1>6 DEF StoreInv
<1>10. \A v \in Writers : v # w => pc[v] = "idle"
  BY <1>1, Alone
<1>11. StoreInv'
  BY <1>1, <1>2, <1>4, <1>8, <1>9, <1>10, StoreInvStep
<1> QED BY <1>6, <1>11, SameStore

\* Making the whole file durable is the store's sync.
LEMMA SyncStore ==
    ASSUME TypeOK, file' = file, synced' = Len(file)
    PROVE  /\ StoreStep
           /\ \A p, q \in Footers(file)' : p > synced' /\ q > synced' => p = q
<1>1. file \in Seq(Cells) /\ Len(file) \in Nat
  BY DEF TypeOK
<1>2. SubSeq(file, 1, Len(file)) = file
  BY <1>1
<1>3. Live' = Live /\ Durable' = Live
  BY <1>2 DEF Live, Durable
<1>4. \A p \in Footers(file)' : ~(p > synced')
  BY <1>1 DEF Footers
<1> QED BY <1>3, <1>4 DEF StoreStep, Store!Next, Store!Sync

LEMMA FlushStore ==
    ASSUME IndInv, HistoryInv, StoreInv, NEW w \in Writers, Flush(w)
    PROVE  StoreInv' /\ StoreStep
<1>1. TypeOK /\ pc[w] = "flush"
  BY DEF IndInv, Flush
<1>2. /\ file' = file /\ synced' = Len(file) /\ job' = job
      /\ pc' = [pc EXCEPT ![w] = "footer"]
  BY DEF Flush
<1>3. pc'[w] = "footer" /\ "footer" \in Steps
  BY <1>1, <1>2 DEF TypeOK, Steps
<1>4. Ahead(w) = file /\ Ahead(w)' = file
  BY <1>1, <1>2, <1>3 DEF Ahead
<1>5. OneOperation(TreeOf(file, job[w].view), TreeOf(Ahead(w), Planned(job[w])))
  BY <1>1 DEF StoreInv
<1>6. OneOperation(TreeOf(file, job[w].view), TreeOf(Ahead(w), Planned(job[w])))'
  BY <1>2, <1>4, <1>5
<1>7. \A v \in Writers : v # w => pc[v] = "idle"
  BY <1>1, Alone
<1>8. StoreStep /\ \A p, q \in Footers(file)' : p > synced' /\ q > synced' => p = q
  BY <1>1, <1>2, SyncStore
<1>9. StoreInv'
  BY <1>1, <1>2, <1>3, <1>6, <1>7, <1>8, StoreInvStep
<1> QED BY <1>8, <1>9

\* One operation on a durable tree is a step of the store.
LEMMA OperationStep ==
    ASSUME NEW view \in Views, Live = TreeOf(file, view),
           OneOperation(Live, Live'), Durable = Live, Durable' = Durable
    PROVE  StoreStep
<1>1. DOMAIN Live \subseteq Paths
  BY DEF TreeOf, Views
<1>2. CASE \E p \in Paths, parts \in Parts : Live' = Store!Put(Live, p, parts)
  BY <1>2 DEF StoreStep, Store!Next, Store!Update, Store!Commit
<1>3. CASE \E p \in DOMAIN Live : Live' = Store!Cut(Live, p)
  BY <1>1, <1>3 DEF StoreStep, Store!Next, Store!Delete, Store!Commit
<1>4. CASE \E p \in DOMAIN Live, new \in Paths \ DOMAIN Live :
             Live' = Store!Put(Store!Cut(Live, p), new, Live[p])
  BY <1>1, <1>4 DEF StoreStep, Store!Next, Store!Rename, Store!Commit
<1> QED BY <1>2, <1>3, <1>4 DEF OneOperation

\* The footer commits: an open shows the operation done, on a durable tree.
LEMMA FooterStore ==
    ASSUME Granted, IndInv, HistoryInv, RefsInv, StoreInv, NEW w \in Writers, WriteFooter(w)
    PROVE  StoreInv' /\ StoreStep
<1> DEFINE N == Len(file)
           v == Planned(job[w])
<1>1. TypeOK /\ pc[w] = "footer" /\ Placed(w) /\ synced = N /\ file \in Seq(Cells)
  BY DEF IndInv, WriteFooter, RefsInv, StoreInv, TypeOK
<1>2. PICK cell \in Cells :
         /\ file' = file \o << cell >> /\ << cell >> \in Seq(Cells)
         /\ N \in Nat /\ Len(file') = N + 1
         /\ file'[N + 1] = cell /\ cell.t = "foot"
         /\ WalkAt(file', N + 1).view = v /\ v \in Views
         /\ synced' = synced /\ pc' = [pc EXCEPT ![w] = "sync"]
         /\ job'[w].at = N + 1
  BY FooterLands
<1>3. /\ file' \in Seq(Cells)
      /\ \A p \in 1..N : p \in 1..Len(file') /\ file'[p] = file[p]
  BY <1>1, <1>2, AppendKeeps
<1>4. \A p \in Footers(file') : p <= N + 1 /\ (p > N => p = N + 1) /\ p \in Nat
  BY <1>2 DEF Footers
<1>5. N + 1 \in Footers(file')
  <2>1. HistoryInv'
    BY FooterHistory
  <2>2. pc'[w] = "sync"
    BY <1>1, <1>2 DEF TypeOK
  <2> QED BY <2>1, <2>2, <1>2 DEF HistoryInv, SoleWriter
<1>6. Opened(file').view = v
  BY <1>2, <1>3, <1>4, <1>5, NewestIsOpened
<1>7. TreeOf(file', v) = TreeOf(file, v)
  <2>1. InTable(v) /\ \A i \in DOMAIN v.blobs : Record(file, v.blobs[i])
    BY <1>1 DEF Placed
  <2> HIDE DEF v
  <2>2. \A i \in DOMAIN v.blobs : ContentAt(file', v.blobs[i]) = ContentAt(file, v.blobs[i])
    BY <2>1, <1>3, SameContent DEF Record
  <2> QED BY <2>1, <2>2, <1>2, SameTree
<1>8. Live' = TreeOf(file, v)
  BY <1>6, <1>7, TreeNowIs DEF Live
<1>9. Ahead(w) = file
  BY <1>1 DEF Ahead
<1>10. OneOperation(TreeOf(file, job[w].view), TreeOf(file, v))
  BY <1>1, <1>9 DEF StoreInv
<1>11. Live = TreeOf(file, job[w].view) /\ job[w].view \in Views
  BY <1>1, ViewNow
<1>12. Durable = Live /\ Durable' = Durable
  BY <1>1, <1>2, WholeIsDurable, AppendDurable
<1> HIDE DEF v
<1>13. StoreStep
  <2>1. OneOperation(Live, Live')
    BY <1>8, <1>10, <1>11
  <2> QED BY <2>1, <1>11, <1>12, OperationStep
<1>14. \A p, q \in Footers(file)' : p > synced' /\ q > synced' => p = q
  BY <1>1, <1>2, <1>4
<1>15. "sync" \in Steps /\ \A u \in Writers : u # w => pc[u] = "idle"
  BY <1>1, Alone DEF Steps
<1>16. StoreInv'
  BY <1>1, <1>2, <1>14, <1>15, StoreInvStep
<1> QED BY <1>13, <1>16

LEMMA AcknowledgeStore ==
    ASSUME IndInv, HistoryInv, StoreInv, NEW w \in Writers, Acknowledge(w)
    PROVE  StoreInv' /\ StoreStep
<1>1. TypeOK /\ pc[w] = "sync"
  BY DEF IndInv, Acknowledge
<1>2. file' = file /\ synced' = Len(file) /\ pc' = [pc EXCEPT ![w] = "idle"]
  BY DEF Acknowledge
<1>3. StoreStep /\ \A p, q \in Footers(file)' : p > synced' /\ q > synced' => p = q
  BY <1>1, <1>2, SyncStore
<1>4. "idle" \in Steps /\ \A v \in Writers : v # w => pc[v] = "idle"
  BY <1>1, Alone DEF Steps
<1>5. StoreInv'
  BY <1>1, <1>2, <1>3, <1>4, StoreInvStep
<1> QED BY <1>3, <1>5

LEMMA KillStore ==
    ASSUME IndInv, HistoryInv, StoreInv, NEW w \in Writers, Kill(w)
    PROVE  StoreInv' /\ StoreStep
<1>1. TypeOK /\ pc[w] # "idle"
  BY DEF IndInv, Kill
<1>2. file' = file /\ synced' = synced /\ pc' = [pc EXCEPT ![w] = "idle"]
  BY DEF Kill
<1>3. \A p, q \in Footers(file)' : p > synced' /\ q > synced' => p = q
  BY <1>2 DEF StoreInv
<1>4. "idle" \in Steps /\ \A v \in Writers : v # w => pc[v] = "idle"
  BY <1>1, Alone DEF Steps
<1>5. StoreInv'
  BY <1>1, <1>2, <1>3, <1>4, StoreInvStep
<1> QED BY <1>2, <1>5, SameFileStore, SameStore

\* A power loss leaves the newest footer, and the tree shown stays; or it takes it,
\* the one unsynced footer, and the durable tree is shown.
LEMMA PowerLossStore ==
    ASSUME Granted, IndInv, HistoryInv, RefsInv, StoreInv, PowerLoss
    PROVE  StoreInv' /\ StoreStep
<1> DEFINE pre == SubSeq(file, 1, synced)
<1>1. /\ TypeOK
      /\ file \in Seq(Cells) /\ Len(file) \in Nat /\ synced \in 1..Len(file)
      /\ synced \in 0..Len(file) /\ synced \in Nat
  BY DEF IndInv, TypeOK
<1>2. PICK n \in synced..Len(file) : \E damaged \in SUBSET ((synced + 1)..n) :
         file' = Damaged(file, n, damaged)
  BY DEF PowerLoss
<1>3. PICK damaged \in SUBSET ((synced + 1)..n) : file' = Damaged(file, n, damaged)
  BY <1>2
<1>4. /\ file' \in Seq(Cells) /\ Len(file') = n
      /\ \A q \in Footers(file') : q \in Footers(file) /\ WalkAt(file', q) = WalkAt(file, q)
      /\ \A q \in Footers(file) : q <= synced => q \in Footers(file')
  BY <1>1, <1>3, DamageKeeps
<1>5. synced' = Len(file') /\ pc' = [w \in Writers |-> "idle"] /\ n \in Nat /\ n >= synced
  BY <1>1, <1>4 DEF PowerLoss
<1>6. \A p \in 1..synced : p \in 1..Len(file') /\ file'[p] = file[p]
  <2>1. \A p \in 1..synced : p \in 1..n /\ p \notin damaged
    BY <1>1, <1>5
  <2> QED BY <2>1, <1>3, <1>4 DEF Damaged
<1>7. Durable' = Live'
  <2>1. SubSeq(file', 1, Len(file')) = file'
    BY <1>4
  <2> QED BY <2>1, <1>5 DEF Live, Durable
<1>8. PICK q \in Footers(file) : \A p \in Footers(file) : p <= q
  BY NewestExists
<1>9. ASSUME q \in Footers(file') PROVE Live' = Live
  <2>1. Secured(WalkAt(file, q).view) /\ WalkAt(file', q) = WalkAt(file, q)
    BY <1>4, <1>9 DEF RefsInv
  <2>2. \A p \in Footers(file') : p <= q
    BY <1>4, <1>8
  <2>3. TreeNow(file') = TreeNow(file)
    BY <1>1, <1>4, <1>6, <1>8, <1>9, <2>1, <2>2, SameNow DEF Secured
  <2> QED BY <2>3 DEF Live
<1>10. ASSUME q \notin Footers(file') PROVE Live' = Durable
  <2>1. q > synced
    <3>1. q \in Nat
      BY DEF Footers
    <3> QED BY <3>1, <1>1, <1>4, <1>10
  <2>2. /\ pre \in Seq(Cells) /\ Len(pre) = synced
        /\ \A p \in 1..synced : pre[p] = file[p]
        /\ \A p : p \in Footers(pre) <=> p \in Footers(file) /\ p <= synced
        /\ \A p \in Footers(pre) : WalkAt(pre, p) = WalkAt(file, p)
    BY <1>1, SyncedPrefix
  <2> HIDE DEF pre
  <2>3. Footers(file') = Footers(pre)
    <3>1. ASSUME NEW p \in Footers(file') PROVE p \in Footers(pre)
      <4>1. p \in Footers(file) /\ p # q /\ p \in Nat
        BY <3>1, <1>4, <1>10 DEF Footers
      <4>2. ~(p > synced)
        BY <4>1, <2>1 DEF StoreInv
      <4> QED BY <4>1, <4>2, <2>2, <1>1
    <3> QED BY <3>1, <2>2, <1>4
  <2>4. PICK r \in Footers(pre) : \A p \in Footers(pre) : p <= r
    <3>1. Footers(pre) # {}
      BY <2>2, NewestExists
    <3>2. Footers(pre) \in SUBSET (0..Len(pre)) /\ Len(pre) \in Nat
      BY <2>2, <1>1 DEF Footers
    <3> QED BY <3>1, <3>2, MaxIsLargest
  <2>5. /\ r \in Footers(file') /\ WalkAt(file', r) = WalkAt(pre, r)
        /\ Secured(WalkAt(pre, r).view)
    BY <2>2, <2>3, <2>4, <1>4 DEF RefsInv
  <2>6. PICK view : view = WalkAt(pre, r).view
    OBVIOUS
  <2>7. \A i \in DOMAIN view.blobs : view.blobs[i] <= synced /\ Record(pre, view.blobs[i])
    <3>1. SUFFICES ASSUME NEW i \in DOMAIN view.blobs
                   PROVE  view.blobs[i] <= synced /\ Record(pre, view.blobs[i])
      OBVIOUS
    <3>2. view.blobs[i] <= synced /\ Record(file, view.blobs[i])
      BY <2>5, <2>6 DEF Secured
    <3>3. view.blobs[i] \in 1..synced
      BY <3>2, <1>1 DEF Record
    <3> QED BY <3>2, <3>3, <2>2 DEF Record
  <2>8. \A p \in 1..synced : p \in 1..Len(file') /\ file'[p] = pre[p]
    BY <2>2, <1>6
  <2>9. InTable(view)
    BY <2>5, <2>6 DEF Secured
  <2>10. TreeNow(file') = TreeNow(pre)
    BY <1>1, <1>4, <2>2, <2>3, <2>4, <2>5, <2>6, <2>7, <2>8, <2>9, SameNow
  <2> QED BY <2>10 DEF Live, Durable, pre
<1>11. Live' \in {Live, Durable} /\ Durable' = Live'
  <2>1. CASE q \in Footers(file')
    BY <2>1, <1>7, <1>9
  <2>2. CASE q \notin Footers(file')
    BY <2>2, <1>7, <1>10
  <2> QED BY <2>1, <2>2
<1>12. StoreInv'
  <2>1. \A p \in Footers(file') : ~(p > synced')
    BY <1>4, <1>5 DEF Footers
  <2>2. \A w \in Writers : pc'[w] = "idle"
    BY <1>5
  <2> QED BY <2>1, <2>2 DEF StoreInv
<1> QED BY <1>11, <1>12 DEF StoreStep, Store!Next, Store!Crash

\* The builder's archive is a tree of members, and durable.
LEMMA InitStore == Granted /\ Init => Store!Init /\ StoreInv
<1> SUFFICES ASSUME Granted, Init PROVE Store!Init /\ StoreInv
  OBVIOUS
<1>1. PICK blobs \in BaseBlobs, members \in SUBSET Paths :
           \E ref \in [members -> DOMAIN blobs] :
             LET n == Len(blobs)
             IN  /\ n \in Nat /\ Len(file) = n + 3 /\ DOMAIN blobs = 1..n
                 /\ \A i \in 1..n : file[i + 1] = Blob(blobs[i])
                 /\ \A q \in Footers(file) : q = n + 3
                 /\ WalkAt(file, n + 3).view =
                      [members |-> members,
                       rows    |-> [p \in Paths |-> IF p \in members THEN << ref[p] >> ELSE << >>],
                       blobs   |-> [i \in DOMAIN blobs |-> i + 1]]
  BY BuiltFile
<1> DEFINE n == Len(blobs)
<1>2. PICK ref \in [members -> DOMAIN blobs] :
         /\ n \in Nat /\ Len(file) = n + 3 /\ DOMAIN blobs = 1..n
         /\ \A i \in 1..n : file[i + 1] = Blob(blobs[i])
         /\ \A q \in Footers(file) : q = n + 3
         /\ WalkAt(file, n + 3).view =
              [members |-> members,
               rows    |-> [p \in Paths |-> IF p \in members THEN << ref[p] >> ELSE << >>],
               blobs   |-> [i \in DOMAIN blobs |-> i + 1]]
  BY <1>1
<1> DEFINE rows == [p \in Paths |-> IF p \in members THEN << ref[p] >> ELSE << >>]
           offsets == [i \in DOMAIN blobs |-> i + 1]
           view == [members |-> members, rows |-> rows, blobs |-> offsets]
<1>3. IndInv /\ HistoryInv
  BY InitIndInv, InitHistory
<1>4. file \in Seq(Cells) /\ synced = Len(file) /\ TypeOK
  BY <1>3 DEF IndInv, TypeOK, Init
<1>5. PICK q \in Footers(file) : \A p \in Footers(file) : p <= q
  BY <1>3, NewestExists
<1>6. Opened(file).view = view
  BY <1>2, <1>4, <1>5, NewestIsOpened
<1>7. Durable = Live
  BY <1>4, WholeIsDurable
<1>8. Live = TreeOf(file, view)
  <2> HIDE DEF view
  <2> QED BY <1>6, TreeNowIs DEF Live
<1>9. ASSUME NEW p \in members
      PROVE  [i \in DOMAIN rows[p] |-> ContentAt(file, offsets[rows[p][i]])] \in Parts
  <2>1. PICK k \in 1..n : k = ref[p]
    BY <1>2, <1>9
  <2>2. rows[p] = << k >> /\ offsets[k] = k + 1
    BY <1>2, <1>9, <2>1
  <2>3. k + 1 \in 1..Len(file) /\ file[k + 1] = Blob(blobs[k])
    BY <1>2, <2>1
  <2>4. ContentAt(file, offsets[k]) = blobs[k]
    BY <2>2, <2>3 DEF ContentAt, Blob
  <2> HIDE DEF rows, offsets
  <2>5. DOMAIN rows[p] = {1} /\ rows[p][1] = k
    BY <2>2
  <2>6. << blobs[k] >> = [i \in {1} |-> blobs[k]]
    OBVIOUS
  <2>7. [i \in DOMAIN rows[p] |-> ContentAt(file, offsets[rows[p][i]])] = << blobs[k] >>
    BY <2>4, <2>5, <2>6
  <2>8. k \in DOMAIN blobs
    BY <1>2, <2>1
  <2> QED BY <2>7, <2>8, JournalAssumption
<1>10. Live \in [members -> Parts]
  <2> HIDE DEF rows, offsets
  <2> QED BY <1>8, <1>9 DEF TreeOf
<1>11. Store!Init
  BY <1>7, <1>10 DEF Store!Init, Store!Trees
<1>12. StoreInv
  <2>1. \A p \in Footers(file) : ~(p > synced)
    BY <1>2, <1>4
  <2> QED BY <2>1 DEF StoreInv, Init
<1> QED BY <1>11, <1>12

LEMMA NextStore ==
    ASSUME Granted, IndInv, HistoryInv, RefsInv, StoreInv, [Next]_vars
    PROVE  StoreInv' /\ StoreStep
<1>1. ASSUME NEW w \in Writers, Mutation(w) PROVE StoreInv' /\ StoreStep
  <2>1. CASE \E p \in Paths : AppendDelete(w, p)
    BY <2>1, DeleteStore
  <2>2. CASE \E p, q \in Paths : AppendRename(w, p, q)
    BY <2>2, RenameStore
  <2>3. CASE \E p \in Paths, parts \in Parts : AppendUpdate(w, p, parts)
    BY <2>3, UpdateStore DEF AppendUpdate
  <2>4. CASE PlanUpdate(w)
    BY <2>4, PlanStore
  <2>5. CASE WriteRecords(w)
    BY <2>5, RecordsStore
  <2>6. CASE WritePayload(w)
    BY <2>6, PayloadStore
  <2>7. CASE Flush(w)
    BY <2>7, FlushStore
  <2>8. CASE WriteFooter(w)
    BY <2>8, FooterStore
  <2>9. CASE Acknowledge(w)
    BY <2>9, AcknowledgeStore
  <2> QED BY <1>1, <2>1, <2>2, <2>3, <2>4, <2>5, <2>6, <2>7, <2>8, <2>9 DEF Mutation
<1>2. ASSUME NEW w \in Writers, Kill(w) PROVE StoreInv' /\ StoreStep
  BY <1>2, KillStore
<1>3. CASE PowerLoss
  BY <1>3, PowerLossStore
<1>4. CASE UNCHANGED vars
  <2>1. file' = file /\ synced' = synced /\ pc' = pc /\ job' = job
    BY <1>4 DEF vars
  <2>2. StoreInv'
    BY <2>1 DEF StoreInv, Ahead
  <2> QED BY <2>1, <2>2, SameFileStore, SameStore
<1> QED BY <1>1, <1>2, <1>3, <1>4 DEF Next

-----------------------------------------------------------------------------
(* The theorems.                                                           *)

\* Under what Granted lists, the records of every accepted index, and of the one
\* about to be committed, are where the index says (transactions.py:56-99).
THEOREM RefsAreSecured == ASSUME Granted PROVE Spec => []RefsInv
<1>1. Init => RefsInv
  BY InitRefs
<1>2. IndInv /\ HistoryInv /\ RefsInv /\ [Next]_vars => RefsInv'
  BY NextRefs
<1>3. Spec => []IndInv
  BY Invariance
<1>4. Spec => []HistoryInv
  BY History
<1> QED BY <1>1, <1>2, <1>3, <1>4, PTL DEF Spec

\* No index an open accepts names a record that is not there, whatever crashes,
\* kills and later mutations happened (transactions.py:56-65).
THEOREM RecordsAreThere == ASSUME Granted PROVE Spec => []RefsResolve
<1>1. IndInv /\ RefsInv => RefsResolve
  <2> SUFFICES ASSUME IndInv, RefsInv, NEW q \in Footers(file)
               PROVE  LET view == WalkAt(file, q).view
                      IN  \A p \in view.members : \A i \in DOMAIN view.rows[p] :
                             /\ view.rows[p][i] \in DOMAIN view.blobs
                             /\ ContentAt(file, view.blobs[view.rows[p][i]]) # NoContent
    BY DEF RefsResolve
  <2>1. file \in Seq(Cells) /\ WalkAt(file, q) \in Walks
    BY WalkAtType DEF IndInv, TypeOK
  <2>2. PICK view \in Views : view = WalkAt(file, q).view
    BY <2>1 DEF Walks
  <2>3. Secured(view) /\ view.members \subseteq Paths
    BY <2>2 DEF RefsInv, Views
  <2>4. SUFFICES ASSUME NEW p \in view.members, NEW i \in DOMAIN view.rows[p]
                 PROVE  /\ view.rows[p][i] \in DOMAIN view.blobs
                        /\ ContentAt(file, view.blobs[view.rows[p][i]]) # NoContent
    BY <2>2
  <2>5. view.rows[p][i] \in DOMAIN view.blobs
    BY <2>3 DEF Secured, InTable
  <2>6. PICK at : at = view.blobs[view.rows[p][i]] /\ Record(file, at)
    BY <2>3, <2>5 DEF Secured
  <2>7. at \in 1..Len(file) /\ file[at].t = "blob" /\ file[at] \in Cells
    BY <2>1, <2>6 DEF Record
  <2>8. file[at].content \in Contents
    BY <2>7 DEF Cells, Torn
  <2>9. ContentAt(file, at) # NoContent
    BY <2>7, <2>8, JournalAssumption DEF ContentAt
  <2> QED BY <2>5, <2>6, <2>9
<1>2. Spec => []IndInv
  BY Invariance
<1> QED BY <1>1, <1>2, RefsAreSecured, PTL

\* Journal implements ArchiveStore: whatever crashes, kills and power losses happen,
\* an open shows the tree of the last whole commit, and no acknowledged one is taken
\* back (reader.py:41-109, transactions.py:27-132).
THEOREM ImplementsStore == ASSUME Granted PROVE Spec => StoreSpec
<1>1. Init => Store!Init /\ StoreInv
  BY InitStore
<1>2. IndInv /\ HistoryInv /\ RefsInv /\ StoreInv /\ [Next]_vars
        => StoreInv' /\ [Store!Next]_<<Live, Durable>>
  BY NextStore DEF StoreStep
<1>3. Spec => []IndInv
  BY Invariance
<1>4. Spec => []HistoryInv
  BY History
<1> QED BY <1>1, <1>2, <1>3, <1>4, RefsAreSecured, PTL DEF Spec, StoreSpec, Store!Spec
=============================================================================
