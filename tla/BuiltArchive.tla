---------------------------- MODULE BuiltArchive ----------------------------
(***************************************************************************)
(* Reading what Builder built: whole members and every range of them, and  *)
(* what a build promises.                                                  *)
(***************************************************************************)
EXTENDS Builder

\* Raised instead of a result.
Failure == << -1 >>

\* A record gives its content back, by its codec; only a canonical stream is
\* stored as such.
Blob(c) == IF c \in DOMAIN codec /\ (codec[c] = "dict" => trained) THEN c ELSE Failure
StreamOf(pl) ==
    CASE Mode(pl) = "stored" -> Blob(pl.raw)
      [] Mode(pl) = "secondary" -> Blob(pl.stream)
      [] Mode(pl) = "regenerate" -> Deflate(Blob(pl.raw), pl.level)
      [] OTHER -> IF codec[pl.raw] = "deflate" THEN canonical[pl.raw] ELSE Failure

\* A buffer of n zeros, the pieces written over it in turn.
Written(n, pieces) ==
    LET over(i) == {k \in DOMAIN pieces : i - pieces[k].off \in DOMAIN pieces[k].bytes}
        byte(i) == pieces[Max(over(i))].bytes[i - pieces[Max(over(i))].off]
    IN  [i \in 1..n |-> IF over(i) = {} THEN 0 ELSE byte(i)]
Chunks(e) == [i \in DOMAIN e.parts |->
                 [off |-> e.off + Offset(e.parts, i), bytes |-> Blob(e.parts[i])]]
SparseChunks(r) == FlattenSeq([i \in DOMAIN r.extents |-> Chunks(r.extents[i])])

\* Where each of the segments of these lengths ends; ends[0] is the start of the first.
Ends(lens) ==
    LET ends[i \in 0..Len(lens)] == IF i = 0 THEN 0 ELSE ends[i - 1] + lens[i] IN ends

\* The segments of a rebuilt ZIP file: literals of the skeleton and streams in turn.
Segments(recipe) ==
    LET literal(i) == Cut(Blob(recipe.skeleton), Ends(recipe.lens)[i - 1], Ends(recipe.lens)[i])
    IN  Interleaved([i \in DOMAIN recipe.lens |-> literal(i)],
                    [i \in DOMAIN recipe.payloads |-> StreamOf(recipe.payloads[i])])

SliceTwice(r) == Cut(Blob(r.of), r.off, r.len)       \* slip: the offset is forgotten
Slice(r) == Cut(Blob(r.of), r.off, r.off + r.len)

Read(p) ==
    LET q == IF rows[p].tag = "link" THEN rows[p].to ELSE p
        r == rows[q]
    IN  CASE r.tag = "blob" -> Blob(r.of)
          [] r.tag = "pack" -> Slice(r)
          [] r.tag = "cdc" -> FlattenSeq([i \in DOMAIN r.parts |-> Blob(r.parts[i])])
          [] r.tag = "sparse" -> Written(Len(Bytes(q)), SparseChunks(r))
          [] OTHER -> IF Failure \in ToSet(Segments(recipes[q])) THEN Failure
                      ELSE FlattenSeq(Segments(recipes[q]))

ClipEarly(c, at, start, end) ==         \* slip: a chunk that covers the whole range
    IF at + Len(c) > start /\ at < end
    THEN Cut(c, Larger(start, at) - at, Len(c))
    ELSE << >>

\* The part of a chunk at offset at that lies in start..end.
Clip(c, at, start, end) ==
    IF at + Len(c) > start /\ at < end
    THEN Cut(c, Larger(start, at) - at, Smaller(end, at + Len(c)) - at)
    ELSE << >>

Clipped(parts, start, end) ==
    [i \in DOMAIN parts |-> Clip(parts[i], Offset(parts, i), start, end)]

\* Streams outside the range are not asked for: their sizes come from the index.
SegmentSizes(recipe) ==
    Interleaved(recipe.lens,
                [i \in DOMAIN recipe.payloads |-> Len(recipe.payloads[i].stream)])
RangeVzip(recipe, start, end) ==
    LET ends == Ends(SegmentSizes(recipe))
        segs == Segments(recipe)
        wanted == {i \in DOMAIN segs : ends[i] > start /\ ends[i - 1] < end}
    IN  IF \E i \in wanted : segs[i] = Failure THEN Failure
        ELSE FlattenSeq([i \in DOMAIN segs |->
                 IF i \in wanted THEN Clip(segs[i], ends[i - 1], start, end) ELSE << >>])

\* The parts of the pieces that lie in start..end, from start on.
PiecesIn(pieces, start, end) ==
    [k \in DOMAIN pieces |-> [off |-> Larger(pieces[k].off, start) - start,
                              bytes |-> Clip(pieces[k].bytes, pieces[k].off, start, end)]]

ReadRange(p, start, length) ==
    LET q == IF rows[p].tag = "link" THEN rows[p].to ELSE p
        r == rows[q]
        end == start + length
    IN  CASE r.tag = "pack" -> Cut(Blob(r.of), r.off + start, r.off + end)
          [] r.tag = "blob" -> Cut(Blob(r.of), start, end)
          [] r.tag = "cdc" ->
                FlattenSeq(Clipped([i \in DOMAIN r.parts |-> Blob(r.parts[i])], start, end))
          [] r.tag = "sparse" -> Written(length, PiecesIn(SparseChunks(r), start, end))
          [] OTHER -> RangeVzip(recipes[q], start, end)

-----------------------------------------------------------------------------
Built == phase = "built"

\* A stream that was to be stored in place of a content that is itself the dictionary or
\* a retained stream, and so is stored as it is.
Refused(p) ==
    LET q == IF rows[p].tag = "link" THEN rows[p].to ELSE p
    IN  rows[q].tag = "vzip" /\ \E pl \in ToSet(recipes[q].payloads) :
            /\ Mode(pl) = "canonical"
            /\ pl.raw \in secondary \/ (trained /\ pl.raw = Dictionary)

\* Every file of a built archive reads back as it was scanned, however its bytes are
\* shared, packed and stored (reader.py:188-220). A ZIP file whose member is a retained
\* stream or the dictionary may fail to read; it is never read wrong.
ReadsBack ==
    Built => \A p \in DOMAIN tree : Read(p) = IF Refused(p) THEN Failure ELSE Bytes(p)

\* Every range of a file is that slice of the whole, at every chunk, extent, member
\* and payload boundary and when it is empty (reader.py:222-285, range_vzip).
RangesAgree ==
    Built => \A p \in DOMAIN tree :
        \A start \in 0..Len(Bytes(p)) : \A length \in 0..(Len(Bytes(p)) - start) :
            \/ ReadRange(p, start, length) = Cut(Bytes(p), start, start + length)
            \/ Refused(p) /\ ReadRange(p, start, length) = Failure

\* Contents that a file keeps in several parts, or a link or a ZIP file besides.
StoredElsewhere(c) == \E p \in DOMAIN tree :
    \/ tree[p].kind = "symlink" /\ tree[p].bytes = c
    \/ tree[p].kind = "file" /\ (Len(tree[p].bytes) > Large \/ tree[p].extents # << >>)
       /\ \E i, j \in 0..Len(tree[p].bytes) : Cut(tree[p].bytes, i, j) = c
    \/ tree[p].kind = "zip" /\ (\/ FlattenSeq(tree[p].gaps) = c
                                \/ \E m \in ToSet(tree[p].members) : m.raw = c)

\* Files that may be packed; the contents others make up, or the ZIP files of a cohort.
IsCohort == Cardinality(Deferred) >= Cohort
SmallFiles == {p \in DOMAIN tree : /\ tree[p].kind = "file" \/ (tree[p].kind = "zip" /\ ~IsCohort)
                                  /\ Len(tree[p].bytes) <= MicroMax}
PackOfOthers(c) == \E p, q \in SmallFiles :
    /\ {tree[p].bytes, tree[q].bytes} \cap {<< >>, c} = {}
    /\ Len(tree[p].bytes) + Len(tree[q].bytes) <= Len(c)
    /\ Cut(c, 0, Len(tree[p].bytes)) = tree[p].bytes
    /\ Cut(c, Len(c) - Len(tree[q].bytes), Len(c)) = tree[q].bytes
CohortPack == FlattenSeq(BytesOf(InOrder(Deferred)))
PackOfCohort(c) ==
    IsCohort /\ \E s \in Orders(Deferred) : \E g \in Runs(s) : c = FlattenSeq(BytesOf(g))

\* A build fails only over what the tree holds: a small text file that something else
\* stores again, a file that is ZIP files of a cohort one after the other, a ZIP file
\* that is none, a container beyond the decode unit
\* (builder.py:184, v030_release_locality.py:162, codec.py:163, v030_release_locality.py:150).
FailsOnlyOver ==
    phase = "failed" =>
        \/ \E p \in SmallFiles : LET c == tree[p].bytes
                                IN  StoredElsewhere(c) \/ PackOfOthers(c) \/ PackOfCohort(c)
        \/ release /\ IsCohort /\ (\/ StoredElsewhere(CohortPack)
                                  \/ \E p \in DOMAIN tree : /\ tree[p].kind = "file"
                                                            /\ tree[p].bytes = CohortPack)
        \/ ~IsCohort /\ \E p \in Deferred : tree[p].gaps = << >>
        \/ release /\ IsCohort /\ \E p \in Deferred : Len(Bytes(p)) > Unit

\* Once every file with a small content reads from a micro-pack, the content, which left
\* the table, is redundant: nothing refers to it (the comment at builder.py:180-181).
MicroPacked == {p \in DOMAIN rows : rows[p].tag = "pack" /\ (tree[p].kind = "file" \/ ~IsCohort)}
PackedIsRedundant ==
    phase \in {"train", "encode", "map"} =>
        \A p \in MicroPacked : Bytes(p) \in Refs => Bytes(p) \in DOMAIN cands

\* Nothing is stored that no file needs, but what a recipe that was given up left.
GivenUp == {p \in Deferred \cap DOMAIN rows : ~IsCohort /\ rows[p].tag # "vzip"}
Abandoned == UNION {UNION {{m.raw, Stream(m)} : m \in ToSet(tree[p].members)} : p \in GivenUp}
NothingIdle == Built => DOMAIN codec \subseteq Refs \cup Abandoned

\* A build by worker threads stores every content as a build in one thread does,
\* though they do not see its text policy (builder.py:266-268, v030_worker_policy_capture).
SameAsOneThread == \A c \in DOMAIN codec : codec[c] = Encoded(c, "builder")

\* Reading a container from a release archive decodes at most Amplification times
\* its size and no more than a unit (v030_release_locality.py:18-23).
ReleaseIsLocal ==
    Built /\ release /\ IsCohort => \A p \in Deferred :
        Len(rows[p].of) <= Smaller(Unit, Amplification * Larger(1, rows[p].len))
=============================================================================
