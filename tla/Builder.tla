------------------------------ MODULE Builder ------------------------------
(***************************************************************************)
(* Building an archive from a scanned tree: the candidate table all files  *)
(* share, micro-packs, container packs and their split for releases, ZIP   *)
(* recipes with retained streams, the dictionary, encoding and resolving   *)
(* references; and what a reader of the result returns, whole or in part.  *)
(* Contents are sequences of small numbers and stand for their hashes.     *)
(***************************************************************************)
EXTENDS Integers, SequencesExt

CONSTANTS
    Trees,          \* scanned trees: sequences of entries in path order
    TextExt,        \* extensions of text
    Binary,         \* the extension release builds treat as text in the build thread
    Chunk,          \* CHUNK
    Large,          \* larger files are cut in chunks (4 * CHUNK in the code)
    MicroMax,       \* micro_pack_max_file
    MicroTarget,    \* micro_pack_target
    ReuseMin,       \* deflate_reuse_min
    Cohort,         \* so many ZIP files are packed as they are (8 in the code)
    Amplification,  \* MAX_MEMBER_READ_AMPLIFICATION
    Unit,           \* MAX_DECODE_UNIT_BYTES
    Levels,         \* the levels zlib reproduces
    Stored,         \* the level of a member that is not compressed
    Samples,        \* a dictionary is trained on so many samples
    Dictionary,     \* and is this content
    Framing         \* 16: what compression must save

Content == Seq(Nat)

Entry ==
    [kind : {"file", "symlink", "hardlink", "zip"}, ext : STRING, bytes : Content,
     extents : Seq(Nat \X Nat),         \* the data of a sparse file: from, to
     to : Nat,                          \* the first path of a hard link's file
     gaps : Seq(Content),               \* a ZIP file: what lies between the payloads,
     members : Seq([raw : Content, level : Nat, ext : STRING])]

\* zlib at a level: a stream that inflates to c and differs from level to level.
Deflate(c, level) == << level >> \o c
Stream(m) == IF m.level = Stored THEN m.raw ELSE Deflate(m.raw, m.level)

\* Literals and streams in turn, literals first and last.
Interleaved(literals, streams) ==
    [k \in 1..(Len(literals) + Len(streams)) |->
        IF k % 2 = 1 THEN literals[(k + 1) \div 2] ELSE streams[k \div 2]]
Streams(members) == [i \in DOMAIN members |-> Stream(members[i])]
ZipBytes(gaps, members) == FlattenSeq(Interleaved(gaps, Streams(members)))

\* The extents of a sparse file are in order and leave a hole; holes are zeros.
SparseEntry(e) ==
    /\ \A i \in DOMAIN e.extents :
          /\ e.extents[i][1] < e.extents[i][2] /\ e.extents[i][2] <= Len(e.bytes)
          /\ \A j \in DOMAIN e.extents : i < j => e.extents[i][2] <= e.extents[j][1]
    /\ \A k \in DOMAIN e.bytes :
          e.bytes[k] = 0 \/ \E i \in DOMAIN e.extents : k \in (e.extents[i][1] + 1)..e.extents[i][2]

\* What the scan can find: a hard link's file was found too, and a ZIP file is its
\* payloads and what lies between them.
Scannable(t) ==
    /\ t \in Seq(Entry)
    /\ \A p \in DOMAIN t :
          /\ t[p].kind = "hardlink" => t[p].to \in DOMAIN t /\ t[t[p].to].kind \in {"file", "zip"}
          /\ t[p].extents # << >> => SparseEntry(t[p])
          /\ t[p].gaps # << >> => /\ Len(t[p].gaps) = Len(t[p].members) + 1
                                 /\ t[p].bytes = ZipBytes(t[p].gaps, t[p].members)

ASSUME BuilderAssumption ==
    /\ {Chunk, Large, MicroMax, MicroTarget, Amplification, Unit} \subseteq Nat \ {0}
    /\ Cohort \in Nat \ {0, 1}
    /\ {ReuseMin, Samples, Framing} \subseteq Nat
    /\ Levels \subseteq Nat /\ Stored \notin Levels
    /\ Dictionary \in Content /\ Binary \notin TextExt
    /\ \A t \in Trees : Scannable(t)

VARIABLES
    tree,       \* the entries found
    release,    \* a release build: its own text policy and locality bound
    phase,      \* the step of build that comes next, "built" or "failed"
    rows,       \* path -> storage, of the paths scanned
    recipes,    \* path -> ZIP recipe
    cands,      \* content -> hints, and streams that inflate to it with their counts
    groups,     \* micro-packs still to be written
    canonical,  \* content -> the stream stored instead of it
    secondary,  \* streams stored as contents
    trained,    \* there is a dictionary
    eligible,   \* contents the build thread lets the dictionary compress
    codec       \* content -> codec, of the records written

scanVars == <<tree, release>>
tableVars == <<rows, recipes, cands>>
planVars == <<groups, canonical, secondary, trained, eligible, codec>>
vars == <<scanVars, phase, tableVars, planVars>>

Init ==
    /\ tree \in Trees /\ release \in BOOLEAN
    /\ phase = "scan"
    /\ rows = << >> /\ recipes = << >> /\ cands = << >>
    /\ groups = << >> /\ canonical = << >> /\ secondary = {}
    /\ trained = FALSE /\ eligible = {} /\ codec = << >>

-----------------------------------------------------------------------------
(* Contents.                                                               *)

Bytes(p) == IF tree[p].kind = "hardlink" THEN tree[tree[p].to].bytes ELSE tree[p].bytes

Smaller(i, j) == IF i < j THEN i ELSE j
Larger(i, j) == IF i < j THEN j ELSE i
Cut(c, from, to) == SubSeq(c, from + 1, to)          \* c[from:to]
Fixed(c) == [k \in 1..((Len(c) + Chunk - 1) \div Chunk) |->
                Cut(c, (k - 1) * Chunk, Smaller(k * Chunk, Len(c)))]

\* All the ways to cut c in two or three parts; the chunker picks one by content.
CdcChunks(c) ==
    {Fixed(c)} \cup
    {<<Cut(c, 0, at[1]), Cut(c, at[1], at[2]), Cut(c, at[2], Len(c))>> :
        at \in {ij \in (1..Len(c)) \X (1..Len(c)) : ij[1] < ij[2] /\ ij[2] < Len(c)}}

Offset(parts, i) == Len(FlattenSeq(SubSeq(parts, 1, i - 1)))

Item(c, hint, streams) == [of |-> c, hint |-> hint, streams |-> streams]

\* The candidate table after all items were added.
AddItems(cs, items) ==
    LET old(c) == IF c \in DOMAIN cs THEN cs[c] ELSE [hints |-> {}, deflates |-> << >>]
        of(c) == {i \in DOMAIN items : items[i].of = c}
        count(d, s) == IF s \in DOMAIN d THEN d[s] ELSE 0
    IN  [c \in DOMAIN cs \cup {items[i].of : i \in DOMAIN items} |->
            [hints    |-> old(c).hints \cup {items[i].hint : i \in of(c)},
             deflates |-> [s \in DOMAIN old(c).deflates \cup UNION {items[i].streams : i \in of(c)} |->
                 count(old(c).deflates, s) + Cardinality({i \in of(c) : s \in items[i].streams})]]]
AddAll(cs, S, hint) == AddItems(cs, [c \in S |-> Item(c, hint, {})])
Without(cs, S) == Restrict(cs, DOMAIN cs \ S)

Text(thread) == TextExt \cup IF release /\ thread = "builder" THEN {Binary} ELSE {}
IsText(c, thread) == cands[c].hints \cap Text(thread) # {}

-----------------------------------------------------------------------------
(* The scan. ZIP files wait until the walk is over.                        *)

Deferred == {p \in DOMAIN tree : tree[p].kind = "zip"}
Walking == phase = "scan" /\ ~(DOMAIN tree \subseteq DOMAIN rows \cup Deferred)
Here == Min(DOMAIN tree \ (DOMAIN rows \cup Deferred))

\* What a row refers to, and adds to the table.
RowRefs(r) == CASE r.tag \in {"blob", "pack"} -> {r.of}
                [] r.tag = "cdc" -> ToSet(r.parts)
                [] r.tag = "sparse" -> UNION {ToSet(e.parts) : e \in ToSet(r.extents)}
                [] OTHER -> {}

\* f with f[x] = y.
Put(f, x, y) == [z \in DOMAIN f \cup {x} |-> IF z = x THEN y ELSE f[z]]

Scanned(storage, hint) ==
    /\ rows' = Put(rows, Here, storage)
    /\ cands' = AddAll(cands, RowRefs(storage), hint)
    /\ UNCHANGED <<scanVars, phase, recipes, planVars>>

ScanSymlink ==
    /\ Walking /\ tree[Here].kind = "symlink"
    /\ Scanned([tag |-> "blob", of |-> tree[Here].bytes], ".symlink")

ScanHardlink ==
    /\ Walking /\ tree[Here].kind = "hardlink"
    /\ Scanned([tag |-> "link", to |-> tree[Here].to], "")

Extents(e) == [i \in DOMAIN e.extents |->
    [off |-> e.extents[i][1], len |-> e.extents[i][2] - e.extents[i][1],
     parts |-> Fixed(Cut(e.bytes, e.extents[i][1], e.extents[i][2]))]]

ScanSparse ==
    /\ Walking /\ tree[Here].kind = "file" /\ tree[Here].extents # << >>
    /\ Scanned([tag |-> "sparse", extents |-> Extents(tree[Here])], tree[Here].ext)

ScanFile ==
    /\ Walking /\ tree[Here].kind = "file" /\ tree[Here].extents = << >>
    /\ LET c == tree[Here].bytes
       IN  IF Len(c) > Large /\ tree[Here].ext # ".wav"
           THEN \E parts \in CdcChunks(c) :
                    Scanned([tag |-> "cdc", parts |-> parts], tree[Here].ext)
           ELSE Scanned([tag |-> "blob", of |-> c], tree[Here].ext)

\* A slice of the content the parts make up.
SliceOf(parts, i) ==
    [tag |-> "pack", of |-> FlattenSeq(parts), off |-> Offset(parts, i), len |-> Len(parts[i])]
IndexIn(s, x) == CHOOSE i \in DOMAIN s : s[i] = x

Waiting == Deferred \ DOMAIN rows
InOrder(S) == CHOOSE s \in [1..Cardinality(S) -> S] : \A i, j \in DOMAIN s : i < j => s[i] < s[j]
BytesOf(paths) == [i \in DOMAIN paths |-> Bytes(paths[i])]

\* A large cohort becomes one container pack.
PackContainers ==
    /\ phase = "scan" /\ ~Walking /\ Cardinality(Deferred) >= Cohort
    /\ LET paths == InOrder(Deferred)
       IN  /\ rows' = [p \in DOMAIN rows \cup Deferred |->
                         IF p \in Deferred THEN SliceOf(BytesOf(paths), IndexIn(paths, p)) ELSE rows[p]]
           /\ cands' = AddAll(cands, {FlattenSeq(BytesOf(paths))}, ".container")
    /\ phase' = "repartition"
    /\ UNCHANGED <<scanVars, recipes, planVars>>

Reproducible(m) == m.level \in Levels \cup {Stored}

Recipe(e) ==
    [skeleton |-> FlattenSeq(e.gaps), lens |-> [i \in DOMAIN e.gaps |-> Len(e.gaps[i])],
     payloads |-> [i \in DOMAIN e.members |->
         [raw |-> e.members[i].raw, stream |-> Stream(e.members[i]), level |-> e.members[i].level]]]
MemberItem(m) == Item(m.raw, m.ext, IF m.level = Stored THEN {} ELSE {Stream(m)})

\* Members enter the table up to the first that cannot be regenerated: then the
\* recipe is given up, not what was added for it.
MakeRecipe ==
    /\ phase = "scan" /\ ~Walking /\ Waiting # {} /\ Cardinality(Deferred) < Cohort
    /\ LET p == Min(Waiting)
           ms == tree[p].members
           known == {i \in DOMAIN ms : \A j \in 1..i : Reproducible(ms[j])}
           added == AddItems(cands, [i \in known |-> MemberItem(ms[i])])
       IN  IF tree[p].gaps = << >>      \* not a ZIP file
           THEN phase' = "failed" /\ UNCHANGED tableVars
           ELSE /\ IF known = DOMAIN ms
                   THEN /\ rows' = Put(rows, p, [tag |-> "vzip"])
                        /\ recipes' = Put(recipes, p, Recipe(tree[p]))
                        /\ cands' = AddAll(added, {Recipe(tree[p]).skeleton}, ".skeleton")
                   ELSE /\ rows' = Put(rows, p, [tag |-> "blob", of |-> Bytes(p)])
                        /\ cands' = AddAll(added, {Bytes(p)}, ".zip")
                        /\ UNCHANGED recipes
                /\ UNCHANGED phase
    /\ UNCHANGED <<scanVars, planVars>>

ScanDone ==
    /\ phase = "scan" /\ DOMAIN rows = DOMAIN tree
    /\ phase' = "repartition"
    /\ UNCHANGED <<scanVars, tableVars, planVars>>

-----------------------------------------------------------------------------
(* Packs.                                                                  *)

\* Greedy groups that keep the order: an item joins the last group where that fits,
\* or starts one.
Grouped(items, fits) ==
    LET gs[i \in 0..Len(items)] ==
            IF i = 0 THEN << >>
            ELSE IF gs[i - 1] # << >> /\ Append(Last(gs[i - 1]), items[i]) \in fits
            THEN Append(Front(gs[i - 1]), Append(Last(gs[i - 1]), items[i]))
            ELSE Append(gs[i - 1], << items[i] >>)
    IN  gs[Len(items)]
Runs(items) == UNION {{SubSeq(items, i, j) : j \in i..Len(items)} : i \in DOMAIN items}

Size(parts) == Len(FlattenSeq(parts))
SmallestFirst(parts) == Larger(1, Len(Head(parts)))  \* slip: not brought up to date

\* The smallest member of a group, kept as the group grows.
Smallest(parts) ==
    LET least[i \in 1..Len(parts)] ==
            IF i = 1 THEN Larger(1, Len(parts[1]))
            ELSE Smaller(least[i - 1], Larger(1, Len(parts[i])))
    IN  least[Len(parts)]
Fits(parts) == Size(parts) <= Smaller(Unit, Amplification * Smallest(parts))

\* What every group is checked against once it is packed.
Local(parts) ==
    Size(parts) <= Smaller(Unit, Amplification * Min({Larger(1, Len(c)) : c \in ToSet(parts)}))

\* The order of the path names, which need not be that of the walk.
Orders(S) == Bijection(1..Cardinality(S), S)

\* A release splits the container pack, path after path, so that no member costs more
\* than Amplification times its size to read.
SplitPack(paths) ==
    LET old == FlattenSeq(BytesOf(InOrder(Deferred)))
        gs == Grouped(paths, {g \in Runs(paths) : Fits(BytesOf(g))})
        packs == {FlattenSeq(BytesOf(gs[i])) : i \in DOMAIN gs}
        group(p) == gs[CHOOSE i \in DOMAIN gs : p \in ToSet(gs[i])]
        slice(p) == SliceOf(BytesOf(group(p)), IndexIn(group(p), p))
    IN  IF ~release \/ Cardinality(Deferred) < Cohort \/ Len(gs) = 1
        THEN phase' = "micro" /\ UNCHANGED tableVars
        ELSE IF \E i \in DOMAIN gs : ~Local(BytesOf(gs[i]))
        THEN phase' = "failed" /\ UNCHANGED tableVars
        ELSE /\ phase' = "micro"
             /\ rows' = [p \in DOMAIN rows |-> IF p \in Deferred THEN slice(p) ELSE rows[p]]
             /\ cands' = Without(AddAll(cands, packs, ".container"), {old} \ packs)
             /\ UNCHANGED recipes

Repartition ==
    /\ phase = "repartition"
    /\ \E paths \in Orders(Deferred) : SplitPack(paths)
    /\ UNCHANGED <<scanVars, planVars>>

Direct(p) == tree[p].kind \in {"file", "zip"} /\ rows[p].tag = "blob"
Small == {rows[p].of : p \in {q \in DOMAIN rows : Direct(q)}}
Eligible == {c \in Small \cap DOMAIN cands :
                /\ cands[c].deflates = << >> /\ Len(c) <= MicroMax /\ IsText(c, "builder")}
Extension(c) == CHOOSE x \in cands[c].hints \cap Text("builder") : TRUE

Alike(g) == \A i, j \in DOMAIN g : Extension(g[i]) = Extension(g[j])

\* Extension by extension, the shortest first, in hash order.
PackOrder(s) ==
    \A i, j \in DOMAIN s : i < j /\ Extension(s[i]) = Extension(s[j]) =>
        Len(s[i]) <= Len(s[j]) /\ Alike(SubSeq(s, i, j))

PlanMicroPacks ==
    /\ phase = "micro"
    /\ \E s \in Bijection(1..Cardinality(Eligible), Eligible) :
          /\ PackOrder(s)
          /\ groups' = Grouped(s, {g \in Runs(s) : Alike(g) /\ Size(g) <= MicroTarget})
    /\ phase' = "flush"
    /\ UNCHANGED <<scanVars, tableVars, canonical, secondary, trained, eligible, codec>>

PackedKept(table, members, whole) == table           \* slip: nothing leaves
PackedAll(table, members, whole) == Without(table, members)  \* slip: the pack may go too

\* The contents of a pack leave the table.
Packed(table, members, whole) == Without(table, members \ {whole})

\* One pack is added, its rows repointed.
FlushMicroPack ==
    /\ phase = "flush" /\ groups # << >>
    /\ LET g == Head(groups)
           whole == FlattenSeq(g)
       IN  /\ rows' = [p \in DOMAIN rows |-> IF Direct(p) /\ rows[p].of \in ToSet(g)
                                THEN SliceOf(g, IndexIn(g, rows[p].of)) ELSE rows[p]]
           /\ cands' = Packed(AddAll(cands, {whole}, ".pack"), ToSet(g), whole)
    /\ groups' = Tail(groups)
    /\ UNCHANGED <<scanVars, phase, recipes, canonical, secondary, trained, eligible, codec>>

-----------------------------------------------------------------------------
(* Streams, dictionary, encoding, references.                              *)

\* Of each content's streams the most frequent is stored in its place. Other streams
\* worth keeping become contents.
PrepareDeflateReuse ==
    /\ phase = "flush" /\ groups = << >>
    /\ LET better(d, s, t) == d[s] > d[t] \/ (d[s] = d[t] /\ Len(s) <= Len(t))
           chosen(d) == CHOOSE s \in DOMAIN d : \A t \in DOMAIN d : better(d, s, t)
           zipped == {c \in DOMAIN cands : cands[c].deflates # << >>}
           others == UNION {DOMAIN cands[c].deflates \ {chosen(cands[c].deflates)} : c \in zipped}
       IN  /\ canonical' = [c \in {c \in zipped : Len(chosen(cands[c].deflates)) >= ReuseMin}
                               |-> chosen(cands[c].deflates)]
           /\ secondary' = {s \in others : Len(s) >= ReuseMin}
           /\ cands' = AddAll(cands, secondary', ".opaque-deflate")
    /\ phase' = "train"
    /\ UNCHANGED <<scanVars, rows, recipes, groups, trained, eligible, codec>>

\* The trainer may be missing or fail. A release notes what its text policy, which
\* other threads do not see, lets the dictionary compress.
TrainDictionary ==
    /\ phase = "train"
    /\ trained' \in {FALSE, Cardinality({c \in DOMAIN cands :
                              ".pack" \notin cands[c].hints /\ IsText(c, "builder")}) >= Samples}
    /\ cands' = IF trained' THEN AddAll(cands, {Dictionary}, ".zdict") ELSE cands
    /\ eligible' = IF trained' /\ release
                   THEN {c \in DOMAIN cands' : cands'[c].hints \cap Text("builder") # {}} ELSE {}
    /\ phase' = "encode"
    /\ UNCHANGED <<scanVars, rows, recipes, groups, canonical, secondary, codec>>

AllowedAfresh(c, thread) == IsText(c, thread)        \* slip: decided again
Allowed(c, thread) == IsText(c, thread) \/ c \in eligible

\* In the build thread, or in those of the ordered worker pull. The smallest encoding:
\* with the dictionary where it is allowed, kept as it is where compression saves too
\* little.
Encoded(c, thread) ==
    IF (trained /\ c = Dictionary) \/ c \in secondary THEN "raw"
    ELSE IF c \in DOMAIN canonical THEN "deflate"
    ELSE IF Len(c) <= Framing THEN "raw"
    ELSE IF trained /\ Allowed(c, thread) THEN "dict" ELSE "zstd"

EncodeCandidates ==
    /\ phase = "encode"
    /\ \E thread \in {"builder", "worker"} :
           codec' = [c \in DOMAIN cands |-> Encoded(c, thread)]
    /\ phase' = "map"
    /\ UNCHANGED <<scanVars, tableVars, groups, canonical, secondary, trained, eligible>>

\* How a recipe gets a payload: the stored stream, a retained one, or zlib again.
Mode(pl) ==
    IF pl.level = Stored THEN "stored"
    ELSE IF pl.raw \in DOMAIN canonical /\ canonical[pl.raw] = pl.stream THEN "canonical"
    ELSE IF pl.stream \in secondary THEN "secondary" ELSE "regenerate"

RecipeRefs(r) ==
    {r.skeleton} \cup {pl.raw : pl \in ToSet(r.payloads)}
    \cup {pl.stream : pl \in {q \in ToSet(r.payloads) : Mode(q) = "secondary"}}
Refs == UNION ({RowRefs(rows[p]) : p \in DOMAIN rows}
               \cup {RecipeRefs(recipes[p]) : p \in DOMAIN recipes}
               \cup {IF trained THEN {Dictionary} ELSE {}})

MapReferences ==
    /\ phase = "map"
    /\ phase' = IF Refs \subseteq DOMAIN codec THEN "built" ELSE "failed"
    /\ UNCHANGED <<scanVars, tableVars, planVars>>

Next ==
    \/ ScanSymlink \/ ScanHardlink \/ ScanSparse \/ ScanFile
    \/ PackContainers \/ MakeRecipe \/ ScanDone \/ Repartition
    \/ PlanMicroPacks \/ FlushMicroPack \/ PrepareDeflateReuse
    \/ TrainDictionary \/ EncodeCandidates \/ MapReferences

Spec == Init /\ [][Next]_vars
=============================================================================
