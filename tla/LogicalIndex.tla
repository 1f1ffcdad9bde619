--------------------------- MODULE LogicalIndex ---------------------------
(***************************************************************************)
(* The file table of an archive: the rows the builder makes of a directory *)
(* tree, the mutations that edit them as deltas or in a checkpoint, the    *)
(* replay every open does, and the extraction that compaction rebuilds     *)
(* from.  What rows say of each other (hard links, parents, owners kept by *)
(* position) is what matters here; how they reach the disk is Journal's.   *)
(***************************************************************************)
EXTENDS Naturals, Sequences, FiniteSets, FiniteSetsExt, SequencesExt

CONSTANTS
    Sorted,     \* all logical paths, in the order of their strings
    Walked,     \* the canonical ones, in the order of the directory walk
    Parent,     \* path -> the path above it, None at the root
    Canon,      \* path -> the canonical path it is extracted to
    Updates,    \* contents that append_update may write
    Owners,     \* owners of files
    Root,       \* the owner (0, 0), which also runs the compaction
    HardLinks,  \* TRUE: directory trees may contain hard links
    MaxDepth,   \* longest run of deltas before a checkpoint (63 in the code)
    MaxAge      \* bound: mutations of one archive

None == "none"
Unreadable == "unreadable"
Paths == ToSet(Sorted)
Canonical == {p \in Paths : Canon[p] = p}
Contents == Paths \cup Updates     \* what is first found at a path is named by it

ASSUME IndexAssumption ==
    /\ Sorted \in Seq(Paths) /\ Walked \in Seq(Canonical)
    /\ \A i, j \in DOMAIN Sorted : Sorted[i] = Sorted[j] => i = j
    /\ ToSet(Walked) = Canonical
    /\ \A i, j \in DOMAIN Walked : Walked[i] = Walked[j] => i = j
    /\ Parent \in [Paths -> Canonical \cup {None}]
    /\ \A i, j \in DOMAIN Sorted : Parent[Sorted[i]] = Sorted[j] => j < i
    /\ Canon \in [Paths -> Canonical]
    /\ {None, Unreadable} \cap Contents = {}
    /\ Root \in Owners
    /\ HardLinks \in BOOLEAN
    /\ MaxDepth \in Nat /\ MaxAge \in Nat

VARIABLES
    base,   \* the index of the last checkpoint
    log,    \* the operations of the deltas since
    plain,  \* history: the index had every mutation since the build been a delta
    age     \* mutations so far

vars == <<base, log, plain, age>>

-----------------------------------------------------------------------------
(* Rows and indexes.                                                       *)

DirRow(p) == [path |-> p, kind |-> "dir", content |-> None, target |-> None]
FileRow(p, c) == [path |-> p, kind |-> "file", content |-> c, target |-> None]
LinkRow(p, q) == [path |-> p, kind |-> "link", content |-> None, target |-> q]

Place(p, order) == CHOOSE i \in DOMAIN order : order[i] = p
Rank == [p \in Paths |-> Place(p, Sorted)]

\* What s has at the places S, in the order of their keys.
Taken(s, S, key) ==
    [n \in 1..Cardinality(S) |->
        s[CHOOSE i \in S : Cardinality({j \in S : key[j] <= key[i]}) = n]]
InPlace(s, S) == Taken(s, S, [i \in S |-> i])

\* (Rows and ranks are bound so that TLC evaluates them once.)
ByPath(rows) ==
    CHOOSE s \in UNION {{Taken(r, DOMAIN r, key) : key \in {[i \in DOMAIN r |-> Rank[r[i].path]]}}
                          : r \in {rows}} : TRUE

Members(rows) == {r.path : r \in ToSet(rows)}
At(rows, p) == CHOOSE i \in DOMAIN rows : rows[i].path = p
RowOf(rows, p) == rows[At(rows, p)]
OwnerOf(index, p) == LET i == At(index.rows, p)
                     IN  IF i \in DOMAIN index.over THEN index.over[i] ELSE index.common

Above == LET above[p \in Paths] == IF Parent[p] = None THEN {}
                                   ELSE {Parent[p]} \cup above[Parent[p]]
         IN  above

\* read(): follow hard links by the path they name (around a cycle without end), n of
\* them at most.
Link(q, n) == [at |-> q, left |-> n]
Chains(rows) ==
    LET chain[c \in [at : Paths, left : 0..Len(rows)]] ==
          IF c.left > 0 /\ c.at \in Members(rows) /\ RowOf(rows, c.at).kind = "link"
          THEN << c.at >> \o chain[Link(RowOf(rows, c.at).target, c.left - 1)]
          ELSE << c.at >>
    IN  chain
Chain(rows, p) == Chains(rows)[Link(p, Len(rows))]

ContentOf(rows, p) ==
    LET q == Last(Chain(rows, p))
    IN  IF q \in Members(rows) /\ RowOf(rows, q).kind = "file"
        THEN RowOf(rows, q).content ELSE Unreadable

-----------------------------------------------------------------------------
(* Building.                                                               *)

\* A directory tree: path -> node; files with one inode are hard links.
Node(kind, inode, content, owner) ==
    [kind |-> kind, inode |-> inode, content |-> content, owner |-> owner]

FirstWalked(tree, p) ==
    LET same == {q \in DOMAIN tree : /\ tree[q].kind = "file"
                                     /\ tree[q].inode = tree[p].inode}
    IN  CHOOSE q \in same : \A r \in same : Place(q, Walked) <= Place(r, Walked)

BuiltRow(tree, p) ==
    CASE tree[p].kind = "dir" -> DirRow(p)
      [] tree[p].kind = "file" /\ FirstWalked(tree, p) = p -> FileRow(p, tree[p].content)
      [] OTHER -> LinkRow(p, FirstWalked(tree, p))

\* Rows in the order of the walk, then sorted by path; the most frequent owner is
\* stored once.
Build(tree) ==
    LET walk == InPlace(Walked, {i \in DOMAIN Walked : Walked[i] \in DOMAIN tree})
        rows == ByPath([i \in DOMAIN walk |-> BuiltRow(tree, walk[i])])
        Owned(o) == {i \in DOMAIN rows : tree[rows[i].path].owner = o}
        common == CHOOSE o \in Owners :
                     \A q \in Owners : Cardinality(Owned(q)) <= Cardinality(Owned(o))
    IN  [rows   |-> rows,
         common |-> common,
         over   |-> [i \in DOMAIN rows \ Owned(common) |-> tree[rows[i].path].owner]]

\* The trees the builder may find: parents are directories, and what is a hard link
\* shares the owner of its inode, which is named by one of its paths.
IsTree(dirs, inode) ==
    LET files == DOMAIN inode
    IN  /\ \A p \in dirs \cup files : Parent[p] \in dirs \cup {None}
        /\ \A p \in files : /\ inode[inode[p]] = inode[p]
                            /\ ~HardLinks => inode[p] = p

TreeOf(dirs, inode, owner) ==
    [p \in dirs \cup DOMAIN inode |->
        IF p \in dirs THEN Node("dir", p, None, owner[p])
        ELSE Node("file", inode[p], inode[p], owner[inode[p]])]

Init ==
    /\ \E dirs \in SUBSET Canonical : \E files \in SUBSET (Canonical \ dirs) :
         \E inode \in [files -> files], owner \in [dirs \cup files -> Owners] :
            /\ IsTree(dirs, inode)
            /\ base = Build(TreeOf(dirs, inode, owner))
    /\ log = << >>
    /\ plain = base
    /\ age = 0

-----------------------------------------------------------------------------
(* Replaying and mutating.                                                 *)

Put(row) == [tag |-> "put", row |-> row]
Del(p) == [tag |-> "del", path |-> p]
Ren(p, q) == [tag |-> "ren", path |-> p, new |-> q]

\* A put replaces the row where it is or goes to the end; a rename keeps the row
\* where it is.
Edited(rows, op) ==
    CASE op.tag = "put" ->
            IF op.row.path \in Members(rows)
            THEN [rows EXCEPT ![At(rows, op.row.path)] = op.row]
            ELSE Append(rows, op.row)
      [] op.tag = "del" -> InPlace(rows, {i \in DOMAIN rows : rows[i].path # op.path})
      [] op.tag = "ren" ->
            IF op.path \in Members(rows)
            THEN [rows EXCEPT ![At(rows, op.path)].path = op.new]
            ELSE rows

\* Reading a chain: every delta is followed by a sort.
Replayed(index, op) == [index EXCEPT !.rows = ByPath(Edited(@, op))]
View == FoldLeft(Replayed, base, log)

\* The writer applies its own operation to the index it puts into a checkpoint.
AfterUnsorted(index, op) ==             \* slip: the checkpoint is not sorted
    [index EXCEPT !.rows = Edited(@, op)]
IndexAfterOp(index, op) == [index EXCEPT !.rows = ByPath(Edited(@, op))]

\* Opening refuses two rows that would be extracted to one path.
Opens(rows) ==
    \A i, j \in DOMAIN rows : Canon[rows[i].path] = Canon[rows[j].path] => i = j

CheckpointDue == Len(log) >= MaxDepth

Mutate(view, op) ==
    /\ age < MaxAge
    /\ age' = age + 1
    /\ Opens(view.rows)
    /\ IF CheckpointDue
       THEN /\ log' = << >>
            /\ base' = IndexAfterOp(view, op)
       ELSE /\ log' = Append(log, op)
            /\ UNCHANGED base
    /\ plain' = Replayed(plain, op)

UpdateThrough(p, c) ==                  \* slip: hard links are followed
    \E view \in {View} : Mutate(view, Put(FileRow(Last(Chain(view.rows, p)), c)))

\* append_update asks nothing of the path.
Update(p, c) == \E view \in {View} : Mutate(view, Put(FileRow(p, c)))

Delete(p) ==
    \E view \in {View} : /\ p \in Members(view.rows)
                         /\ Mutate(view, Del(p))

\* The parent must be there, as a directory.
Rename(p, q) ==
    \E view \in {View} :
        /\ p \in Members(view.rows)
        /\ q \notin Members(view.rows)
        /\ Parent[q] # None => /\ Parent[q] \in Members(view.rows)
                              /\ RowOf(view.rows, Parent[q]).kind = "dir"
        /\ Mutate(view, Ren(p, q))

-----------------------------------------------------------------------------
(* Extracting and compacting.                                              *)

\* Rows are extracted in table order, directories before all others; missing
\* parents are made.  A hard link needs its target on disk, a parent must not be
\* a file.
Extractable(rows) ==
    /\ Opens(rows)
    /\ \A r, s \in ToSet(rows) :
          Canon[r.path] \in Above[Canon[s.path]] => r.kind = "dir"
    /\ \A i \in DOMAIN rows : rows[i].kind = "link" =>
          \E j \in 1..i - 1 : /\ rows[j].kind # "dir"
                              /\ Canon[rows[j].path] = Canon[rows[i].target]

\* The row whose file a hard link ends up as.
Holder(rows) ==
    LET holder[i \in DOMAIN rows] ==
          IF rows[i].kind = "link"
          THEN holder[CHOOSE j \in 1..i - 1 : Canon[rows[j].path] = Canon[rows[i].target]]
          ELSE i
    IN  holder

OwnerCommon(index, held) == index.common    \* slip: exceptions are not looked up

\* Every row sets the owner of its file; only (0, 0) is left as it is.
OwnerSet(index, held) ==
    LET setting == {i \in held : OwnerOf(index, index.rows[i].path) # Root}
    IN  IF setting = {} THEN Root
        ELSE OwnerOf(index, index.rows[Max(setting)].path)

NoParents(made) == {}                   \* slip: only members are directories
MissingParents(made) == (UNION {Above[p] : p \in made}) \ made

Extracted(index) ==
    LET rows == index.rows
        holder == Holder(rows)
        made == {Canon[r.path] : r \in ToSet(rows)}
        parents == MissingParents(made)
        RowAt(p) == CHOOSE i \in DOMAIN rows : Canon[rows[i].path] = p
        FileAt(p) ==
          LET h == holder[RowAt(p)]
          IN  Node(IF rows[h].kind = "dir" THEN "dir" ELSE "file",
                   Canon[rows[h].path], rows[h].content,
                   OwnerSet(index, {i \in DOMAIN rows : holder[i] = h}))
    IN  [p \in made \cup parents |->
            IF p \in made THEN FileAt(p) ELSE Node("dir", p, None, Root)]

\* Nothing is written unless extraction went through.
Compact ==
    \E view \in {View} :
        /\ UNCHANGED age
        /\ Extractable(view.rows)
        /\ base' = Build(Extracted(view))
        /\ log' = << >>
        /\ plain' = base'

Next == \/ \E p \in Paths, c \in Updates : Update(p, c)
        \/ \E p \in Paths : Delete(p)
        \/ \E p, q \in Paths : Rename(p, q)
        \/ Compact

Spec == Init /\ [][Next]_vars

-----------------------------------------------------------------------------
(* What must hold.                                                         *)

\* When checkpoints are written makes no difference: an open yields the index it
\* would yield had every mutation since the build been a delta, row by row, since
\* owners go by position (transactions.py:78-87, 103-108; reader.py:66-80).
CheckpointsAgree == View = plain

\* Every step but a compaction is a mutation.
Compacts == age' = age

\* Replacing a member leaves every other as it was, but for the hard links that
\* lead to it, which show the new content (transactions.py:76-77, reader.py:176-177).
UpdateInPlace ==
    [][~Compacts => \A old \in {View}, new \in {View'} :
          \A p \in Members(old.rows), c \in Updates : Update(p, c) =>
             \A q \in Members(old.rows) :
                /\ q \in Members(new.rows)
                /\ OwnerOf(new, q) = OwnerOf(old, q)
                /\ ContentOf(new.rows, q) = IF p \in ToSet(Chain(old.rows, q)) THEN c
                                            ELSE ContentOf(old.rows, q)]_vars

\* Members that are one file once hard links are followed.
Joined(rows, p, q) == Last(Chain(rows, p)) = Last(Chain(rows, q))

\* Members that can be read: links may lead to nothing.
Readables(rows) == {p \in Members(rows) : RowOf(rows, p).kind = "dir"
                                             \/ ContentOf(rows, p) # Unreadable}

\* Compacting keeps the live tree: every member, under its canonical path, and its kind;
\* of what can be read content and hard links, and the owner of what has no other name
\* (transactions.py:150-155).
CompactionKeeps ==
    [][Compacts => \A old \in {View}, new \in {View'} :
          LET live == Readables(old.rows)
          IN  /\ \A p \in Members(old.rows) : Canon[p] \in Members(new.rows)
              /\ \A p \in live :
                    /\ (RowOf(new.rows, Canon[p]).kind = "dir") <=> (RowOf(old.rows, p).kind = "dir")
                    /\ ContentOf(new.rows, Canon[p]) = ContentOf(old.rows, p)
                    /\ \A q \in live :
                          Joined(new.rows, Canon[p], Canon[q]) <=> Joined(old.rows, p, q)
                    /\ (\A q \in Members(new.rows) : Joined(new.rows, Canon[p], q) => q = Canon[p])
                          => OwnerOf(new, Canon[p]) = OwnerOf(old, p)]_vars

\* Every member that is no directory can be read.
Readable(rows) == Readables(rows) = Members(rows)

\* Every member lies in a directory that is a member.
ParentsExist(rows) ==
    \A p \in Members(rows) : Parent[p] # None =>
        Parent[p] \in Members(rows) /\ RowOf(rows, Parent[p]).kind = "dir"

\* What preflight asks of the table: no aliases, links that lead to a member
\* without a cycle, and owners for rows that are there.
Accepted(index) ==
    /\ Opens(index.rows)
    /\ \A p \in Members(index.rows) :
          LET q == Last(Chain(index.rows, p))
          IN  q \in Members(index.rows) /\ RowOf(index.rows, q).kind # "link"
    /\ DOMAIN index.over \subseteq DOMAIN index.rows

\* An index as a user expects it.
Sound(index) ==
    /\ Readable(index.rows)
    /\ ParentsExist(index.rows)
    /\ Accepted(index)

\* What compaction writes is sound again, whatever renames and deletes have left
\* behind (transactions.py:149-155, validation.py:452-502).
CompactionHeals == [][Compacts => \A new \in {View'} : Sound(new)]_vars

-----------------------------------------------------------------------------
(* What the code does not keep.                                            *)

\* An archive as it was built can be extracted, hard links and all
\* (README.md:76; builder.py:77 keeps "all link/sparse semantics").
BuiltExtracts == age = 0 => Extractable(View.rows)
=============================================================================
