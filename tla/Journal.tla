------------------------------ MODULE Journal ------------------------------
(***************************************************************************)
(* The transactional journal of a CMPCT archive: the append-only writers   *)
(* of transactions.py and the open path of reader.py, over one file that   *)
(* may lose its unsynced tail at any moment.                               *)
(*                                                                         *)
(* The file is a sequence of cells, a cell being what one struct or one    *)
(* payload occupies in the byte stream; a position in the sequence stands  *)
(* for a byte offset.  0 is the "no footer" offset of the code.            *)
(***************************************************************************)
EXTENDS Naturals, Sequences, FiniteSets, FiniteSetsExt

CONSTANTS
    Writers,      \* processes that run append_update/_delete/_rename
    Paths,        \* canonical logical paths of members
    Contents,     \* distinct blob contents (equal iff equal SHA-256)
    Archives,     \* contents stored verbatim that end in a commit footer
    Parts,        \* member contents, each the sequence of blobs it is cut into
    BaseBlobs,    \* blob tables the builder may have written
    BaseTails,    \* how the builder's footer is found: "whole" or "torn"
    MaxDepth,     \* longest delta chain (63 in the code)
    OneWriter,    \* TRUE: callers never run two mutations at once
    ShortWrites,  \* TRUE: a write() may accept fewer bytes than given
    MaxLen        \* bound: no mutation starts if it could outgrow this length

NoContent == "none"    \* where no blob record is

ASSUME JournalAssumption ==
    /\ Archives \subseteq Contents
    /\ NoContent \notin Contents
    /\ Parts \subseteq Seq(Contents)
    /\ BaseBlobs \subseteq Seq(Contents)
    /\ \A blobs \in BaseBlobs : \A i \in DOMAIN blobs : << blobs[i] >> \in Parts
    /\ BaseTails \subseteq {"whole", "torn"}
    /\ MaxDepth \in Nat
    /\ MaxLen \in Nat
    /\ OneWriter \in BOOLEAN
    /\ ShortWrites \in BOOLEAN

VARIABLES
    file,    \* the bytes every process sees
    synced,  \* length of the prefix that survives a power loss
    pc,      \* writer -> next step of its mutation
    job,     \* writer -> what its mutation read and planned
    acked    \* history: footers whose mutation returned to its caller

vars == <<file, synced, pc, job, acked>>

-----------------------------------------------------------------------------
(* What the file holds.                                                    *)

\* An index: its members, the blob indices in the row of each (<< >> for a path
\* without a row), and the blob table (blob index -> offset of its record).
Views == [members : SUBSET Paths, rows : [Paths -> Seq(Nat)], blobs : Seq(Nat)]
NoView == [members |-> {}, rows |-> [p \in Paths |-> << >>], blobs |-> << >>]

Ops == [tag : {"put"}, path : Paths, refs : Seq(Nat)]
         \cup [tag : {"del"}, path : Paths]
         \cup [tag : {"ren"}, path : Paths, new : Paths]

Deltas == [kind : {"delta"}, blobs : Seq(Nat), op : Ops]
Checkpoints == [kind : {"checkpoint"}, view : Views]
Generations == Deltas \cup Checkpoints

\* What the chain walk from a footer yields (_index_from_footer).
Walks == [ok : BOOLEAN, view : Views, depth : Nat]
Unreadable == [ok |-> FALSE, view |-> NoView, depth |-> 0]

Header(view) == [t |-> "head", view |-> view]
Blob(c) == [t |-> "blob", content |-> c]
Payload(g) == [t |-> "gen", gen |-> g]
Footer(g, prev, walk) == [t |-> "foot", gen |-> g, prev |-> prev, walk |-> walk]
Torn == [t |-> "torn"]

Cells == [t : {"head"}, view : Views]
           \cup [t : {"blob"}, content : Contents]
           \cup [t : {"gen"}, gen : Generations]
           \cup [t : {"foot"}, gen : Generations, prev : Nat, walk : Walks]
           \cup {Torn}

-----------------------------------------------------------------------------
(* Opening an archive.                                                     *)

\* One generation's delta replayed on the view it was made from.
MembersAfterCopying(members, op) ==      \* slip: a rename keeps the old path
    CASE op.tag = "put" -> members \cup {op.path}
      [] op.tag = "del" -> members \ {op.path}
      [] op.tag = "ren" -> members \cup {op.new}

MembersAfter(members, op) ==
    CASE op.tag = "put" -> members \cup {op.path}
      [] op.tag = "del" -> members \ {op.path}
      [] op.tag = "ren" -> (members \ {op.path}) \cup {op.new}

RowsAfterDropping(rows, op) ==             \* slip: a deleted row leaves the table
    CASE op.tag = "put" -> [rows EXCEPT ![op.path] = op.refs]
      [] op.tag = "del" -> [q \in DOMAIN rows \ {op.path} |-> rows[q]]
      [] op.tag = "ren" -> [rows EXCEPT ![op.path] = << >>, ![op.new] = rows[op.path]]

RowsAfter(rows, op) ==
    CASE op.tag = "put" -> [rows EXCEPT ![op.path] = op.refs]
      [] op.tag = "del" -> [rows EXCEPT ![op.path] = << >>]
      [] op.tag = "ren" -> [rows EXCEPT ![op.path] = << >>, ![op.new] = rows[op.path]]

Replay(view, delta) == [members |-> MembersAfter(view.members, delta.op),
                        rows    |-> RowsAfter(view.rows, delta.op),
                        blobs   |-> view.blobs \o delta.blobs]

\* A footer holds the hash of the payload that must lie immediately before it.
IsCommit(f, p) == /\ p > 1
                  /\ f[p].t = "foot"
                  /\ f[p - 1] = Payload(f[p].gen)

\* A record stored verbatim whose content ends in a commit footer of its own:
\* the backward scan cannot tell it from a footer of this archive.
IsEmbedded(f, p) == f[p].t = "blob" /\ f[p].content \in Archives

\* The offsets the backward scan accepts: the hash matches and the chain of
\* previous footers reaches a checkpoint.
Footers(f) == {p \in 1..Len(f) : \/ IsCommit(f, p) /\ f[p].walk.ok
                                 \/ IsEmbedded(f, p)}

WalkAt(f, p) == IF f[p].t = "foot"
                THEN f[p].walk
                ELSE [ok |-> TRUE, view |-> NoView, depth |-> 0]

\* The walk from a footer about to be appended to f.  Cells below a synced
\* footer never change, so the walk is the same whenever it is made (WalkAgrees).
WalkFrom(f, g, prev) ==
    IF g.kind = "checkpoint"
    THEN [ok |-> TRUE, view |-> g.view, depth |-> 0]
    ELSE IF prev \in Footers(f)
         THEN [ok |-> TRUE,
               view |-> Replay(WalkAt(f, prev).view, g),
               depth |-> WalkAt(f, prev).depth + 1]
         ELSE Unreadable

\* _index_from_footer over the footers at or below each position of the file:
\* follow prev until a checkpoint, then replay the deltas on it.
Walk(f) ==
    LET walk[p \in 0..Len(f)] ==
        IF p > 0 /\ IsEmbedded(f, p) THEN [ok |-> TRUE, view |-> NoView, depth |-> 0]
        ELSE IF ~(p > 0 /\ IsCommit(f, p)) THEN Unreadable
        ELSE IF f[p].gen.kind = "checkpoint"
             THEN [ok |-> TRUE, view |-> f[p].gen.view, depth |-> 0]
        ELSE LET up == walk[f[p].prev]
             IN  IF f[p].prev = 0 \/ ~up.ok THEN Unreadable
                 ELSE [ok |-> TRUE, view |-> Replay(up.view, f[p].gen), depth |-> up.depth + 1]
    IN  walk

OpenedForward(f) ==                      \* slip: the scan starts at the front
    LET footers == Footers(f)
        p == Min(footers)
    IN  IF footers = {}
        THEN [pos |-> 0, depth |-> 0, view |-> f[1].view]
        ELSE [pos |-> p, depth |-> WalkAt(f, p).depth, view |-> WalkAt(f, p).view]

\* The newest footer wins; without one the index behind the header is used,
\* with footer offset 0 and depth 0.
Opened(f) ==
    LET footers == Footers(f)
        p == Max(footers)
    IN  IF footers = {}
        THEN [pos |-> 0, depth |-> 0, view |-> f[1].view]
        ELSE [pos |-> p, depth |-> WalkAt(f, p).depth, view |-> WalkAt(f, p).view]

\* The content a blob record holds, NoContent where there is no such record.
ContentAt(f, p) == IF p \in 1..Len(f) /\ f[p].t = "blob" THEN f[p].content
                   ELSE NoContent

\* What a view shows its user: member -> sequence of contents.
TreeOf(f, view) ==
    [p \in view.members |->
        [i \in DOMAIN view.rows[p] |-> ContentAt(f, view.blobs[view.rows[p][i]])]]

-----------------------------------------------------------------------------
(* The mutations.                                                          *)

NoGeneration == [kind |-> "checkpoint", view |-> NoView]
NoJob == [prev |-> 0, depth |-> 0, view |-> NoView, put |-> << >>,
          new |-> << >>, gen |-> NoGeneration, at |-> 0]

\* put: << >> or <<member, its blobs>>; new: contents of the records to write;
\* at: where the commit footer was written, 0 before that.
Jobs == [prev : Nat, depth : Nat, view : Views, put : {<< >>} \cup (Paths \X Parts),
         new : Seq(Contents), gen : Generations, at : Nat]

Steps == {"idle", "plan", "records", "payload", "flush", "footer", "sync"}

\* The builder writes header and index, records, and the index again with a
\* footer; "torn" is a file whose footer was cut off or damaged since.
BaseFile(view, blobs, tail) ==
    << Header(view) >> \o [i \in DOMAIN blobs |-> Blob(blobs[i])]
      \o << Payload([kind |-> "checkpoint", view |-> view]) >>
      \o << IF tail = "torn" THEN Torn
            ELSE Footer([kind |-> "checkpoint", view |-> view], 0,
                        [ok |-> TRUE, view |-> view, depth |-> 0]) >>

Init ==
    /\ \E blobs \in BaseBlobs, members \in SUBSET Paths, tail \in BaseTails :
         \E ref \in [members -> DOMAIN blobs] :
            file = BaseFile([members |-> members,
                             rows    |-> [p \in Paths |-> IF p \in members THEN << ref[p] >>
                                                                         ELSE << >>],
                             blobs   |-> [i \in DOMAIN blobs |-> i + 1]],
                            blobs, tail)
    /\ synced = Len(file)
    /\ pc = [w \in Writers |-> "idle"]
    /\ job = [w \in Writers |-> NoJob]
    /\ acked = Footers(file)

\* The code takes no lock: that one mutation runs at a time is the caller's duty.
MayStart(w) == /\ pc[w] = "idle"
               /\ OneWriter => \A v \in Writers : pc[v] = "idle"
               /\ Len(file) <= MaxLen

Begin(w, step, put, gen) ==
    LET o == Opened(file)
    IN  /\ job' = [job EXCEPT ![w] = [prev |-> o.pos, depth |-> o.depth, view |-> o.view,
                                      put |-> put, new |-> << >>, gen |-> gen, at |-> 0]]
        /\ pc' = [pc EXCEPT ![w] = step]
        /\ UNCHANGED <<file, synced, acked>>

LateCheckpoint(view, depth, delta) ==    \* slip: one delta too many
    IF depth > MaxDepth
    THEN [kind |-> "checkpoint", view |-> Replay(view, delta)]
    ELSE delta

\* A full index replaces the delta once the chain has MaxDepth deltas.
GenerationOf(view, depth, delta) ==
    IF depth >= MaxDepth
    THEN [kind |-> "checkpoint", view |-> Replay(view, delta)]
    ELSE delta

RowDelta(op) == [kind |-> "delta", blobs |-> << >>, op |-> op]

AppendDelete(w, p) ==
    LET o == Opened(file)
    IN  /\ MayStart(w)
        /\ p \in o.view.members
        /\ Begin(w, "payload", << >>,
                 GenerationOf(o.view, o.depth, RowDelta([tag |-> "del", path |-> p])))

AppendRename(w, p, q) ==
    LET o == Opened(file)
    IN  /\ MayStart(w)
        /\ p \in o.view.members
        /\ q \notin o.view.members
        /\ Begin(w, "payload", << >>,
                 GenerationOf(o.view, o.depth,
                              RowDelta([tag |-> "ren", path |-> p, new |-> q])))

\* append_update reads the archive and closes it ...
AppendUpdate(w, p, parts) ==
    /\ MayStart(w)
    /\ Begin(w, "plan", << p, parts >>, NoGeneration)

\* ... then takes the file's size, and plans the records to append behind it.
\* Blobs already stored are reused, new ones keep the order of first use.
Stored(view, c) == {i \in 1..Len(view.blobs) : ContentAt(file, view.blobs[i]) = c}
OffsetFromFooter(i) == Opened(file).pos + i   \* slip: forgets what a crash left behind
RecordOffset(i) == Len(file) + i
FirstUse(parts, c) == Min({i \in DOMAIN parts : parts[i] = c})
RefTo(view, new, c) == IF Stored(view, c) # {}
                       THEN Min(Stored(view, c))
                       ELSE Len(view.blobs) + CHOOSE i \in DOMAIN new : new[i] = c

PlanUpdate(w) ==
    LET j == job[w]
        path == j.put[1]
        parts == j.put[2]
        fresh == {c \in {parts[i] : i \in DOMAIN parts} : Stored(j.view, c) = {}}
    IN  /\ pc[w] = "plan"
        /\ \E n \in 0..Len(parts) : \E new \in [1..n -> fresh] :
             /\ fresh = {new[i] : i \in DOMAIN new}
             /\ \A i, k \in DOMAIN new :
                   i < k => FirstUse(parts, new[i]) < FirstUse(parts, new[k])
             /\ LET delta == [kind  |-> "delta",
                              blobs |-> [i \in DOMAIN new |-> RecordOffset(i)],
                              op    |-> [tag  |-> "put", path |-> path,
                                         refs |-> [i \in DOMAIN parts |->
                                                     RefTo(j.view, new, parts[i])]]]
                IN  job' = [job EXCEPT ![w].new = new,
                                       ![w].gen = GenerationOf(j.view, j.depth, delta)]
             /\ pc' = [pc EXCEPT ![w] = IF new = << >> THEN "payload" ELSE "records"]
        /\ UNCHANGED <<file, synced, acked>>

\* One write() call: all cells, or with ShortWrites some bytes at least, so a
\* prefix of them that may end in a cut cell; the code does not look at the count write() returns.
Written(cells) ==
    {cells} \cup IF ShortWrites
                 THEN {SubSeq(cells, 1, n) : n \in 1..Len(cells) - 1}
                        \cup {SubSeq(cells, 1, n) \o << Torn >> : n \in 0..Len(cells) - 1}
                 ELSE {}

WriteRecords(w) ==
    /\ pc[w] = "records"
    /\ \E out \in Written([i \in DOMAIN job[w].new |-> Blob(job[w].new[i])]) :
          file' = file \o out
    /\ pc' = [pc EXCEPT ![w] = "payload"]
    /\ UNCHANGED <<synced, job, acked>>

WritePayload(w) ==
    /\ pc[w] = "payload"
    /\ \E out \in Written(<< Payload(job[w].gen) >>) : file' = file \o out
    /\ pc' = [pc EXCEPT ![w] = "flush"]
    /\ UNCHANGED <<synced, job, acked>>

FlushNothing(w) ==                       \* slip: no fsync before the footer
    /\ pc[w] = "flush"
    /\ pc' = [pc EXCEPT ![w] = "footer"]
    /\ UNCHANGED <<file, synced, job, acked>>

Flush(w) ==
    /\ pc[w] = "flush"
    /\ synced' = Len(file)
    /\ pc' = [pc EXCEPT ![w] = "footer"]
    /\ UNCHANGED <<file, job, acked>>

\* The commit point: a reader that opens the file from here on sees the new index.
WriteFooter(w) ==
    LET j == job[w]
    IN  /\ pc[w] = "footer"
        /\ \E out \in Written(<< Footer(j.gen, j.prev, WalkFrom(file, j.gen, j.prev)) >>) :
              file' = file \o out
        /\ job' = [job EXCEPT ![w].at = Len(file) + 1]
        /\ pc' = [pc EXCEPT ![w] = "sync"]
        /\ UNCHANGED <<synced, acked>>

AcknowledgeUnsynced(w) ==                \* slip: no fsync after the footer
    /\ pc[w] = "sync"
    /\ acked' = acked \cup {job[w].at}
    /\ pc' = [pc EXCEPT ![w] = "idle"]
    /\ job' = [job EXCEPT ![w] = NoJob]
    /\ UNCHANGED <<file, synced>>

Acknowledge(w) ==
    /\ pc[w] = "sync"
    /\ synced' = Len(file)
    /\ acked' = acked \cup {job[w].at}
    /\ pc' = [pc EXCEPT ![w] = "idle"]
    /\ job' = [job EXCEPT ![w] = NoJob]
    /\ UNCHANGED file

Mutation(w) == \/ \E p \in Paths : AppendDelete(w, p)
               \/ \E p, q \in Paths : AppendRename(w, p, q)
               \/ \E p \in Paths, parts \in Parts : AppendUpdate(w, p, parts)
               \/ PlanUpdate(w)
               \/ WriteRecords(w)
               \/ WritePayload(w)
               \/ Flush(w)
               \/ WriteFooter(w)
               \/ Acknowledge(w)

-----------------------------------------------------------------------------
(* Failures.                                                               *)

\* The mutating process dies, or leaves with an exception: what it wrote stays.
Kill(w) ==
    /\ pc[w] # "idle"
    /\ pc' = [pc EXCEPT ![w] = "idle"]
    /\ job' = [job EXCEPT ![w] = NoJob]
    /\ UNCHANGED <<file, synced, acked>>

Damaged(f, n, cells) == [i \in 1..n |-> IF i \in cells THEN Torn ELSE f[i]]

\* The machine stops: of the unsynced cells a prefix stays, some of them damaged.
PowerLoss ==
    /\ \E n \in synced..Len(file) :
         \E damaged \in SUBSET ((synced + 1)..n) :
            file' = Damaged(file, n, damaged)
    /\ synced' = Len(file')
    /\ pc' = [w \in Writers |-> "idle"]
    /\ job' = [w \in Writers |-> NoJob]
    /\ UNCHANGED acked

Next == \/ \E w \in Writers : Mutation(w) \/ Kill(w)
        \/ PowerLoss

Spec == Init /\ [][Next]_vars

-----------------------------------------------------------------------------
(* What must hold.                                                         *)

\* Every variable has the shape the code gives it, and the header is in the
\* synced prefix (the state of transactions.py:27-132 and reader.py:41-109).
TypeOK ==
    /\ file \in Seq(Cells)
    /\ synced \in 1..Len(file)
    /\ file[1].t = "head"
    /\ pc \in [Writers -> Steps]
    /\ job \in [Writers -> Jobs]
    /\ acked \subseteq Nat

\* A footer the scan accepts never outlives what it is built on: a delta footer
\* names an earlier footer the scan still accepts, and its walk is that one's
\* walk with the delta replayed.  So no crash, kill or other writer can make an
\* accepted chain dangle (reader.py:60-84, transactions.py:95-99).
ChainSound ==
    \A q \in Footers(file) :
        IsCommit(file, q) /\ file[q].gen.kind = "delta" =>
            /\ file[q].prev \in Footers(file)
            /\ file[q].prev < q
            /\ file[q].walk.view = Replay(WalkAt(file, file[q].prev).view, file[q].gen)
            /\ file[q].walk.depth = WalkAt(file, file[q].prev).depth + 1

\* The walk noted when a footer was written is the walk an open makes now: what
\* lies below an accepted footer has not changed (reader.py:60-84).
WalkAgrees ==
    LET walk == Walk(file)
    IN  \A p \in 1..Len(file) :
            IF p \in Footers(file) THEN walk[p] = WalkAt(file, p) ELSE ~walk[p].ok

\* Checkpoints keep the chain any open has to walk within MaxDepth deltas, also
\* across crashes and restarts (transactions.py:78-88).
DepthBounded == \A q \in Footers(file) : WalkAt(file, q).depth <= MaxDepth

\* A mutation that returned to its caller stays committed: its footer is synced
\* and still accepted, whatever was lost or appended since (transactions.py:95-99).
AckedDurable == \A q \in acked : q <= synced /\ q \in Footers(file)

\* The accepted footers form one history: no footer bypasses an earlier one, so
\* every accepted generation is contained in the newest (transactions.py:50, 93).
LinearHistory ==
    \A p, q \in Footers(file) : p < q /\ IsCommit(file, q) => file[q].prev >= p

\* No accepted index names a blob record that is not there: the offsets planned
\* from stat() are where the records land (transactions.py:56-65).
RefsResolve ==
    \A q \in Footers(file) :
        LET view == WalkAt(file, q).view
        IN  \A p \in view.members : \A i \in DOMAIN view.rows[p] :
               /\ view.rows[p][i] \in DOMAIN view.blobs
               /\ ContentAt(file, view.blobs[view.rows[p][i]]) # NoContent

-----------------------------------------------------------------------------
(* Why it holds: what is invariant under every step (JournalProofs).       *)

\* A footer cell is built on a footer below it that was synced before, and a
\* readable one records a chain within the bound.
CellsSound ==
    \A q \in 1..Len(file) : file[q].t = "foot" =>
        /\ file[q].prev < q
        /\ file[q].prev <= synced
        /\ file[q].walk.depth <= MaxDepth
        /\ file[q].walk.ok /\ file[q].gen.kind = "delta" =>
              /\ file[q].prev \in Footers(file)
              /\ file[q].walk.view = Replay(WalkAt(file, file[q].prev).view, file[q].gen)
              /\ file[q].walk.depth = WalkAt(file, file[q].prev).depth + 1

\* A footer cell notes the walk made when it was written: the index of a checkpoint
\* is its own, and a delta that led to none then leads to none now.
WalksNoted ==
    \A q \in 1..Len(file) : file[q].t = "foot" =>
        /\ file[q].gen.kind = "checkpoint" =>
              file[q].walk = [ok |-> TRUE, view |-> file[q].gen.view, depth |-> 0]
        /\ file[q].gen.kind = "delta" /\ ~file[q].walk.ok =>
              file[q].prev \notin Footers(file)

\* What a mutation read when it opened the archive is still what an open from
\* that footer yields; a delta is only planned below the bound; the footer is
\* written once everything up to the footer it builds on is synced.
JobSound ==
    \A w \in Writers : pc[w] # "idle" =>
        LET j == job[w]
        IN  /\ j.prev <= Len(file)
            /\ j.prev # 0 => /\ j.prev \in Footers(file)
                             /\ WalkAt(file, j.prev).view = j.view
                             /\ WalkAt(file, j.prev).depth = j.depth
            /\ pc[w] = "plan" => j.put # << >>
            /\ pc[w] # "plan" /\ j.gen.kind = "delta" => j.depth < MaxDepth
            /\ pc[w] \in {"footer", "sync"} => j.prev <= synced

\* The inductive invariant, for any number of writers and any kind of write.
IndInv == TypeOK /\ CellsSound /\ JobSound

\* What the callers and the system have to grant for the stronger promises:
\* one mutation at a time, whole writes, no record that ends in a footer stored
\* verbatim, and an archive whose own footer was intact to begin with.
Granted == /\ OneWriter
           /\ ~ShortWrites
           /\ Archives = {}
           /\ BaseTails = {"whole"}

\* Granted that, a mutation builds on the newest footer until it writes its own,
\* right behind its payload.
SoleWriter ==
    /\ \A v, w \in Writers : pc[v] # "idle" /\ pc[w] # "idle" => v = w
    /\ acked # {}
    /\ \A w \in Writers :
         /\ pc[w] \notin {"idle", "sync"} =>
               /\ job[w].prev \in Footers(file)
               /\ \A p \in Footers(file) : p <= job[w].prev
         /\ pc[w] \in {"flush", "footer"} => file[Len(file)] = Payload(job[w].gen)
         /\ pc[w] = "sync" => job[w].at \in Footers(file)

HistoryInv == SoleWriter /\ LinearHistory /\ AckedDurable
=============================================================================
