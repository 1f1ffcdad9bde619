# CMPCT in TLA+

A verification project for CMPCT: the Python package `cmpct` (`src/cmpct`), the program that packs a
directory tree into one `.cmpct` file, reads it back, and changes it by appending *generations*; and the
release product of version 0.30 (`experiments/entropygraph_v030_*`), which builds an archive by several
routes, publishes the best and extracts it as a transaction. Paths below are relative to `src/cmpct` unless
they start with a directory of the repository.

## 1. The system

| part | source | state | operations |
|---|---|---|---|
| Transactional journal | `transactions.py`, open path of `reader.py` | the archive file; per mutation: the footer and index it read, the records and payload it planned | `append_update`, `append_delete`, `append_rename`, open |
| Ordered worker pull | `_ordered_pull.py` | `next_index`, `abort_event`, `failures`, `results`, `claim_lock`, a thread pool | `ordered_worker_pull` |
| Logical index | rows built by `builder.py`, replayed by `reader.py` and `validation.py`, edited by `transactions.py` | ordered file rows (path, kind, target, storage), blob table, recipes, owner table | build, replay, checkpoint, compact, preflight |
| Shared reader | `reader.py`, `native_codec.py` | caches, decoders, four locks, a lazily made thread pool, the mapping | `_blob`, `read`, `verify`, `close` |
| Extraction | `reader.py`, `path_policy.py` | destination tree, links already made | `extractall` |
| Scan and range reads | `reader.py` | none | `_latest_generation`, `read_range` |
| Builder | `builder.py`, `codec.py`, `v030_release_locality.py`, `v030_worker_policy_capture.py` | candidate table, rows, recipes, packs, dictionary | `scan`, `_build_micro_packs`, `_prepare_deflate_reuse`, `build` |
| Validation | `validation.py` | budgets | `preflight` |
| Release product | `experiments/entropygraph_v030_canonical_final_impl.py` and what it calls | the output path, a temporary directory, a child process and its registry, two tournament threads; staging and backup directories | `build`, `extract`, `verify` |
| Codecs, resemblance, mosaic | `codec.py`, `resemblance.py`, `mosaic.py` | none | byte transforms |
| Command line | `cli.py` | none | one subcommand per operation above |
| Native readers, integrations, other experiments, site | outside the package | | a second reader of the format; research and release material |

How they interact. The builder and the mutations write the file; every reader opens it by scanning
backward for the newest footer whose payload hash matches and whose chain of previous footers
reaches a full index (a *checkpoint*). Writers never change bytes that are there: they append, sync,
append a footer, sync. There is no lock between processes. Within a process, the builder encodes
its candidates with the ordered pull, and a reader decodes the chunks of long members in a pool of threads.
A release build runs a build of the package in a child process beside its own preparation, then in a
tournament; it and the extractions of the same path share nothing but that path.

What is hard, and where: the order and durability of four appends under crashes; what the next open
makes of whatever a crash left; chains of deltas and the checkpoint boundary; two writers; short
writes; contents that look like footers; claims, failures and termination in the ordered pull; index
rows that refer to other rows (hard links, parents, owners by position) under renames and deletes;
shared decoders and a lazily made pool against `close()`; a magic across two blocks of a scan, and two
implementations of open that must agree; contents that several rows, recipes and packs share while packing
removes and replaces them; a build that is killed, fails or verifies what it published; renames that may
fail with another extraction in between. `PROJECT.json` lists each at its line.

## 2. Modules

| module | what it is |
|---|---|
| `Journal` | the archive file, the mutations of `transactions.py`, open, kills and power losses |
| `ArchiveStore` | what a transactional archive promises, without files or footers |
| `JournalStore` | the refinement mapping from `Journal` to `ArchiveStore` |
| `MCJournal` | instances of `Journal` |
| `JournalProofs` | theorems about `Journal` and `JournalStore` |
| `Extrema` | lemmas: a set of bounded naturals has a largest and a smallest member, which `Max` and `Min` pick; what holds of a number once it holds of all below it |
| `LogicalIndex` | the file table: build, delta replay, checkpoints, mutations, extraction, compaction |
| `MCLogicalIndex` | instances of `LogicalIndex` |
| `LogicalIndexProofs` | theorems about `LogicalIndex` |
| `ReaderPool` | an open archive: the owner, the pool's threads, the shared cache and decoders, `close()` |
| `MCReaderPool` | instances of `ReaderPool` |
| `ReaderPoolProofs` | theorems about `ReaderPool` |
| `OrderedPull` | `ordered_worker_pull`: caller, thread pool, tasks |
| `OrderedPullProofs` | theorems about `OrderedPull` |
| `FooterScan` | the backward scan and the chain walk of the reader and of preflight, side by side |
| `FooterScanProofs` | theorems about `FooterScan` |
| `Builder` | a build from the scan to the resolved references |
| `BuiltArchive` | reading what `Builder` built, whole and in ranges, and what a build promises |
| `MCBuilder` | trees for `Builder` |
| `BuilderProofs` | theorems about `Builder` and `BuiltArchive` |
| `ReleaseArchive` | the archive at the path a release build and extractions share |
| `ReleaseBuild`, `ReleaseExtract` | a release build; extractions to one directory |
| `Release`, `MCRelease` | their composition; an instance with fewer interleavings |
| `ReleaseProofs` | theorems about `Release` |

### Journal

The file is a sequence of *cells*, one per struct or payload in the byte stream, and an offset is a
position in it; 0 is the code's "no footer". A cell is the header with its index, a blob record, a
generation payload, a footer, or `Torn` (bytes that parse as nothing). `synced` is the length of the
prefix an fsync has made durable.

| action | code |
|---|---|
| `AppendDelete`, `AppendRename` | open, checks, `_index_after_op`, choice of delta or checkpoint (`transactions.py:110-132`) |
| `AppendUpdate`, then `PlanUpdate` | the archive is read and closed; then `stat()` gives the offset at which records are planned (49-93). Two actions, since the file can grow in between |
| `WriteRecords`, `WritePayload`, `Flush`, `WriteFooter`, `Acknowledge` | the four appends and syncs (97-99 and 36-38); `Acknowledge` is the last fsync and the return |
| `Kill` | the process ends between two steps; everything written stays |
| `PowerLoss` | the machine stops: of the unsynced suffix any prefix stays, any of its cells damaged |

`Opened` is `_load_index`: the newest position of `Footers`, else the head index with footer 0 and
depth 0. The chain walk of `_index_from_footer` is noted in the footer cell when it is appended
(`WalkFrom`), since cells below a synced footer never change; `WalkAgrees` says it is the same as
`Walk`, which follows the previous-footer offsets one by one as the code does on each open.

Abstractions. Contents are model values that are equal iff their SHA-256 is. A member's row is the
sequence of blobs it is made of; kinds, modes, times and the parent check of `append_rename` are left
to the logical index (here all members are at the root). Codecs, dictionary, and the split of a file
into chunks are abstracted to a choice of `Parts`. A record found damaged on reading (CRC) is not
distinguished from a missing one.

### OrderedPull

`caller` is the calling thread, `pc` the tasks; a task starts when a pool thread is free
(`Run`). The two critical sections are not atomic: `EnterGate`/`Gate`/`Claim` are the acquire, the
read and the write back of `next_index`; `EnterFailure`/`Record`/`CloseGate` the acquire, the append
to `failures` and `abort_event.set()`. `SpawnFails` lets the system refuse a thread, `Interrupts`
lets a KeyboardInterrupt hit the caller while it submits or joins. `failing` is the set of items `fn`
raises on. The pool (external code) is modelled from its use: submitting queues a task and starts a
thread unless one is idle, leaving the `with` block waits for every queued task.

### LogicalIndex

`base` is the index of the last checkpoint, `log` the operations of the deltas behind it; `View` is what
an open makes of them, each delta followed by a sort (`reader.py:66-80`). An index is the sequence of
rows in table order, a common owner and exceptions *by position*, as in `builder.py:305-316`.

| definition | code |
|---|---|
| `Init`, `Build` | any directory tree whose parents are directories; the walk, hard links named after the first path walked, the sort, the owner table (`Builder.scan`, `build`) |
| `Update`, `Delete`, `Rename`, `Mutate` | the three mutations with their checks; a delta, or an index edited by the writer (`IndexAfterOp`) when `CheckpointDue` |
| `Opens` | the refusal of rows with one canonical path (`reader.py:26-40`) |
| `Extractable`, `Extracted` | `extractall` into an empty directory: directories first, then rows in order; links need their target on disk; owners are set row by row |
| `Compact` | extract, then build (`compact_archive`) |
| `Accepted` | preflight's checks of links, aliases and owner references |

Paths are names whose order as strings (`Sorted`), order in the walk (`Walked`), parent and canonical
path are constants. Contents are named by the path they were first built at. `plain` is a history
variable: the index had no checkpoint ever been written. Left out: symbolic links, modes and times,
extended attributes (kept by position like owners, so they share their fate), storage kinds.
Compaction runs as the owner `Root`, who may set any owner.

Sorting by path and leaving out rows are written with `Taken` (the n-th is the one with n keys up to its own), since the
prover knows no definition of the `SortSeq` and `SelectSeq` of the libraries. Where the code computes the open index
once, actions and properties bind it (`\E view \in {View}`), so that TLC does too.

### ReaderPool

One thread, the owner, opens the archive, reads or extracts members and closes it; chunked members of at
least `PoolFrom` chunks are read by the pool's threads, which run `_blob` concurrently.

| action | code |
|---|---|
| `Look`, `ReadMap`, `Check` | `_blob`: cache, header and payload from the map, CRC, cache again (`reader.py:130-152`) |
| `ZEnter`, `ZLook`, `ZDecode`, `ZLeave` | `_zdict_decode`: the lock, the dictionary read as a blob of its own the first time, the native call (121-128, `DictDecoder`) |
| `Inflate`, `IEnter`, `ILeave` | `_inflate`: decoder or zlib, the lock, the native call (110-119) |
| `Start`, `Take`, `CallBlob`, `Finish`, `WriteFails` | `read` of chunked members and `_extract_chunked_verified` (190-201, 308-359); making the part file may fail too, with all chunks queued |
| `Close`, `CloseDict`, `CloseInflate`, `CloseJoin` | `close()`, one action per resource (41-46) |
| `RunTask`, `Cancelled`, `Forget` | the executor: tasks start in order; what `map` has not yielded is cancelled when its generator ends |

`_blob` calls itself at most once, for the dictionary: `work[t].outer` is the blob that waits for it. That
the dictionary blob needs no dictionary is the builder's doing (`builder.py:230`). An exception raised by
a task ends the generator of `map`, whose `finally` cancels the remaining futures; a failing write
does not, since the exception's traceback keeps the generator alive until it has been handled
(`Forget`, which may come late or never). Running tasks go on in either case, and `close()` frees the
decoders they use before it joins them: a native call with a freed decoder may then return or fail
(`ZLeave`, `ILeave`). The locks of the cache are not modelled: each guards one dictionary operation.
Blobs are named, not spelled out; a damaged one is one that fails its CRC, and `frame` stands for the codecs
without shared state (Zstandard, WAV as FLAC).

### FooterScan

`file` is a size and a footer at each place where the magic occurs, `scan` the state of the two
scans: the reader's (`reader.py:86-99`) and preflight's (`validation.py:118-138`), which have the
same shape. Preflight, a command of its own, runs first (`Turn`).

| action | code |
|---|---|
| `ReadBlock` | the next block towards the head is read and the first `Magic - 1` bytes of the chunk behind it are kept (`Carry`) |
| `TryFooter` | `rfind` finds a magic; where a whole footer follows, its chain is walked: `ReaderChain` is `reader.py:60-84`, `PreflightChain` `validation.py:141-161, 216-244` |
| `BlockDone`, `UseHead` | no magic left in the chunk; nothing left of the file |

A footer is what the two walks ask of it: kind, previous footer, whether its payload has its length and
hash, whether the length is beyond the limits, whether fields outside all hashes (codec, flags, reserved
bytes) are as written. The chains that exist are all that appends can leave, with torn and altered footers
and magics by chance among them.

### Builder and BuiltArchive

`Builder` is one build: `phase` is the step of `build` that comes next. Contents are short sequences of
numbers that stand for their hashes, since sharing, slicing and packing of contents is what this is about;
compression is not, and `codec` only names the encoding chosen.

| action | code |
|---|---|
| `ScanSymlink`, `ScanHardlink`, `ScanSparse`, `ScanFile` | one entry of the walk: `Builder.scan` (`builder.py:82-127`); `CdcChunks` is any cut the chunker may make |
| `PackContainers`, `MakeRecipe`, `ScanDone` | the ZIP files after the walk: one container pack for a large cohort, else a recipe each (`builder.py:128-142`, `make_vzip_recipe` in `codec.py`) |
| `Repartition`, `SplitPack` | a release build splits the container pack (`v030_release_locality.py`): in the order of path names (`Orders`), which need not be the walk's (`InOrder`) in which it was packed; groups grow under a running minimum (`Smallest`, `Fits`) and each is checked afterwards (`Local`) |
| `PlanMicroPacks`, `FlushMicroPack` | `_build_micro_packs` (145-189): groups in length and hash order, then pack by pack |
| `PrepareDeflateReuse` | of each content's streams one replaces it, others are kept as contents |
| `TrainDictionary`, `EncodeCandidates` | dictionary and encoding, in the build thread or in the workers of the ordered pull, which do not see its text policy (`v030_worker_policy_capture.py`) |
| `MapReferences` | rows and recipes are given blob numbers; an unknown content raises (266-317) |

A tree is what a scan can find (`Scannable`): a hard link's file was found, the extents of a sparse file are in order
and leave only zeros out, a ZIP file is its members' streams and the literals between them (`ZipBytes`) or no ZIP
file at all. The loops of the code that append to a list until it is full are one fold, `Grouped`, given which groups fit:
`_groups` of the split and the bucket loop of `_build_micro_packs` use it. `AddItems` is what a run of `add_content`
calls makes of the table. A recipe holds the skeleton and the lengths of its literals, as `make_vzip_recipe` returns it,
and `Segments` cuts the skeleton again, as `rebuild_vzip` does.

`Read` and `ReadRange` of `BuiltArchive` are `CMPCT.read`, `read_range` and the two ZIP rebuilders of
`codec.py`, per storage kind. Left out: owners, modes and times and the order of rows (logical index), the
bytes of headers, the Deflate heuristics' real sizes.

### ReleaseBuild and ReleaseExtract

`out` is the path: who wrote the archive, its size, and what it decodes to. Every candidate of a build
may come out of any size and decode to the tree as it was prepared, as it was at another moment (files
change under a build), or to nothing.

| action | code (`experiments/entropygraph_v030_...`) |
|---|---|
| `BuildLogs`, `BuildTerminal` | terminals `build` tries in turn; when the temporary directory of logs cannot be removed its archive is at the path already, and the next route is tried (`release_product_logs_candidate.py:253-262`) |
| `OpenMedia`, `WriteMedia`, `Elide` | the media terminal writes straight to the path; then an unused dictionary is taken out of what is there, by way of a file beside it (`release_product.py:41-44`, `r24_dead_dictionary.py`); either may raise |
| `StartChild`, `ChildEnds`, `Discard`, `Taken` | the process that builds revision 24 and its registry (`r24_process_shipping.py`) |
| `Prepared`, `Fallback` | what preparation ends with, and the revision-24 fallback, which may raise with its archive published |
| `R24Task`, `PrefixGraph`, `GeometryOverlay`, `SelectR25`, `Join`, `SelectWinner` | the tournament's two threads, its join and selection (`canonical_final_impl.py`); the overlay is that of `shared_portfolio.py`, which the canonical profile installs (`canonical_final_impl.py:108`) and which verifies an overlay that wins |
| `Verify`, `Kill` | verification of what was published; the process is killed |
| `ReadManifest`, `Stream` | an extraction opens the path, and opens it again to decode into its staging; where it found revision 24, it reads the magic again (`Readable`) |
| `Clear` | extraction of a logs archive: the destination is removed (`logs_fused_extract.py:243-247`) |
| `Look`, `BackUp`, `Install`, `Recover`, `Restore`, `Tidy` | `_publish_tree`: move away, rename, undo on failure, remove the backup |
| `KillExtractor` | the process of an extraction is killed |

Each rename, removal and read may fail (`Fault`), and any number of extractions publish to one directory.
A destination that exists is assumed not empty, so that a rename onto it fails.

## 3. Runs

| run | asks | bounds |
|---|---|---|
| `journal` | does the journal implement `ArchiveStore`, do returned mutations survive, do accepted indexes resolve | 2 members, 2 contents, 1 or 2 blobs per member, `MaxDepth` 1, mutations start on files of up to 6 cells |
| `checkpoints` | is the noted walk the real one, chain depth and lineage, with cut writes | 1 member, `MaxDepth` 2, files of up to 9 cells: a checkpoint with deltas before and after it |
| `two_writers` | can unsynchronised writers make a chain dangle | 2 writers, 1 member, 2 contents of which one is itself an archive, a base footer that may be torn, `MaxDepth` 2 |
| `ordered_pull` | is the pull serial, does it end | 3 items, 0 to 3 workers asked for, all sets of failing items |
| `index` | do checkpoints matter, what an update and a compaction leave alone | paths `a`, `a-b`, `a/x`, `b` and the alias `a\x` of `a/x`; all trees over them with hard links and 2 owners, 3 mutations, `MaxDepth` 1, any number of compactions |
| `reader_pool` | are results in order, decoders used in turn, destinations whole; does everything end, `close()` included | 2 reads or extractions of a pooled, a short and a raw member, 2 pool threads, at most one damaged blob, any write may fail |
| `builder` | does every file read back, whole and in every range; may a build fail, store idle contents, differ between threads, break the locality bound | all trees of up to 2 of 18 entries, of 3 that meet in packs, recipes and cohorts, of 3 small texts and links to them, and six larger ones whose contents are made of one another's, plain and release builds; contents of 1 to 6 bytes, chunks of 2, cohorts of 3 |
| `footer_scan` | is every footer tried, do reader and preflight take the same generation | files of 7 to 9 bytes, up to 3 magics of 2 bytes at any place, footers of 3, blocks of 3, `MaxDepth` 1 |
| `release` | what is at the path and in the directory whatever fails | one build by every route, sizes 1 to 3, 2 extractions, one failing call or kill |
| `index_built`, `builder_refs`, `release_rollback` | expected violations, see findings | as `index`; as `builder`, with the trees of three small texts and links only; one extraction |

Why the bounds are enough. A mutation reads the newest footer and the file length and nothing else of
what earlier crashes left, so two mutations with a crash between them show every combination of
"newest footer" and "rubbish behind it"; `MaxLen` allows three or more. The code's depth limit is 63;
the model's `MaxDepth` is a constant, 1 or 2 in the runs and any natural number in the proofs. In `index`, three mutations with `MaxDepth` 1 are a delta, a
checkpoint and a delta; `a-b` and `a/x` are two paths whose string order and walk order differ. Three
items and three tasks give a claim race, two failures in either order, and a task that finds nothing
left. In `reader_pool`, two operations let tasks of a failed one run beside the next one or beside
`close()`; two of the pooled chunks need the dictionary, one needs Deflate. In `builder`, the entries
are made so that one content occurs as a file, a link's target, a chunk, an extent, a skeleton, a ZIP member
and a stream; two entries meet in every pair of these, three in packs and cohorts. The larger trees are what the proofs
asked for: a file whose content is that of a pack of two others or of the ZIP files of a cohort, and a ZIP member that
is the dictionary (each makes a build fail or a read be refused, so each is a case of `FailsOnlyOver` or `Refused`). In `footer_scan`
three footers give a chain of two deltas, one too deep, with blocks that end inside magics and footers; the
proofs hold for any sizes. In `release` three sizes order the three candidates every way, and one
fault is what `EndsWhole` promises to survive. `MaxLen` bounds only the start of a mutation, so every mutation that starts may finish.

Every property has a mutant of the code it must catch (`"mutants"` in `PROJECT.json`); the
mutated operators stand next to the ones they mutate, marked `slip`.

`MCRelease` checks `ReducedSpec`. An extraction sees of a build only the path, and all steps of a build that
leave the path alone commute with all steps of extractions; so extractions move only where the build has ended or
where its next step changes the path. Of an archive an extraction sees what reads it, whether it verifies and whether it
is another than before; so a build goes through archives of every size while nothing is extracted yet, and
through one size of each maker beside extractions. Extractions are interchangeable, as are the writers of
`two_writers` (`Symmetry`); no liveness is checked in either run.
The theorems are about the full `Spec`.

Deadlock is checked in the runs of `Journal` (an idle archive can always lose power) and `OrderedPull`
(which ends in the explicit step `Finished`). Elsewhere the system really stops: an archive of
`LogicalIndex` that has had `MaxAge` mutations and cannot be compacted, a closed reader (that nothing hangs
before is `Ends`), a built archive, a scan that has found its generation, a build and extractions that are over.

### Fairness

`OrderedPull` and `ReaderPool` have a liveness property each, `Ends`. For `OrderedPull`, `FairSpec` assumes weak fairness of the caller's
next step and of each task's next step: the system schedules every thread, and `fn` returns or raises.
Nothing is assumed of the lock (a task may be overtaken without limit, and each overtaking uses up an
item), of interrupts or of failing spawns. For `ReaderPool`, every thread of the pool and the owner, once it has begun something, keep running;
weak fairness is enough for the locks because only finitely many tasks ever ask for one. Starting,
closing, failing writes and `Forget` are free. The other modules have no liveness property: nothing in
their code retries or waits for another actor, except a release build for its child, which may take as long as
it likes.

## 4. Findings

1. **An archive just built may not extract** (run `index_built`). Hard links name the path *walked*
   first, extraction goes by path *string*: with `a/x` and `a-b` one file, `a-b` is a link to `a/x` and
   comes before it (`builder.py:94-98, 142`, `reader.py:426`).
2. **A build fails over a small text file that a symlink's target reads like** (run `builder_refs`).
   Micro-packing repoints the files and removes their content, calling it "physically redundant", though the symlink's
   row still names it (`builder.py:178-184`); resolving that reference raises `KeyError` at the end of the build. The run's
   trees are three small texts and links; the trace packs two files in a plain build, with a link beside them.
3. **Extracting a logs archive loses the old tree if a call fails** (run `release_rollback`). The destination
   is removed before the staged tree is renamed to it; nothing is put back
   (`experiments/entropygraph_v030_logs_fused_extract.py:243-248`). `docs/FORMAT.md` asks for
   "transactional extraction publication and rollback". The other profiles do it (`EndsWhole`).

### Remarks

What follows was met while modelling and read in the code; it has no run of its own. Where a property
holds only because of it, the property says so.

Journal.
- A mutation of an archive opened through its head index is lost: without a readable tail footer open
  sets `latest_footer_pos = 0` (`reader.py:107-109`), and the chain walk gives up at 0 (`reader.py:62`).
- An aborted append of a member that is itself an archive, stored verbatim, shows the inner archive: the
  scan knows a footer by magic and payload hash only (`reader.py:92-97`).
- A `write()` that takes fewer bytes than given is followed by the commit footer all the same, its count
  ignored (`transactions.py:98`): the chain stays sound, the index names a truncated record.

  These three are the conditions `Granted` of the proofs excludes, with two writers at once.

Logical index.
- Deleting or renaming a file leaves hard links to it dangling (`transactions.py:103-108`); preflight
  rejects what results. Owner overrides and extended attributes are keyed by table position and no mutation
  adjusts the keys (`transactions.py:104`, `reader.py:370-373`). An update to an alias (`a\x`) leaves an
  archive that no open accepts (`transactions.py:76, 122`, `reader.py:32-39`). `append_update` adds members
  whose directory is no member, which `append_rename` refuses; compaction invents the directory
  (`CompactionHeals`).

Builder.
- A chunk, a sparse extent or a member of a ZIP recipe that has the bytes of a packed small file loses its content as the
  symlink of finding 2 does. The same step removes a small file's content when an earlier pack has just become that
  content. The split of a container pack removes the old pack when some other file is that content
  (`v030_release_locality.py:161-162`). `FailsOnlyOver` lists these and what the next remark names; it is proved that
  nothing else makes a build of any tree fail.
- A `.zip` file that is no ZIP file makes a build of fewer than eight of them raise `BadZipFile`
  (`codec.py`, `make_vzip_recipe`). A release build of eight or more ZIP files one of which exceeds the
  decode unit raises `RuntimeError` (`v030_release_locality.py:152`).
- A content that is both a retained stream and has a canonical stream is stored raw; reading the ZIP file
  that counts on the stream then raises, and never returns wrong bytes (`Refused`).
- A recipe that is given up half way leaves the contents added for it in the archive (`Abandoned`). A
  micro-pack of one content keeps that content, since it is the pack.

Preflight.
- Codec, flags, reserved bytes, kind and previous-footer field of a footer are in no hash. Preflight passes
  over a footer whose fields do not make sense, the reader opens it: preflight then vouches for another
  generation than the one opened, although `validation.py:266` says "Mirror reader recovery semantics"
  (`SameGeneration` excludes exactly that). Its cycle check never fires, as it has refused `prev >= pos` before.
- Preflight replays deltas without the sort the reader does after each.

Shared reader.
- `CleanClose` needs its condition, that no read or extraction has failed.
  After a disk-full extraction or a damaged chunk a task may still be in the dictionary decoder when
  `CloseDict` frees it, although `native_codec.py:97` says "callers serialize access"; a task that looks just
  after finds no decoder and, with the dictionary cached, makes one that nothing frees.

Release product.
- The fallback verifies but returns whatever the verdict, the media terminal does not verify. A build that raises may
  leave a new archive at the path: one that failed verification (for logs it is removed), one whose verification could not
  be finished, a torn or an unverified one of the media terminal (its elision may fail after the whole archive was
  written), or an unverified logs archive when its temporary directory could not be removed and the later routes failed.
  The archive that was there before is gone in each case. `OutWhole` claims no more than that.
- When a manifest just prepared cannot be decoded, the child keeps running and stays registered
  (`NoChildLeft`); the module's `close_all` is called by nothing.
- An extraction reads the manifest and opens the path again; a build that replaces the path in between may
  have it publish the other archive's tree, and members of equal sizes are not told apart.

Two writers at once lose one of two updates that both returned; the repository promises nothing for
that case, so it is not listed as a finding. `AckedDurable` and `LinearHistory` are claimed for one
mutation at a time (`OneWriter`).

## 5. Proofs

All theorems hold for every value of the constants, under the assumptions `JournalAssumption`,
`PullAssumption`, `PoolAssumption`, `ScanAssumption`, `IndexAssumption`, `BuilderAssumption` and `ReleaseAssumption`, which state little more than types.

Recursion. The prover knows nothing of a recursive function but that it was chosen, so each is unfolded by first
showing that a function with its equation exists: from those on numbers below `n`, one on numbers up to `n`
(`Climb`, which is the least counterexample and not induction by an operator). This is done for the chain walks
of `Journal` and `FooterScan`, for the hard links of `LogicalIndex` and for its replay `FoldLeft(Replayed, ...)`.

**Journal, no further assumption.** `IndInv` is `TypeOK`, `CellsSound` and `JobSound`. `ChainSound`
alone is not inductive: that a new footer extends a chain needs what its writer knew when it opened the
file to be still true, in particular that the footer it builds on lies in the synced prefix before the
new footer is written (`JobSound`), and that a power loss cannot cut into a chain needs every footer
cell, accepted or not, to name a synced footer (`CellsSound`). `Invariance` proves
`Spec => []IndInv`, with a lemma per action; from it follow `TypeCorrect`, `ChainsAreSound` and
`ChainsAreBounded`, for any number of unsynchronised writers, short writes and embedded footers. Under the same
conditions `NotedInvariance` adds `WalksNoted`: what is noted in a footer cell is what one step of the walk makes of
the note below it, and a delta that led nowhere when it was written leads nowhere now: what is appended, or left by a
power loss, never makes a footer of an earlier position. `WalksAgree` follows the notes down the chain: `WalkAgrees`.

**Journal, granted what callers and system must grant.** `Granted` is: one mutation at a time, whole
writes, no content that ends in a footer stored verbatim, an intact footer to start from. The
remarks on the journal show that no part of it can be dropped. `HistoryInv` adds to `IndInv` that a running
mutation builds on the newest footer until it writes its own, right behind its payload
(`SoleWriter`). `AcknowledgedIsDurable` and `HistoryIsLinear` follow.

For the store two more invariants are needed. `RefsInv`: the records of every accepted index are in the
synced prefix (`Secured`), and those of the index about to be committed come next in the file, then are
in it, then are synced as the mutation moves on (`Placed`); neither holds without the other, since the
footer turns what is placed into what is secured. `RecordsAreThere` follows. `StoreInv`: a running
mutation is about to show one operation of the store done on the tree it read, its footer is written on a
file that is durable to its end, and at most one accepted footer is not. With all of these `NextStore` shows that every
step of `Journal` is one step of `ArchiveStore` or none: `WriteFooter` is the operation, the fsyncs are
`Sync`, a power loss is `Crash`, all else stutters. `ImplementsStore` states it as `Spec => StoreSpec`,
the property the run `journal` checks. It needs that the members of a built archive are contents a
member may have (`JournalAssumption`).

**OrderedPull.** `PullInvariance` proves an invariant that relates every task's step to the lock,
`next_index`, `results` and `failures`: below `next_index` each item is published, failed, or in the
hands of exactly one task. `PullTypeCorrect`, `PullIsSerial`,
`ItemsAreClaimedOnce` and `FailureClosesGate` follow.

**ReaderPool.** `PoolInv` is four parts: `Shape`; `Locked`, which lock is held by whom, and that a thread
inside `_zdict_decode` that reads the dictionary is at a place of `_blob` that asks for no lock (needed
because `OneAtATime` alone forgets who will release it); `Serving`, running tasks and pool threads are in
step; `Owning`, the futures the owner waits for exist. `MoveKeeps`, `RaiseKeeps` and `ReturnKeeps` carry
the ten steps of `_blob`. `PoolTypeCorrect`, `DecodersTakeTurns` and `CloseLeavesNothing` follow, under
`PoolAssumption` (types, and a dictionary blob stored raw).

What reads give needs more, `ReadInv` on top of `PoolInv`: `Checked` and `Inside` (what lies in the cache, and what
a call has in hand past a decoder, comes of undamaged blobs), `Errands` (every call is for the blob of its task,
also while it reads the dictionary first), `Outcomes` (a task that is done had a blob that can be had, one that
failed had not, or the map was closed), `Futures`, `Taken` and `Answered` (what the owner has is the beginning of the
member's chunks), and `Settled` (unless a read has failed, only the futures not yet taken are at work). They hold
each other up: that a task fails only for damage needs the decoders to be open, hence that nothing runs when `close()`
begins, hence that no read has failed. `ReadsAreRight`, `DestinationsAreWhole` and `CloseIsClean` follow.

**FooterScan**, for any block, magic and footer sizes. `ScanInv` is `FileSound` (magics do not
overlap), `Bounded` (the chunk lies in the file, is shorter than a block and a magic, and holds at least
`Magic - 1` bytes of what was behind it), `Ordered` (what was tried was tried newest first) and `Passed` (what
was tried is exactly what the scan has passed: after a block everything that begins in it). That a magic across two
blocks is passed neither too early nor twice is where the carry of `Magic - 1` bytes is needed. `ScanStaysInFile` and
`NewestIsFirst` follow.

The two walks: `PreflightFollows` shows that preflight finds the chain the reader finds, or refuses, where every
footer of it is as written; `ReaderFollows` that the reader finds the chain preflight accepts; although the one
stops at an offset it has seen and the other at `MaxDepth`. `PreflightSound` is what an accepted chain is.
`ChainInv` adds to `ScanInv` that all footers tried before the one taken led nowhere (`Tested`).
`SameGenerationOpened` and `AcceptedChainsAreSound` follow.

**LogicalIndex**, for any paths, trees, owners and any `MaxDepth`. `ViewInv` is that `log` holds operations and that
`View` is `plain`. `ReplayOneMore` says that replaying one operation more edits what the others left, so a delta
and a checkpoint come to the same: `CheckpointsChangeNothing`. That the checkpoint is sorted, as the replay is after each
delta, is what the proof needs of the code. `LiveInv` adds `IndexSound`: rows have their types and are strictly in
order (`TakenInOrder`: a sort by keys that differ takes every place once and in order). `BuildSound` and
`ExtractedSound` show it of builds and compactions, `PutKeeps`, `DelKeeps` and `RenKeeps` of the edits; that a rename needs
its new path to be free is why `append_rename` asks. `RowsStaySorted` follows. For `UpdatesInPlace` the sort must leave alone
what is in order (`SortedAlready`), so that owners stay with their rows, and `WalksReplaced` compares walks over hard links
before and after: those that come by the member end there now, the others are the same.

`Compacted` relates the index a compaction reads, the tree it extracts and the index it builds. What it needs of a name is
that a directory sorts before what lies in it (its path is a prefix), so that `Above` can be unfolded, and of the table
what extraction demands: every hard link comes after a row that is no directory and has its target's name, so that `Holder`
can be unfolded and ends at a file. `ExtractedNodes` says what is found on disk of every row, `IsTableOf` that a build makes a
row of every node, `BuiltWalks` that its hard links lead in one step to the path the inode was first walked at. `HealedRows`,
`HealedParents` (the directories extraction invents are what `ParentsExist` needs) and `HealedTable` give
`CompactionsHeal`. For `CompactionsKeep`, `WalksEndAtHolders` says that reading by path, over any number of links, ends at the
row whose file extraction linked to, if it ends at all; so contents are the same (`ContentsKept`), and rows are joined
after exactly if they were before (`OriginsAreHolders`). That only a compaction leaves `age` is where the two properties
meet the step (`OnlyCompacts`).

**Builder and BuiltArchive**, for any tree the scan can find, any sizes, cohorts and levels. `BuilderAssumption` says
that sizes are positive, that a cohort has at least two ZIP files (8 in the code), that stored members have no level, and
that trees are `Scannable`.

What the operators compute comes first. `FlattenSeq`, `Grouped` and `Ends` recurse, so `Iterated` gives the function each
stands for, and from it: where the parts of a content lie in the whole (`Offsets`, `PartElement`), that slices which
follow each other make up the content (`TilesMakeUp`, so `FixedChunks`, `CdcChunksMakeUp`), that greedy groups divide what
they group and fit (`GroupedIs`), that pieces written over zeros give a content if they cover what is not zero
(`WrittenIs`), and that clipping commutes with both (`PiecesInAre`).

- `RowsInv`: every row stores what its entry holds (`Stores`, by storage kind), every recipe is that of its entry, and
  nothing is unscanned after the scan. It is inductive by itself: a pack, a split and a micro-pack repoint rows at slices
  that hold the same bytes, whatever else happens to the table.
- That the records a row names are there is another matter, since the table loses contents. `MapReferences` checks it,
  so a built archive has all of them (`EverythingWritten`); with `RowsInv` and `SameAsOneThread` (a record that needs the
  dictionary is written only if there is one) `FilesReadBack` and `RangesAgreeWithWhole` follow, storage kind by kind.
- `LocalInv`: from the decision of `Repartition` on, each container's pack is within the bound of that container. The
  bound is of the smallest member of the group, so `ReleasesAreLocal` needs that each group holds the container itself.
  A group alone is the whole pack and is never checked once it is packed, so for it the running minimum must be the
  minimum (`SmallestIs`), and the pack in the order of paths as long as the one in the order of the walk (`OrderKeepsSize`).
- `EncodeInv`: `SameAsOneThread`, `PolicyNoted` (what a release notes for other threads, from the training on, is what the
  build thread's extensions say) and `Unwritten`. `ThreadsAgree` is the core: where a dictionary was trained and
  the build is a release, every thread asks what was noted; elsewhere both kinds of thread agree or do not ask.
- `KeptInv` relates the table to rows and recipes in both directions. `NoneMissing`: what is referred to is in the table,
  unless it was `Lost`, each way of losing it being one of `FailsOnlyOver`. `NoneIdle`: what is in the table is referred to,
  or waits to be, or was abandoned. The second needs to know, when a micro-pack removes a content, that every row of that
  content was repointed and none in a later group waits for it (`GroupsApart`: groups share no content), and what a row may
  name that is itself a pack (`PacksKnown`). `StreamsKnown` says where the streams kept besides come from, `ExtrasKnown`
  what each phase may already have decided. `NothingIdleStored` and `FailuresExplained` follow.

The proofs changed the properties where they were not true of all trees: `FailsOnlyOver` did not have packs that equal
another content, `Refused` did not have a member that is the dictionary. No tree of two or three entries shows either, the
larger ones of `MCBuilder` do.

**Release**, for any sizes, extractors and number of faults. `BuildInv` is four parts: `Published` (what the path may name at
each step, by route), `AtWork` (which of child, registry and tasks are live at which step), `FilesKept` (which
files the temporary directory holds, of whom) and `BidsKept` (what the bids noted have to do with the
candidates still there). `OutWhole`, `SmallestWins` and `NoChildLeft` are its consequences. That what is returned was verified is the guard
of `Verify`, and not stated as a property.
`ExtractInv` is `ExtractTypes`, `Relies` (what an extractor at a step has staged or backed up), `Clean` and
`Held`: as long as no logs archive is extracted, the tree is at its place or in the hands of a *holder*, an
extractor whose backup has it. `Survives` and `EndsWhole` follow; a holder
puts the tree back unless a second call fails or it is killed, hence the conditions of `EndsWhole`.

Only model-checked: both `Ends` (liveness under fairness is beyond the prover). Every invariant and action property of a
passing run is stated by a theorem.

## 6. Plan

In order; each module gets its runs and, where marked, proofs.

1. Journal, its abstract store and the proof that it implements it: done.
2. Ordered pull: done.
3. `LogicalIndex`: done for directories, files and hard links, and all it checks is proved. Left: symbolic links.
4. `ReaderPool`: done for one owner, its safety proved. Left: the cache of virtual ZIPs.
5. `FooterScan`, `Builder` and `BuiltArchive`: done, and all they check is proved. Left: WAV and Deflate heuristics, whose choice the
   reader does not depend on.
6. `Release`: done for one build. Left: two builds to one path, the compact-control terminal.
7. `Extraction`: symbolic links, sparse members, what a failing extraction leaves.

## 7. Not modelled

- The byte level of codecs (Zstandard, Deflate, FLAC, headers), mosaic residuals and resemblance deltas, argument
  parsing and printing: transforms without state, whose properties are round trips over bytes that a model
  checker with contents of a few bytes would not say anything new about.
- The Rust readers and the platform integrations, which only read.
- Most of `experiments/`, by far the largest part of the repository's Python: encoders that try byte
  representations and keep the smallest (geometry, prefix graph, residual packs, mosaic placement, logs), their
  readers, oracles, and programs that measure and publish evidence. They are numeric code and heuristics over
  byte strings without state between calls; what the release product does with their results, failures and
  processes is modelled, they themselves are not. For this reason the share of the repository's lines that
  definitions stand for stays small.
- In the release product: two builds to one path at once, the compact-control terminal (switched off),
  listing and reading single members.
- Benchmarks, tools, release evidence and site. Liveness of the file system and of callers.
