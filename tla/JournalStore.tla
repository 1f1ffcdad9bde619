--------------------------- MODULE JournalStore ---------------------------
(***************************************************************************)
(* Journal as an ArchiveStore: the tree every open shows and the tree a    *)
(* power loss cannot take away.                                            *)
(***************************************************************************)
EXTENDS Journal

\* The tree an open of f shows (the view is bound so that TLC evaluates it once).
TreeNow(f) == CHOOSE t \in {TreeOf(f, v) : v \in {Opened(f).view}} : TRUE

Live == TreeNow(file)
Durable == TreeNow(SubSeq(file, 1, synced))

Store == INSTANCE ArchiveStore WITH live <- Live, durable <- Durable

\* An archive under one writer at a time is an ArchiveStore: every open shows
\* the last committed tree, and only an unacknowledged commit can be taken back
\* (reader.py:41-109, transactions.py:27-132).
StoreSpec == Store!Spec

-----------------------------------------------------------------------------
(* Why it is one: what is invariant under every step (JournalProofs)     . *)

\* The file once the records an update has planned are in it.
Ahead(w) == IF pc[w] = "records"
            THEN file \o [i \in DOMAIN job[w].new |-> Blob(job[w].new[i])]
            ELSE file

\* The index a mutation is about to commit.
Planned(j) == IF j.gen.kind = "checkpoint" THEN j.gen.view ELSE Replay(j.view, j.gen)

\* One operation of the store takes tree to after.
OneOperation(tree, after) ==
    \/ \E p \in Paths, parts \in Parts : after = Store!Put(tree, p, parts)
    \/ \E p \in DOMAIN tree : after = Store!Cut(tree, p)
    \/ \E p \in DOMAIN tree, new \in Paths \ DOMAIN tree :
          after = Store!Put(Store!Cut(tree, p), new, tree[p])

\* A running mutation is about to show its operation done on what it read, and it
\* writes its footer on a durable file; at most one commit can be taken back.
StoreInv ==
    /\ \A p, q \in Footers(file) : p > synced /\ q > synced => p = q
    /\ \A w \in Writers : pc[w] = "footer" => synced = Len(file)
    /\ \A w \in Writers : pc[w] \in {"records", "payload", "flush", "footer"} =>
          OneOperation(TreeOf(file, job[w].view), TreeOf(Ahead(w), Planned(job[w])))
=============================================================================
