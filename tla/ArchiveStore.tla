--------------------------- MODULE ArchiveStore ---------------------------
(***************************************************************************)
(* What a transactional CMPCT archive promises: a tree of members, changed *)
(* by one whole operation at a time, of which a crash can take back only   *)
(* the last one and only before it has been acknowledged.                  *)
(***************************************************************************)
CONSTANTS Paths, Parts

VARIABLES live,     \* the tree an open shows now
          durable   \* the tree a power loss cannot take away

Trees == UNION {[D -> Parts] : D \in SUBSET Paths}

Init == /\ live \in Trees
        /\ durable = live

\* One operation takes effect, and only on a tree that is already durable.
Commit(tree) == /\ durable = live
                /\ live' = tree
                /\ UNCHANGED durable

Put(tree, p, parts) == [q \in DOMAIN tree \cup {p} |-> IF q = p THEN parts ELSE tree[q]]
Cut(tree, p) == [q \in DOMAIN tree \ {p} |-> tree[q]]

Update(p, parts) == Commit(Put(live, p, parts))

Delete(p) == /\ p \in DOMAIN live
             /\ Commit(Cut(live, p))

Rename(p, new) == /\ p \in DOMAIN live
                  /\ new \notin DOMAIN live
                  /\ Commit(Put(Cut(live, p), new, live[p]))

Sync == /\ durable' = live
        /\ UNCHANGED live

Crash == /\ live' \in {live, durable}
         /\ durable' = live'

Next == \/ Sync
        \/ Crash
        \/ \E p \in Paths, parts \in Parts : Update(p, parts)
        \/ \E p \in Paths : Delete(p)
        \/ \E p, new \in Paths : Rename(p, new)

Spec == Init /\ [][Next]_<<live, durable>>
=============================================================================
