--------------------------- MODULE ReleaseExtract ---------------------------
(***************************************************************************)
(* Extractions of the archive to one directory: staged beside it and put   *)
(* in its place by renames. Other extractions, failing calls and a kill    *)
(* may come between any two steps.                                         *)
(***************************************************************************)
EXTENDS ReleaseArchive, FiniteSets

CONSTANTS Extractors,
          MaxFaults     \* bound: so many calls fail, processes are killed

VARIABLES
    dst,        \* what the directory holds
    there,      \* history: something was there at first
    step,       \* extractor -> its next step
    manifest,   \* extractor -> the archive whose manifest it read
    staging,    \* extractor -> the tree it staged
    backup,     \* extractor -> what it moved away
    faults

extractVars == <<dst, there, step, manifest, staging, backup, faults>>

Nothing == "nothing"
Tree == "tree"                  \* a whole one, from whatever archive
Rubble == "rubble"              \* half removed

ExtractInit ==
    /\ dst \in {Nothing, Tree} /\ there = (dst # Nothing)
    /\ step = [x \in Extractors |-> "open"]
    /\ manifest = [x \in Extractors |-> NoArchive]
    /\ staging = [x \in Extractors |-> Nothing]
    /\ backup = [x \in Extractors |-> Nothing]
    /\ faults = 0

Goto(x, next) == step' = [step EXCEPT ![x] = next]
Fault == faults < MaxFaults /\ faults' = faults + 1

\* The staging directory goes.
Fails(x) ==
    /\ Goto(x, "failed")
    /\ staging' = [staging EXCEPT ![x] = Nothing]

\* By the magic; of a graph archive the manifest is read first.
ReadManifest(x) ==
    /\ step[x] = "open"
    /\ IF Reader(out) \in {"r24", "logs"} \/ Verifies(out)
       THEN /\ manifest' = [manifest EXCEPT ![x] = out] /\ Goto(x, "stream")
            /\ UNCHANGED staging
       ELSE Fails(x) /\ UNCHANGED manifest
    /\ UNCHANGED <<dst, there, backup, faults>>

\* The archive is opened once more by its path; one of revision 24 after its magic was
\* read again, so a graph archive may have replaced it. Of a graph archive only the sizes of
\* the members are checked against the manifest read before: another one may pass.
Readable(m) == {Reader(m)} \cup IF Reader(m) = "r24" THEN {"graph"} ELSE {}
Stream(x) ==
    /\ step[x] = "stream"
    /\ LET m == manifest[x]
       IN  \/ /\ Reader(out) \in Readable(m) /\ Verifies(out)
              /\ staging' = [staging EXCEPT ![x] = Tree]
              /\ Goto(x, IF Reader(m) = "logs" THEN "clear" ELSE "look")
              /\ UNCHANGED faults
           \/ (~Verifies(out) \/ out # m) /\ Fails(x) /\ UNCHANGED faults
           \/ Fault /\ Fails(x)
    /\ UNCHANGED <<dst, there, manifest, backup>>

-----------------------------------------------------------------------------
(* Putting the tree in place: of a logs archive, after removing what was there; *)
(* otherwise _publish_tree.                                                *)

Clear(x) ==
    /\ step[x] = "clear"
    /\ \/ dst' = Nothing /\ Goto(x, "install") /\ UNCHANGED <<staging, faults>>
       \/ dst # Nothing /\ Fault /\ dst' \in {dst, Rubble} /\ Fails(x)
    /\ UNCHANGED <<there, manifest, backup>>

Look(x) ==
    /\ step[x] = "look"
    /\ Goto(x, IF dst = Nothing THEN "install" ELSE "back up")
    /\ UNCHANGED <<dst, there, manifest, staging, backup, faults>>

RemoveOld(x) ==                         \* slip: removed, not moved away
    /\ step[x] = "back up"
    /\ dst' = Nothing /\ Goto(x, "install")
    /\ UNCHANGED <<there, manifest, staging, backup, faults>>

BackUp(x) ==
    /\ step[x] = "back up"
    /\ \/ /\ dst # Nothing
          /\ backup' = [backup EXCEPT ![x] = dst] /\ dst' = Nothing
          /\ Goto(x, "install") /\ UNCHANGED faults
       \/ dst = Nothing /\ Goto(x, "recover") /\ UNCHANGED <<dst, backup, faults>>
       \/ Fault /\ Goto(x, "recover") /\ UNCHANGED <<dst, backup>>
    /\ UNCHANGED <<there, manifest, staging>>

\* A tree does not replace a tree.
Install(x) ==
    /\ step[x] = "install"
    /\ \/ /\ dst = Nothing
          /\ dst' = staging[x] /\ staging' = [staging EXCEPT ![x] = Nothing]
          /\ Goto(x, "tidy") /\ UNCHANGED faults
       \/ dst # Nothing /\ Goto(x, "recover") /\ UNCHANGED <<dst, staging, faults>>
       \/ Fault /\ Goto(x, "recover") /\ UNCHANGED <<dst, staging>>
    /\ UNCHANGED <<there, manifest, backup>>

NotRecovered(x) ==                      \* slip: only the staging goes
    /\ step[x] = "recover"
    /\ Fails(x)
    /\ UNCHANGED <<dst, there, manifest, backup, faults>>

Recover(x) ==
    /\ step[x] = "recover"
    /\ IF backup[x] # Nothing /\ dst = Nothing
       THEN Goto(x, "restore") /\ UNCHANGED staging
       ELSE Fails(x)
    /\ UNCHANGED <<dst, there, manifest, backup, faults>>

Restore(x) ==
    /\ step[x] = "restore"
    /\ \/ /\ dst = Nothing
          /\ dst' = backup[x] /\ backup' = [backup EXCEPT ![x] = Nothing]
          /\ UNCHANGED faults
       \/ dst # Nothing /\ UNCHANGED <<dst, backup, faults>>
       \/ Fault /\ UNCHANGED <<dst, backup>>
    /\ Fails(x)
    /\ UNCHANGED <<there, manifest>>

\* The backup is removed if that works.
Tidy(x) ==
    /\ step[x] = "tidy"
    /\ \/ backup' = [backup EXCEPT ![x] = Nothing] /\ UNCHANGED faults
       \/ backup[x] # Nothing /\ Fault /\ UNCHANGED backup
    /\ Goto(x, "done")
    /\ UNCHANGED <<dst, there, manifest, staging>>

Stopped == {"done", "failed", "killed"}
KillExtractor(x) ==
    /\ step[x] \notin Stopped /\ Fault
    /\ Goto(x, "killed")
    /\ UNCHANGED <<dst, there, manifest, staging, backup>>

ExtractNext == \E x \in Extractors :
    \/ ReadManifest(x) \/ Stream(x) \/ Clear(x) \/ Look(x) \/ BackUp(x) \/ Install(x)
    \/ Recover(x) \/ Restore(x) \/ Tidy(x) \/ KillExtractor(x)

-----------------------------------------------------------------------------
Whole == dst \notin {Nothing, Rubble}
Transactional == \A x \in Extractors : manifest[x].by # "logs"

\* A tree that was there is never gone: at every moment, also after a kill, the
\* directory or a backup holds it or one that was installed in its place, unless a
\* logs archive was extracted (entropygraph_v030_canonical_final_impl.py:711-724).
Survives ==
    Transactional /\ (there \/ \E x \in Extractors : step[x] = "done") =>
        Whole \/ \E x \in Extractors : backup[x] # Nothing

\* When all extractions have ended, none killed, and no more than one call failed, the
\* directory is there if it was or if one succeeded.
NothingLost ==
    /\ \A x \in Extractors : step[x] \in {"done", "failed"}
    /\ faults <= 1
    /\ there \/ \E x \in Extractors : step[x] = "done"
    => Whole

\* But for logs archives that holds, for extractions side by side and whatever builds
\* put at the path meanwhile (entropygraph_v030_canonical_final_impl.py:717-726).
EndsWhole == Transactional => NothingLost

\* It holds for every profile (docs/FORMAT.md:281-292: at minimum "transactional
\* extraction publication and rollback").
RollsBack == NothingLost
=============================================================================
