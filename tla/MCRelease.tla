----------------------------- MODULE MCRelease -----------------------------
(***************************************************************************)
(* Instances of Release, with fewer interleavings.                         *)
(***************************************************************************)
EXTENDS Release, TLC

CONSTANTS x1, x2

Symmetry == Permutations(Extractors)

\* Extractions see of a build only what it does to out, and it sees nothing of them. All
\* its other steps commute with theirs, so theirs are taken where it has ended or where
\* its next step changes out.
Publishing ==
    \/ pc \in {"start", "media", "write", "elide", "terminal", "fallback", "select"} \cup Over
    \/ pc = "verify" /\ via = "logs"

\* Of an archive they see what reads it, whether it verifies and whether it is another
\* than before. So a build goes through all archives while nothing is extracted yet, and
\* beside extractions through one size of each maker, with which either candidate may win.
Some(by, size, holds) == {Archive(by, size, h) : h \in holds}
FewArchives ==
    OldArchives \cup {NoArchive, Torn}
    \cup Some("r24", 2, Holds) \cup Some("logs", 1, Holds)
    \cup Some("g04", 1, {"source", "other"}) \cup Some("pg", 1, {"damaged"})
    \cup Some("v029", 3, {"source"})
Elided == Some("r24", 1, Holds)
Few == out \in FewArchives \cup Elided /\ \A f \in DOMAIN temp : temp[f] \in FewArchives
NoneStarted == step = [x \in Extractors |-> "open"]

ReducedNext ==
    \/ BuildNext /\ UNCHANGED extractVars /\ (NoneStarted \/ Few')
    \/ Publishing /\ Few /\ ExtractNext /\ UNCHANGED <<out, buildVars>>
ReducedSpec == Init /\ [][ReducedNext]_vars
=============================================================================
