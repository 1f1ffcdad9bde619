--------------------------- MODULE ReleaseArchive ---------------------------
(***************************************************************************)
(* The archive a release build writes and extractions read, by one path.   *)
(***************************************************************************)
EXTENDS Naturals

CONSTANT Sizes      \* sizes of archives that matter when they are compared

ASSUME ReleaseAssumption == Sizes \subseteq Nat /\ Sizes # {}

VARIABLE out        \* what the path names

\* Who wrote it, and what it decodes to: the tree as it was prepared, as it was at
\* another moment ("other"), or nothing ("damaged").
Archive(by, size, holds) == [by |-> by, size |-> size, holds |-> holds]
Holds == {"source", "other", "damaged"}
Makers == {"r24", "logs", "g04", "pg", "v029"}
Archives == [by : Makers, size : Sizes, holds : Holds]
OldArchives == {Archive(by, 0, "other") : by \in {"old r24", "old r25"}}
NoArchive == Archive("nobody", 0, "damaged")
Torn == Archive("half of r24", 0, "damaged")

\* What reads it, by its magic: what v0.29 wrote is a research profile.
Reader(a) == CASE a.by \in {"r24", "old r24"} -> "r24"
               [] a.by = "logs" -> "logs"
               [] a.by \in {"g04", "pg", "old r25"} -> "graph"
               [] OTHER -> "none"
Revision(a) == CASE Reader(a) = "r24" -> 24
                 [] Reader(a) = "none" -> 0
                 [] OTHER -> 25
Verifies(a) == Reader(a) # "none" /\ a.holds # "damaged"
=============================================================================
