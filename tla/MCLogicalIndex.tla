-------------------------- MODULE MCLogicalIndex --------------------------
(***************************************************************************)
(* Instances of LogicalIndex: the paths a, a-b, a/x and b, and the alias   *)
(* a\x of a/x.  "-" sorts before "/" and "/" before "\\", but the walk      *)
(* visits what is in a before a-b.                                         *)
(***************************************************************************)
EXTENDS LogicalIndex

MCSorted == << "a", "a-b", "a/x", "a\\x", "b" >>
MCWalked == << "a", "a/x", "a-b", "b" >>

MCParent == [p \in Paths |-> IF p = "a/x" THEN "a" ELSE None]
MCCanon == [p \in Paths |-> IF p = "a\\x" THEN "a/x" ELSE p]
=============================================================================
