----------------------------- MODULE MCJournal -----------------------------
(***************************************************************************)
(* Instances of Journal for TLC.                                           *)
(***************************************************************************)
EXTENDS JournalStore, TLC

CONSTANTS p1, p2, c1, c2

Symmetry == Permutations(Writers)

MCParts == {<< c1 >>, << c2, c1 >>}
MCOneContent == {<< c1 >>}
MCTwoParts == {<< c1 >>, << c2 >>}
MCBaseBlobs == {<< c1 >>}
=============================================================================
