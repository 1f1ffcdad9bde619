--------------------------- MODULE MCReaderPool ---------------------------
(***************************************************************************)
(* Instances of ReaderPool: a member the pool reads, two of whose chunks   *)
(* need the dictionary, a short one that shares a chunk, and one stored    *)
(* raw.                                                                    *)
(***************************************************************************)
EXTENDS ReaderPool

MCCodec == [d |-> "raw", x |-> "dict", y |-> "dict", z |-> "deflate", f |-> "frame", r |-> "raw"]
MCChunks == [long |-> << "x", "z", "y" >>, short |-> << "y", "f" >>, plain |-> << "r", "r", "r" >>]
MCDamages == {{}} \cup {{b} : b \in {"d", "x", "z", "f", "r"}}
=============================================================================
