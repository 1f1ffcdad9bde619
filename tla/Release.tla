------------------------------ MODULE Release ------------------------------
(***************************************************************************)
(* A release build beside extractions of the archive it replaces: what     *)
(* they share is the path.                                                 *)
(***************************************************************************)
EXTENDS ReleaseBuild, ReleaseExtract

vars == <<out, buildVars, extractVars>>

Init == BuildInit /\ ExtractInit

Next == \/ BuildNext /\ UNCHANGED extractVars
        \/ ExtractNext /\ UNCHANGED <<out, buildVars>>

Spec == Init /\ [][Next]_vars
=============================================================================
