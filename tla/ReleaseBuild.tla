---------------------------- MODULE ReleaseBuild ----------------------------
(***************************************************************************)
(* A release build: terminals that publish at once, a child process that   *)
(* builds revision 24 while the tree is prepared, the tournament of the    *)
(* candidates in two threads, publication and verification.                *)
(***************************************************************************)
EXTENDS ReleaseArchive

VARIABLES
    old,        \* history: what the path named when the build began
    pc,         \* the next step of build
    via,        \* the route that published, or is about to
    temp,       \* file -> archive, in the temporary directory
    child,      \* the process that builds revision 24
    pending,    \* it is in the registry
    task,       \* the two tasks of the tournament
    floor,      \* size of the v0.29 archive
    bids        \* history: candidates that could win the tournament

buildVars == <<old, pc, via, temp, child, pending, task, floor, bids>>

Tasks == {"r24", "r25"}
Over == {"returned", "raised", "killed"}
NoFiles == << >>

BuildInit ==
    /\ old \in OldArchives \cup {NoArchive} /\ out = old
    /\ pc = "start" /\ via = "none"
    /\ temp = NoFiles /\ floor = 0 /\ bids = {}
    /\ child = "none" /\ pending = FALSE
    /\ task = [t \in Tasks |-> "idle"]

With(files, name, a) ==
    [f \in DOMAIN files \cup {name} |-> IF f = name THEN a ELSE files[f]]
Without(files, name) == [f \in DOMAIN files \ {name} |-> files[f]]
Made(by) == {Archive(by, size, holds) : size \in Sizes, holds \in Holds}

\* Leaving a temporary directory removes what it holds.
Leave(next) == /\ pc' = next /\ temp' = NoFiles
               /\ task' = [t \in Tasks |-> "idle"] /\ floor' = 0 /\ bids' = {}
NoChild == UNCHANGED <<old, child, pending>>

-----------------------------------------------------------------------------
(* Terminals.                                                              *)

\* Whatever fails, a candidate of another profile included, the next route is
\* tried; but for exceptions of other types. When removing the temporary directory
\* fails, the archive is at the path already, and stays there unverified.
BuildLogs ==
    /\ pc = "start"
    /\ \/ UNCHANGED <<out, via>> /\ Leave("media")
       \/ UNCHANGED <<out, via>> /\ Leave("raised")
       \/ \E r24 \in Made("r24"), logs \in Made("logs") :
             /\ logs.size < r24.size
             /\ out' = logs
             /\ \/ via' = "logs" /\ Leave("verify")
                \/ UNCHANGED via /\ Leave("media")
    /\ NoChild

\* Straight into the path asked for.
OpenMedia ==
    /\ pc = "media"
    /\ \/ UNCHANGED <<out, via>> /\ Leave("terminal")
       \/ out' = Torn /\ via' = "media" /\ Leave("write")
    /\ NoChild
WriteMedia ==
    /\ pc = "write"
    /\ \/ \E a \in Made("r24") : out' = a /\ Leave("elide")
       \/ UNCHANGED out /\ Leave("raised")
    /\ UNCHANGED via /\ NoChild

\* A dictionary nothing uses is taken out, by way of a file beside it.
Elide ==
    /\ pc = "elide"
    /\ \/ /\ \E size \in Sizes : size <= out.size /\ out' = Archive(out.by, size, out.holds)
          /\ Leave("returned")
       \/ UNCHANGED out /\ Leave("raised")
    /\ UNCHANGED via /\ NoChild

TerminalInPlace ==                      \* slip: built where it is published
    /\ pc = "terminal"
    /\ \/ UNCHANGED <<out, via>> /\ Leave("prepare")
       \/ out' = Torn /\ UNCHANGED via /\ Leave("raised")
       \/ \E a \in Made("r24") : out' = a /\ via' = "terminal" /\ Leave("verify")
    /\ NoChild

\* One large file, or many of middle size that do not compress.
BuildTerminal ==
    /\ pc = "terminal"
    /\ \/ UNCHANGED <<out, via>> /\ Leave("prepare")
       \/ UNCHANGED <<out, via>> /\ Leave("raised")
       \/ \E a \in Made("r24") : out' = a /\ via' = "terminal" /\ Leave("verify")
    /\ NoChild

-----------------------------------------------------------------------------
(* The child.                                                              *)

\* It works beside the profile preparation.
StartChild ==
    /\ pc = "prepare"
    /\ pc' = "preparing" /\ child' = "running" /\ pending' = TRUE
    /\ UNCHANGED <<out, old, via, temp, task, floor, bids>>

\* It may fail with part of its output written.
ChildEnds ==
    /\ child = "running"
    /\ IF pc \in {"returned", "raised"}      \* its directory is gone
       THEN child' = "failed" /\ UNCHANGED temp
       ELSE \/ child' = "done" /\ \E a \in Made("r24") : temp' = With(temp, "prebuilt", a)
            \/ child' = "failed" /\ temp' \in {temp, With(temp, "prebuilt", Torn)}
    /\ UNCHANGED <<out, old, pc, via, pending, task, floor, bids>>

\* consume: the child is waited for; what it made moves on, what it left goes.
Consumed == pending /\ child \in {"done", "failed"}
Taken == IF child = "done" THEN With(Without(temp, "prebuilt"), "r24", temp["prebuilt"])
         ELSE Without(temp, "prebuilt")

Close == child' = "none" /\ pending' = FALSE

\* A child that is not wanted any more is killed.
DiscardNot == UNCHANGED <<child, pending>>      \* slip: left alone
Discard == Close

\* ProfileNotEligible keeps the child for the fallback, other failures discard it.
\* Nobody does when the manifest just made cannot be decoded.
Prepared ==
    /\ pc = "preparing"
    /\ \/ /\ pc' = "tournament" /\ task' = [t \in Tasks |-> "busy"]
          /\ UNCHANGED <<temp, via, child, pending, floor, bids>>
       \/ /\ pc' = "fallback" /\ UNCHANGED <<temp, via, task, child, pending, floor, bids>>
       \/ /\ Leave("raised") /\ Discard /\ UNCHANGED via
       \/ /\ Leave("raised") /\ via' = "undecodable" /\ UNCHANGED <<child, pending>>
    /\ UNCHANGED <<out, old>>

\* The result is verified, and returned whatever the verdict, unless a call fails.
Fallback ==
    /\ pc = "fallback" /\ Consumed
    /\ IF child = "done"
       THEN /\ out' = Taken["r24"] /\ via' = "fallback"
            /\ Leave("returned") \/ Leave("raised")
       ELSE UNCHANGED <<out, via>> /\ Leave("raised")
    /\ Close
    /\ UNCHANGED old

-----------------------------------------------------------------------------
(* The tournament.                                                         *)

Ends(t, how) == task' = [task EXCEPT ![t] = how]

R24Task ==
    /\ task["r24"] = "busy" /\ Consumed
    /\ temp' = Taken /\ Ends("r24", child)
    /\ bids' = bids \cup (IF child = "done" THEN {Taken["r24"]} ELSE {})
    /\ Close
    /\ UNCHANGED <<out, old, pc, via, floor>>

\* A child process again, waited for at once, for trees a prefix graph may help.
PrefixGraph ==
    /\ task["r25"] = "busy"
    /\ \/ \E a \in Made("pg") : temp' = With(temp, "pg", a) /\ Ends("r25", "pg built")
       \/ UNCHANGED temp /\ Ends("r25", "pg built")
       \/ UNCHANGED temp /\ Ends("r25", "failed")
    /\ UNCHANGED <<out, old, pc, via, child, pending, floor, bids>>

\* The v0.29 archive, or a smaller overlay of it that reads its members locally and was
\* verified. Its own two processes have reported, or were ended, when it goes on.
GeometryOverlay ==
    /\ task["r25"] = "pg built"
    /\ \/ /\ floor' \in Sizes
          /\ \E a \in Made("g04") \cup Made("v029") :
                /\ IF a.by = "g04" THEN a.size < floor' /\ a.holds # "damaged"
                                    ELSE a.size = floor'
                /\ temp' = With(temp, "g04", a)
          /\ Ends("r25", "g04 built")
       \/ UNCHANGED <<temp, floor>> /\ Ends("r25", "failed")
    /\ UNCHANGED <<out, old, pc, via, child, pending, bids>>

\* The prefix graph wins if it is smaller and reads its members locally.
SelectR25 ==
    /\ task["r25"] = "g04 built"
    /\ \E local \in BOOLEAN :
          LET rivals == {temp[f] : f \in DOMAIN temp \cap ({"g04"} \cup IF local THEN {"pg"} ELSE {})}
              pgWins == local /\ "pg" \in DOMAIN temp /\ temp["pg"].size < temp["g04"].size
          IN  /\ temp' = With([f \in DOMAIN temp \ {"g04", "pg"} |-> temp[f]], "r25",
                              IF pgWins THEN temp["pg"] ELSE temp["g04"])
              /\ bids' = bids \cup {a \in rivals : a.by # "v029" /\ a.size < floor}
    /\ Ends("r25", "done")
    /\ UNCHANGED <<out, old, pc, via, child, pending, floor>>

\* Both tasks are waited for even if one failed.
Join ==
    /\ pc = "tournament" /\ \A t \in Tasks : task[t] \in {"done", "failed"}
    /\ IF \A t \in Tasks : task[t] = "done"
       THEN pc' = "select" /\ UNCHANGED <<temp, task, floor, bids>>
       ELSE Leave("raised")
    /\ UNCHANGED <<out, old, via, child, pending>>

R25EligibleTies == Revision(temp["r25"]) = 25 /\ temp["r25"].size < floor
                   /\ temp["r25"].size <= temp["r24"].size    \* slip: a tie goes to r25
R25Eligible == Revision(temp["r25"]) = 25 /\ temp["r25"].size < floor
               /\ temp["r25"].size < temp["r24"].size

SelectWinner ==
    /\ pc = "select"
    /\ \/ /\ out' = IF R25Eligible THEN temp["r25"] ELSE temp["r24"]
          /\ via' = "tournament" /\ pc' = "verify"
          /\ UNCHANGED <<temp, task, floor, bids>>
       \/ UNCHANGED <<out, via>> /\ Leave("raised")
    /\ NoChild

-----------------------------------------------------------------------------
(* Verification and the end.                                               *)

Passes == Verifies(out)
          /\ (via = "tournament" /\ Revision(out) = 25 => out.holds = "source")

\* What was put at the path stays there whatever fails, but for a logs archive that does
\* not pass. A call may fail after the verdict: the temporary directory is still to go.
Verify ==
    /\ pc = "verify"
    /\ \/ Passes /\ UNCHANGED out /\ Leave("returned")
       \/ ~Passes /\ via = "logs" /\ out' = NoArchive /\ Leave("raised")
       \/ UNCHANGED out /\ Leave("raised")
    /\ UNCHANGED <<old, via, child, pending>>

\* The process is killed. Its directory stays and its child may, but nobody looks.
Kill ==
    /\ pc \notin Over
    /\ Leave("killed") /\ Close
    /\ UNCHANGED <<out, old, via>>

BuildNext ==
    \/ BuildLogs \/ OpenMedia \/ WriteMedia \/ Elide \/ BuildTerminal
    \/ StartChild \/ ChildEnds \/ Prepared \/ Fallback
    \/ R24Task \/ PrefixGraph \/ GeometryOverlay \/ SelectR25 \/ Join \/ SelectWinner
    \/ Verify \/ Kill

-----------------------------------------------------------------------------
\* At every moment, whatever fails or is killed, the path names the archive it named
\* before or a whole one of a released profile. Only the media terminal writes it in
\* place, only a logs archive that fails verification is taken away, and what an earlier
\* route left behind is never what a build returns: that is the archive of the route it
\* returned by (entropygraph_v030_canonical_final_impl.py:443-512,
\* entropygraph_v030_release_product_logs_candidate.py:253-262).
OutWhole ==
    /\ out = Torn => via = "media"
    /\ out = NoArchive => old = NoArchive \/ via = "logs"
    /\ out \in {old, Torn, NoArchive} \/ Revision(out) # 0
    /\ pc = "returned" =>
          out.by \in IF via = "logs" THEN {"logs"} ELSE {"r24", "g04", "pg"}

\* The tournament publishes the smallest whole candidate, revision 24 on a tie
\* (entropygraph_v030_canonical_final_impl.py:494-508).
SmallestWins ==
    pc = "verify" => \A a \in bids :
        out.size < a.size \/ (out.size = a.size /\ (a.by = "r24" => out.by = "r24"))

\* No child outlives a build that returns or raises, nor does its registration, but
\* when the manifest could not be decoded (entropygraph_v030_r24_process_shipping.py:42-75).
NoChildLeft ==
    pc \in {"returned", "raised"} /\ via # "undecodable" => child = "none" /\ ~pending
=============================================================================
