--------------------------- MODULE ReleaseProofs ---------------------------
(***************************************************************************)
(* What a release build publishes and an extraction keeps, for any sizes   *)
(* of archives, any number of extractions and any number of faults.        *)
(***************************************************************************)
EXTENDS Release, TLAPS

Closed == child = "none" /\ ~pending

\* Until something is published the path names what it named, or a logs archive that
\* could not be finished with.
Published ==
    /\ old \in OldArchives \cup {NoArchive}
    /\ pc \in {"start", "media", "terminal", "prepare", "preparing", "fallback",
               "tournament", "select"} => via = "none" /\ (out = old \/ out.by = "logs")
    /\ pc = "write" => out = Torn /\ via = "media"
    /\ pc = "elide" => out.by = "r24" /\ via = "media"
    /\ pc = "verify" => IF via = "logs" THEN out.by = "logs"
                        ELSE out.by \in {"r24", "g04", "pg"}
    /\ OutWhole

\* Who is at work when.
AtWork ==
    /\ pc \in {"start", "media", "write", "elide", "terminal", "prepare", "select", "verify",
               "returned", "killed"} => Closed
    /\ pc = "raised" => Closed \/ via = "undecodable"
    /\ pc = "tournament" => Closed \/ task["r24"] = "busy"
    /\ task \in [Tasks -> {"idle", "busy", "pg built", "g04 built", "done", "failed"}]
    /\ pc \notin {"tournament", "select", "verify"} => \A t \in Tasks : task[t] = "idle"
    /\ pc = "select" => \A t \in Tasks : task[t] = "done"
    /\ pc = "verify" => \A t \in Tasks : task[t] \in {"idle", "done"}

\* Files of the temporary directory that are whole.
Kept(name, makers) == name \in DOMAIN temp /\ temp[name] \in [by : makers, size : Sizes, holds : Holds]
FilesKept ==
    /\ child = "done" /\ pc \notin Over => Kept("prebuilt", {"r24"})
    /\ task["r24"] = "done" => Kept("r24", {"r24"})
    /\ "pg" \in DOMAIN temp => Kept("pg", {"pg"})
    /\ task["r25"] = "g04 built" =>
          /\ Kept("g04", {"g04", "v029"}) /\ floor \in Sizes
          /\ temp["g04"].by = "v029" => temp["g04"].size = floor
    /\ task["r25"] = "done" => Kept("r25", {"pg", "g04", "v029"})

\* A candidate is revision 24 as it was built, or no smaller than the revision 25 chosen.
BidsKept ==
    /\ pc \notin {"tournament", "select", "verify"} => bids = {}
    /\ pc \in {"tournament", "select"} => \A a \in bids :
          \/ task["r24"] = "done" /\ a = temp["r24"]
          \/ /\ task["r25"] = "done" /\ a.by # "r24"
             /\ a.size \in Sizes /\ floor \in Sizes
             /\ temp["r25"].by # "v029" /\ temp["r25"].size < floor
             /\ temp["r25"].size <= a.size
    /\ SmallestWins

BuildInv == Published /\ AtWork /\ FilesKept /\ BidsKept

\* What the child made is what is taken; other files stay.
LEMMA WhatIsTaken ==
    /\ child = "done" => "r24" \in DOMAIN Taken /\ Taken["r24"] = temp["prebuilt"]
    /\ DOMAIN Taken \subseteq DOMAIN temp \cup {"r24"}
    /\ \A f \in DOMAIN temp \ {"prebuilt", "r24"} : f \in DOMAIN Taken /\ Taken[f] = temp[f]
<1>1. CASE child = "done"
  BY <1>1 DEF Taken, With, Without
<1>2. CASE child # "done"
  BY <1>2 DEF Taken, Without
<1> QED BY <1>1, <1>2

\* Archives of different makers are different.
LEMMA Authors ==
    /\ Torn.by = "half of r24" /\ NoArchive.by = "nobody"
    /\ \A a \in OldArchives : a.by \in {"old r24", "old r25"}
    /\ \A by : \A a \in Made(by) : a.by = by /\ a \in [by : {by}, size : Sizes, holds : Holds]
<1>1. Torn.by = "half of r24" /\ NoArchive.by = "nobody"
  BY DEF Torn, NoArchive, Archive
<1>2. ASSUME NEW a \in OldArchives PROVE a.by \in {"old r24", "old r25"}
  <2>1. PICK by \in {"old r24", "old r25"} : a = [by |-> by, size |-> 0, holds |-> "other"]
    BY DEF OldArchives, Archive
  <2> QED BY <2>1
<1>3. ASSUME NEW by, NEW a \in Made(by)
      PROVE  a.by = by /\ a \in [by : {by}, size : Sizes, holds : Holds]
  <2>1. PICK size \in Sizes, holds \in Holds : a = [by |-> by, size |-> size, holds |-> holds]
    BY DEF Made, Archive
  <2> QED BY <2>1
<1> QED BY <1>1, <1>2, <1>3

\* What a product build may publish is of a released revision, and neither torn nor nothing.
LEMMA Released ==
    /\ \A a : a.by \in {"r24", "logs", "g04", "pg"} => a # Torn /\ a # NoArchive
    /\ out'.by \in {"r24", "logs", "g04", "pg"} => Revision(out') # 0
<1>1. ASSUME NEW a, a.by \in {"r24", "logs", "g04", "pg"} PROVE a # Torn /\ a # NoArchive
  BY <1>1, Authors
<1>2. ASSUME out'.by \in {"r24", "logs", "g04", "pg"} PROVE Revision(out') # 0
  <2>1. Reader(out') \in {"r24", "logs", "graph"}
    BY <1>2 DEF Reader
  <2> QED BY <2>1 DEF Revision
<1> QED BY <1>1, <1>2

LEMMA RevisionOf ==
    ASSUME NEW a
    PROVE  /\ a.by = "v029" => Revision(a) # 25
           /\ a.by \in {"pg", "g04"} => Revision(a) = 25
<1>1. CASE a.by = "v029"
  <2>1. Reader(a) = "none"
    BY <1>1 DEF Reader
  <2>2. Revision(a) = 0
    BY <2>1 DEF Revision
  <2> QED BY <1>1, <2>2
<1>2. CASE a.by \in {"pg", "g04"}
  <2>1. Reader(a) = "graph"
    BY <1>2 DEF Reader
  <2> QED BY <1>2, <2>1 DEF Revision
<1> QED BY <1>1, <1>2

LEMMA StartOfBuild == BuildInit => BuildInv
<1> SUFFICES ASSUME BuildInit PROVE BuildInv
  OBVIOUS
<1>1. pc = "start" /\ out = old /\ via = "none" /\ Closed
  BY DEF BuildInit, Closed
<1>2. Published
  BY <1>1, Authors DEF BuildInit, Published, OutWhole
<1>3. AtWork
  BY <1>1 DEF BuildInit, AtWork, Tasks
<1>4. DOMAIN temp = {}
  BY DEF BuildInit, NoFiles
<1>5. FilesKept
  BY <1>1, <1>4 DEF BuildInit, FilesKept, Tasks, Closed
<1>6. BidsKept
  BY <1>1 DEF BuildInit, BidsKept, SmallestWins
<1> QED BY <1>2, <1>3, <1>5, <1>6 DEF BuildInv

\* Where the path is left alone nothing is lost, if no build returns by that.
LEMMA PathLeft ==
    ASSUME Published, UNCHANGED <<out, old, via>>,
           \/ pc' = pc
           \/ pc' \in {"raised", "killed"}
           \/ /\ pc \in {"start", "media", "terminal", "prepare", "preparing", "tournament"}
              /\ pc' \in {"media", "terminal", "prepare", "preparing", "fallback",
                         "tournament", "select"}
           \/ pc = "verify" /\ pc' = "returned"
    PROVE  Published'
<1>1. CASE pc' = pc
  BY <1>1 DEF Published, OutWhole
<1>2. CASE pc' \in {"raised", "killed"}
  BY <1>2 DEF Published, OutWhole
<1>3. CASE /\ pc \in {"start", "media", "terminal", "prepare", "preparing", "tournament"}
           /\ pc' \in {"media", "terminal", "prepare", "preparing", "fallback",
                      "tournament", "select"}
  BY <1>3 DEF Published, OutWhole
<1>4. CASE pc = "verify" /\ pc' = "returned"
  BY <1>4 DEF Published, OutWhole
<1> QED BY <1>1, <1>2, <1>3, <1>4

\* Where the archive of a route is put there.
LEMMA PathTaken ==
    ASSUME Published, old' = old,
           out'.by \in IF via' = "logs" THEN {"logs"} ELSE {"r24", "g04", "pg"},
           pc' \in {"verify", "returned", "raised"}
    PROVE  Published'
<1>1. out'.by \in {"r24", "logs", "g04", "pg"}
  OBVIOUS
<1>2. Revision(out') # 0 /\ out' # Torn /\ out' # NoArchive
  BY <1>1, Released
<1>3. OutWhole'
  BY <1>2 DEF OutWhole
<1> QED BY <1>3 DEF Published

LEMMA PublishedKeeps ==
    ASSUME BuildInv, BuildNext
    PROVE  Published'
<1>0. Published
  BY DEF BuildInv
<1> USE <1>0, Authors DEF Leave, NoChild
<1>1. CASE BuildLogs
  <2>1. CASE UNCHANGED <<out, via>> /\ pc' \in {"media", "raised"}
    BY <1>1, <2>1, PathLeft DEF BuildLogs
  <2>2. CASE out'.by = "logs" /\ via' = "logs" /\ pc' = "verify"
    BY <1>1, <2>2, PathTaken DEF BuildLogs
  <2>3. CASE out'.by = "logs" /\ via' = via /\ pc' = "media"
    <3>1. via = "none" /\ old' = old
      BY <1>1 DEF BuildLogs, Published
    <3>2. Revision(out') # 0 /\ out' # Torn /\ out' # NoArchive
      BY <2>3, Released
    <3> QED BY <2>3, <3>1, <3>2 DEF Published, OutWhole
  <2>4. \/ UNCHANGED <<out, via>> /\ pc' \in {"media", "raised"}
        \/ out' \in Made("logs") /\ via' = "logs" /\ pc' = "verify"
        \/ out' \in Made("logs") /\ via' = via /\ pc' = "media"
    BY <1>1 DEF BuildLogs
  <2> QED BY <2>1, <2>2, <2>3, <2>4
<1>2. CASE OpenMedia
  <2>1. CASE UNCHANGED <<out, via>> /\ pc' = "terminal"
    BY <1>2, <2>1, PathLeft DEF OpenMedia
  <2>2. CASE out' = Torn /\ via' = "media" /\ pc' = "write"
    BY <1>2, <2>2 DEF OpenMedia, Published, OutWhole
  <2> QED BY <1>2, <2>1, <2>2 DEF OpenMedia
<1>3. CASE WriteMedia
  <2>1. CASE out'.by = "r24" /\ pc' = "elide"
    <3>1. Revision(out') # 0 /\ out' # Torn /\ out' # NoArchive
      BY <2>1, Released
    <3> QED BY <1>3, <2>1, <3>1 DEF WriteMedia, Published, OutWhole
  <2>2. CASE UNCHANGED out /\ pc' = "raised"
    BY <1>3, <2>2, PathLeft DEF WriteMedia
  <2>3. \/ out' \in Made("r24") /\ pc' = "elide"
        \/ UNCHANGED out /\ pc' = "raised"
    BY <1>3 DEF WriteMedia
  <2> QED BY <2>1, <2>2, <2>3
<1>4. CASE Elide
  <2>1. pc = "elide" /\ out.by = "r24" /\ via = "media" /\ UNCHANGED <<old, via>>
    BY <1>4 DEF Elide, Published
  <2>2. CASE \E size \in Sizes : out' = Archive(out.by, size, out.holds) /\ pc' = "returned"
    <3>1. out'.by = "r24"
      <4>1. PICK size \in Sizes : out' = [by |-> "r24", size |-> size, holds |-> out.holds]
        BY <2>1, <2>2 DEF Archive
      <4> QED BY <4>1
    <3> QED BY <2>1, <2>2, <3>1, PathTaken
  <2>3. CASE UNCHANGED out /\ pc' = "raised"
    BY <2>1, <2>3, PathLeft
  <2> QED BY <1>4, <2>2, <2>3 DEF Elide
<1>5. CASE BuildTerminal
  <2>1. CASE UNCHANGED <<out, via>> /\ pc' \in {"prepare", "raised"}
    BY <1>5, <2>1, PathLeft DEF BuildTerminal
  <2>2. CASE out'.by = "r24" /\ via' = "terminal" /\ pc' = "verify"
    BY <1>5, <2>2, PathTaken DEF BuildTerminal
  <2>3. \/ UNCHANGED <<out, via>> /\ pc' \in {"prepare", "raised"}
        \/ out' \in Made("r24") /\ via' = "terminal" /\ pc' = "verify"
    BY <1>5 DEF BuildTerminal
  <2> QED BY <2>1, <2>2, <2>3
<1>6. CASE StartChild BY <1>6, PathLeft DEF StartChild
<1>7. CASE ChildEnds BY <1>7, PathLeft DEF ChildEnds
<1>8. CASE Prepared
  <2>1. CASE UNCHANGED <<out, old, via>>
    BY <1>8, <2>1, PathLeft DEF Prepared
  <2>2. CASE UNCHANGED <<out, old>> /\ via' = "undecodable" /\ pc' = "raised"
    BY <1>8, <2>2 DEF Prepared, Published, OutWhole
  <2> QED BY <1>8, <2>1, <2>2 DEF Prepared
<1>9. CASE Fallback
  <2>1. CASE child = "done"
    <3>1. "prebuilt" \in DOMAIN temp /\ temp["prebuilt"].by = "r24"
      BY <1>9, <2>1 DEF Fallback, BuildInv, FilesKept, Kept, Over
    <3>2. /\ out' = temp["prebuilt"] /\ via' = "fallback" /\ old' = old
          /\ pc' \in {"returned", "raised"}
      BY <1>9, <2>1, WhatIsTaken DEF Fallback
    <3> QED BY <3>1, <3>2, PathTaken
  <2>2. CASE child # "done"
    BY <1>9, <2>2, PathLeft DEF Fallback
  <2> QED BY <2>1, <2>2
<1>10. CASE R24Task BY <1>10, PathLeft DEF R24Task
<1>11. CASE PrefixGraph BY <1>11, PathLeft DEF PrefixGraph
<1>12. CASE GeometryOverlay BY <1>12, PathLeft DEF GeometryOverlay
<1>13. CASE SelectR25 BY <1>13, PathLeft DEF SelectR25
<1>14. CASE Join BY <1>14, PathLeft DEF Join
<1>15. CASE SelectWinner
  <2>1. task["r24"] = "done" /\ task["r25"] = "done"
    BY <1>15 DEF SelectWinner, BuildInv, AtWork, Tasks
  <2>2. temp["r24"].by = "r24" /\ temp["r25"].by \in {"pg", "g04", "v029"}
    BY <2>1 DEF BuildInv, FilesKept, Kept
  <2>3. R25Eligible => temp["r25"].by # "v029"
    BY RevisionOf DEF R25Eligible
  <2>4. CASE UNCHANGED <<out, via>> /\ pc' = "raised"
    BY <1>15, <2>4, PathLeft DEF SelectWinner
  <2>5. CASE /\ out' = IF R25Eligible THEN temp["r25"] ELSE temp["r24"]
             /\ via' = "tournament" /\ pc' = "verify"
    <3>1. out'.by \in {"r24", "g04", "pg"} /\ old' = old
      BY <1>15, <2>2, <2>3, <2>5 DEF SelectWinner
    <3> QED BY <2>5, <3>1, PathTaken
  <2> QED BY <1>15, <2>4, <2>5 DEF SelectWinner
<1>16. CASE Verify
  <2>1. CASE UNCHANGED out /\ pc' \in {"returned", "raised"}
    BY <1>16, <2>1, PathLeft DEF Verify
  <2>2. CASE via = "logs" /\ out' = NoArchive /\ pc' = "raised"
    BY <1>16, <2>2 DEF Verify, Published, OutWhole
  <2> QED BY <1>16, <2>1, <2>2 DEF Verify
<1>17. CASE Kill BY <1>17, PathLeft DEF Kill
<1> QED BY <1>1, <1>2, <1>3, <1>4, <1>5, <1>6, <1>7, <1>8, <1>9, <1>10, <1>11, <1>12,
           <1>13, <1>14, <1>15, <1>16, <1>17 DEF BuildNext

LEMMA AtWorkKeeps ==
    ASSUME BuildInv, BuildNext
    PROVE  AtWork'
<1> USE DEF BuildInv, AtWork, Closed, Close, Leave, NoChild, Tasks, Over, Ends, Consumed
<1>1. CASE BuildLogs BY <1>1 DEF BuildLogs
<1>2. CASE OpenMedia BY <1>2 DEF OpenMedia
<1>3. CASE WriteMedia BY <1>3 DEF WriteMedia
<1>4. CASE BuildTerminal BY <1>4 DEF BuildTerminal
<1>5. CASE StartChild BY <1>5 DEF StartChild
<1>6. CASE ChildEnds BY <1>6 DEF ChildEnds
<1>7. CASE Prepared BY <1>7 DEF Prepared, Discard
<1>8. CASE Fallback BY <1>8 DEF Fallback
<1>9. CASE R24Task BY <1>9 DEF R24Task
<1>10. CASE PrefixGraph BY <1>10 DEF PrefixGraph
<1>11. CASE GeometryOverlay BY <1>11 DEF GeometryOverlay
<1>12. CASE SelectR25 BY <1>12 DEF SelectR25
<1>13. CASE Join BY <1>13 DEF Join
<1>14. CASE SelectWinner BY <1>14 DEF SelectWinner
<1>15. CASE Verify BY <1>15 DEF Verify
<1>16. CASE Kill BY <1>16 DEF Kill
<1>17. CASE Elide BY <1>17 DEF Elide
<1> QED BY <1>1, <1>2, <1>3, <1>4, <1>5, <1>6, <1>7, <1>8, <1>9, <1>10, <1>11, <1>12,
           <1>13, <1>14, <1>15, <1>16, <1>17 DEF BuildNext

LEMMA NothingToKeep ==
    ASSUME temp' = NoFiles, task' = [t \in Tasks |-> "idle"],
           child' # "done" \/ pc' \in Over
    PROVE  FilesKept'
<1>1. DOMAIN temp' = {}
  BY DEF NoFiles
<1>2. task["r24"]' = "idle" /\ task["r25"]' = "idle"
  BY DEF Tasks
<1> QED BY <1>1, <1>2 DEF FilesKept

\* A new file takes nothing from what is kept under other names.
LEMMA KeptBeside ==
    ASSUME NEW name, NEW a, temp' = With(temp, name, a),
           NEW other, other # name, NEW makers, Kept(other, makers)
    PROVE  Kept(other, makers)'
BY DEF Kept, With

\* How an overlay and the v0.29 archive compare with the floor noted.
Weighed(a) == IF a.by = "g04" THEN a.size < floor' ELSE a.size = floor'

LEMMA FilesKeep ==
    ASSUME BuildInv, BuildNext
    PROVE  FilesKept'
<1> USE DEF BuildInv, AtWork
<1>1. CASE BuildLogs BY <1>1, NothingToKeep DEF BuildLogs, Leave, NoChild, Closed
<1>2. CASE OpenMedia BY <1>2, NothingToKeep DEF OpenMedia, Leave, NoChild, Closed
<1>3. CASE WriteMedia BY <1>3, NothingToKeep DEF WriteMedia, Leave, NoChild, Closed
<1>4. CASE BuildTerminal BY <1>4, NothingToKeep DEF BuildTerminal, Leave, NoChild, Closed
<1>5. CASE StartChild BY <1>5 DEF StartChild, FilesKept, Kept
<1>6. CASE ChildEnds
  <2>1. CASE pc \in {"returned", "raised"}
    BY <1>6, <2>1 DEF ChildEnds, FilesKept, Kept
  <2>2. CASE UNCHANGED temp /\ child' = "failed"
    BY <1>6, <2>2 DEF ChildEnds, FilesKept, Kept
  <2>3. ASSUME NEW a, temp' = With(temp, "prebuilt", a),
               child' = "failed" \/ a \in Made("r24")
        PROVE  FilesKept'
    <3>1. child' = "done" => Kept("prebuilt", {"r24"})'
      BY <2>3, Authors, <1>6 DEF Kept, With, ChildEnds
    <3>2. \A f \in {"pg", "r24", "g04", "r25"} :
            /\ f \in DOMAIN temp' => f \in DOMAIN temp
            /\ f \in DOMAIN temp => f \in DOMAIN temp' /\ temp'[f] = temp[f]
      BY <2>3 DEF With
    <3>3. UNCHANGED <<pc, task, floor>>
      BY <1>6 DEF ChildEnds
    <3> QED BY <3>1, <3>2, <3>3 DEF FilesKept, Kept
  <2> QED BY <1>6, <2>1, <2>2, <2>3 DEF ChildEnds
<1>7. CASE Prepared
  <2>1. CASE UNCHANGED <<temp, child, floor>> /\ pc' \in {"tournament", "fallback"}
    <3>1. task["r24"]' # "done" /\ task["r25"]' \notin {"g04 built", "done"}
      BY <1>7, <2>1 DEF Prepared, Tasks, Leave
    <3> QED BY <1>7, <2>1, <3>1 DEF Prepared, FilesKept, Kept, Over
  <2>2. CASE Leave("raised")
    BY <2>2, NothingToKeep DEF Leave, Over
  <2> QED BY <1>7, <2>1, <2>2 DEF Prepared
<1>8. CASE Fallback BY <1>8, NothingToKeep DEF Fallback, Leave, Close
<1>9. CASE R24Task
  <2>1. /\ temp' = Taken /\ task' = [task EXCEPT !["r24"] = child]
        /\ child' = "none" /\ child \in {"done", "failed"} /\ UNCHANGED <<pc, floor>>
        /\ pc = "tournament"
    BY <1>9 DEF R24Task, Ends, Close, Consumed, Tasks, Over
  <2>2. task'["r24"] = child /\ task'["r25"] = task["r25"]
    BY <2>1 DEF Tasks
  <2>3. child = "done" => Kept("r24", {"r24"})'
    BY <2>1, WhatIsTaken DEF FilesKept, Kept, Over
  <2>4. \A f \in {"pg", "g04", "r25"} :
          /\ f \in DOMAIN temp' => f \in DOMAIN temp
          /\ f \in DOMAIN temp => f \in DOMAIN temp' /\ temp'[f] = temp[f]
    BY <2>1, WhatIsTaken
  <2>5. "pg" \in DOMAIN temp' => Kept("pg", {"pg"})'
    BY <2>4 DEF FilesKept, Kept
  <2>6. task["r25"]' = "g04 built" =>
          /\ Kept("g04", {"g04", "v029"})' /\ floor' \in Sizes
          /\ temp'["g04"].by = "v029" => temp'["g04"].size = floor'
    BY <2>1, <2>2, <2>4 DEF FilesKept, Kept
  <2>7. task["r25"]' = "done" => Kept("r25", {"pg", "g04", "v029"})'
    BY <2>2, <2>4 DEF FilesKept, Kept
  <2> QED BY <2>1, <2>2, <2>3, <2>5, <2>6, <2>7 DEF FilesKept
<1>10. CASE PrefixGraph
  <2>1. /\ task'["r24"] = task["r24"] /\ task'["r25"] \in {"pg built", "failed"}
        /\ UNCHANGED <<child, pc>>
    BY <1>10 DEF PrefixGraph, Ends, Tasks
  <2>2. CASE UNCHANGED temp
    BY <2>1, <2>2 DEF FilesKept, Kept
  <2>3. ASSUME NEW a \in Made("pg"), temp' = With(temp, "pg", a)
        PROVE  FilesKept'
    <3>1. Kept("pg", {"pg"})'
      BY <2>3, Authors DEF Kept, With
    <3>2. \A f \in {"prebuilt", "r24"} :
            f \in DOMAIN temp => f \in DOMAIN temp' /\ temp'[f] = temp[f]
      BY <2>3 DEF With
    <3> QED BY <2>1, <3>1, <3>2 DEF FilesKept, Kept
  <2> QED BY <1>10, <2>2, <2>3 DEF PrefixGraph
<1>11. CASE GeometryOverlay
  <2>1. /\ task'["r24"] = task["r24"] /\ task'["r25"] \in {"g04 built", "failed"}
        /\ UNCHANGED <<child, pc>>
    BY <1>11 DEF GeometryOverlay, Ends, Tasks
  <2>2. CASE UNCHANGED temp /\ task'["r25"] = "failed"
    BY <2>1, <2>2 DEF FilesKept, Kept
  <2>3. ASSUME NEW a \in Made("g04") \cup Made("v029"), floor' \in Sizes,
               Weighed(a),
               temp' = With(temp, "g04", a)
        PROVE  FilesKept'
    <3>1. a \in [by : {"g04", "v029"}, size : Sizes, holds : Holds]
      <4>1. CASE a \in Made("g04")
        <5>1. a \in [by : {"g04"}, size : Sizes, holds : Holds]
          BY <4>1, Authors
        <5> QED BY <5>1
      <4>2. CASE a \in Made("v029")
        <5>1. a \in [by : {"v029"}, size : Sizes, holds : Holds]
          BY <4>2, Authors
        <5> QED BY <5>1
      <4> QED BY <2>3, <4>1, <4>2
    <3>2. Kept("g04", {"g04", "v029"})' /\ temp'["g04"] = a
      BY <2>3, <3>1 DEF Kept, With
    <3>3. \A f \in {"prebuilt", "r24", "pg"} :
            /\ f \in DOMAIN temp' => f \in DOMAIN temp
            /\ f \in DOMAIN temp => f \in DOMAIN temp' /\ temp'[f] = temp[f]
      BY <2>3 DEF With
    <3>4. a.by = "v029" => a.size = floor'
      BY <2>3 DEF Weighed
    <3> QED BY <2>1, <2>3, <3>2, <3>3, <3>4 DEF FilesKept, Kept
  <2>4. \/ UNCHANGED temp /\ task'["r25"] = "failed"
        \/ \E a \in Made("g04") \cup Made("v029") :
              /\ floor' \in Sizes /\ Weighed(a)
              /\ temp' = With(temp, "g04", a)
    BY <1>11 DEF GeometryOverlay, Ends, Tasks, Weighed
  <2> QED BY <2>2, <2>3, <2>4
<1>12. CASE SelectR25
  <2>1. /\ task'["r24"] = task["r24"] /\ task'["r25"] = "done"
        /\ UNCHANGED <<child, pc>>
    BY <1>12 DEF SelectR25, Ends, Tasks
  <2> DEFINE rest == [f \in DOMAIN temp \ {"g04", "pg"} |-> temp[f]]
  <2>2. PICK a : /\ temp' = With(rest, "r25", a)
                 /\ a = temp["g04"] \/ (a = temp["pg"] /\ "pg" \in DOMAIN temp)
    <3>1. PICK local \in BOOLEAN :
            temp' = With(rest, "r25",
                         IF local /\ "pg" \in DOMAIN temp /\ temp["pg"].size < temp["g04"].size
                         THEN temp["pg"] ELSE temp["g04"])
      BY <1>12 DEF SelectR25
    <3> HIDE DEF rest
    <3>2. CASE local /\ "pg" \in DOMAIN temp /\ temp["pg"].size < temp["g04"].size
      <4>1. temp' = With(rest, "r25", temp["pg"])
        BY <3>1, <3>2
      <4> QED BY <3>2, <4>1
    <3>3. CASE ~(local /\ "pg" \in DOMAIN temp /\ temp["pg"].size < temp["g04"].size)
      <4>1. temp' = With(rest, "r25", temp["g04"])
        BY <3>1, <3>3
      <4> QED BY <4>1
    <3> QED BY <3>2, <3>3
  <2>3. Kept("g04", {"g04", "v029"}) /\ ("pg" \in DOMAIN temp => Kept("pg", {"pg"}))
    BY <1>12 DEF SelectR25, FilesKept
  <2>4. a \in [by : {"pg", "g04", "v029"}, size : Sizes, holds : Holds]
    BY <2>2, <2>3 DEF Kept
  <2>5. Kept("r25", {"pg", "g04", "v029"})' /\ "pg" \notin DOMAIN temp'
    BY <2>2, <2>4 DEF Kept, With
  <2>6. \A f \in {"prebuilt", "r24"} :
          f \in DOMAIN temp => f \in DOMAIN temp' /\ temp'[f] = temp[f]
    BY <2>2 DEF With
  <2> QED BY <2>1, <2>5, <2>6 DEF FilesKept, Kept
<1>13. CASE Join
  <2>1. CASE \A t \in Tasks : task[t] = "done"
    BY <1>13, <2>1 DEF Join, FilesKept, Kept, Over
  <2>2. CASE ~\A t \in Tasks : task[t] = "done"
    BY <1>13, <2>2, NothingToKeep DEF Join, Leave, Over
  <2> QED BY <2>1, <2>2
<1>14. CASE SelectWinner
  <2>1. CASE pc' = "verify" /\ UNCHANGED <<temp, task, floor>>
    BY <1>14, <2>1 DEF SelectWinner, FilesKept, Kept, Over, NoChild
  <2>2. CASE Leave("raised")
    BY <2>2, NothingToKeep DEF Leave, Over
  <2> QED BY <1>14, <2>1, <2>2 DEF SelectWinner
<1>15. CASE Verify BY <1>15, NothingToKeep DEF Verify, Leave, Closed
<1>16. CASE Kill BY <1>16, NothingToKeep DEF Kill, Leave, Close
<1>17. CASE Elide BY <1>17, NothingToKeep DEF Elide, Leave, NoChild, Closed
<1> QED BY <1>1, <1>2, <1>3, <1>4, <1>5, <1>6, <1>7, <1>8, <1>9, <1>10, <1>11, <1>12,
           <1>13, <1>14, <1>15, <1>16, <1>17 DEF BuildNext
\* The two candidates for revision 25 that count, and the one chosen of them.
LEMMA ChosenIsSmallest ==
    ASSUME BuildInv, SelectR25
    PROVE  /\ task["r25"]' = "done" /\ task["r24"]' = task["r24"] /\ UNCHANGED <<pc, floor>>
           /\ "r24" \in DOMAIN temp => temp'["r24"] = temp["r24"]
           /\ \A a \in bids' \ bids :
                 /\ a.by # "r24" /\ a.size \in Sizes /\ floor \in Sizes
                 /\ temp'["r25"].by # "v029" /\ temp'["r25"].size < floor
                 /\ temp'["r25"].size <= a.size
<1> DEFINE rest == [f \in DOMAIN temp \ {"g04", "pg"} |-> temp[f]]
           pg == temp["pg"]
           g04 == temp["g04"]
           rivals(local) == {temp[f] : f \in DOMAIN temp \cap
                                ({"g04"} \cup IF local THEN {"pg"} ELSE {})}
           wins(local) == local /\ "pg" \in DOMAIN temp /\ pg.size < g04.size
<1>1. PICK local \in BOOLEAN :
        /\ temp' = With(rest, "r25", IF wins(local) THEN pg ELSE g04)
        /\ bids' = bids \cup {a \in rivals(local) : a.by # "v029" /\ a.size < floor}
  BY DEF SelectR25
<1>2. /\ task["r25"]' = "done" /\ task["r24"]' = task["r24"] /\ UNCHANGED <<pc, floor>>
      /\ task["r25"] = "g04 built"
  BY DEF SelectR25, Ends, BuildInv, AtWork, Tasks
<1>3. "r24" \in DOMAIN temp => temp'["r24"] = temp["r24"]
  BY <1>1 DEF With
<1>4. temp'["r25"] = IF wins(local) THEN pg ELSE g04
  BY <1>1 DEF With
<1>5. /\ "g04" \in DOMAIN temp
      /\ g04.by \in {"g04", "v029"} /\ g04.size \in Sizes /\ floor \in Sizes
      /\ g04.by = "v029" => g04.size = floor
  BY <1>2 DEF BuildInv, FilesKept, Kept
<1>6. "pg" \in DOMAIN temp => pg.by = "pg" /\ pg.size \in Sizes
  BY DEF BuildInv, FilesKept, Kept
<1>7. ASSUME NEW a \in bids' \ bids
      PROVE  /\ a = g04 \/ (local /\ "pg" \in DOMAIN temp /\ a = pg)
             /\ a.by # "v029" /\ a.size < floor
  BY <1>1, <1>7
<1> HIDE DEF pg, g04, rest, rivals
<1>8. ASSUME NEW a \in bids' \ bids
      PROVE  /\ a.by # "r24" /\ a.size \in Sizes
             /\ temp'["r25"].by # "v029" /\ temp'["r25"].size < floor
             /\ temp'["r25"].size <= a.size
  <2>1. Sizes \subseteq Nat
    BY ReleaseAssumption
  <2>a. /\ floor \in Nat /\ g04.size \in Nat
        /\ "pg" \in DOMAIN temp => pg.size \in Nat
    BY <1>5, <1>6, <2>1
  <2>b. /\ a = g04 \/ (local /\ "pg" \in DOMAIN temp /\ a = pg)
        /\ a.by # "v029" /\ a.size < floor
    BY <1>8, <1>7
  <2>2. CASE wins(local)
    <3>1. temp'["r25"] = pg /\ "pg" \in DOMAIN temp /\ pg.size < g04.size
      BY <1>4, <2>2
    <3>2. CASE a = g04
      BY <1>5, <1>6, <2>a, <2>b, <3>1, <3>2
    <3>3. CASE a = pg
      BY <1>5, <1>6, <2>a, <2>b, <3>1, <3>3
    <3> QED BY <2>b, <3>2, <3>3
  <2>3. CASE ~wins(local)
    <3>1. temp'["r25"] = g04
      BY <1>4, <2>3
    <3>2. CASE a = g04
      BY <1>5, <1>6, <2>a, <2>b, <3>1, <3>2
    <3>3. CASE a = pg /\ local /\ "pg" \in DOMAIN temp
      <4>1. ~(pg.size < g04.size)
        BY <2>3, <3>3
      <4>2. g04.size <= pg.size /\ g04.size < floor
        BY <4>1, <2>a, <2>b, <3>3
      <4>3. g04.by # "v029"
        BY <1>5, <2>a, <4>2
      <4> QED BY <1>5, <1>6, <2>b, <3>1, <3>3, <4>2, <4>3
    <3> QED BY <2>b, <3>2, <3>3
  <2> QED BY <2>2, <2>3
<1> QED BY <1>2, <1>3, <1>5, <1>8

\* Where the next step is not of the tournament there are no candidates any more.
LEMMA NoBids ==
    ASSUME bids' = {}, pc' # "tournament", pc' # "select"
    PROVE  BidsKept'
BY DEF BidsKept, SmallestWins

LEMMA InOrder ==
    ASSUME NEW x \in Nat, NEW y \in Nat
    PROVE  /\ x <= y => x < y \/ x = y
           /\ ~(x < y) => y <= x
           /\ \A z \in Nat : x <= y /\ y <= z => x <= z
OBVIOUS

LEMMA BidsKeep ==
    ASSUME BuildInv, BuildNext
    PROVE  BidsKept'
<1> USE DEF BuildInv, AtWork
<1>1. CASE BuildLogs BY <1>1, NoBids DEF BuildLogs, Leave
<1>2. CASE OpenMedia BY <1>2, NoBids DEF OpenMedia, Leave
<1>3. CASE WriteMedia BY <1>3, NoBids DEF WriteMedia, Leave
<1>4. CASE BuildTerminal BY <1>4, NoBids DEF BuildTerminal, Leave
<1>5. CASE StartChild BY <1>5, NoBids DEF StartChild, BidsKept
<1>6. CASE ChildEnds
  <2>1. /\ UNCHANGED <<out, pc, task, floor, bids>>
        /\ pc # "select" /\ pc # "verify"
        /\ \A f \in {"r24", "r25"} : f \in DOMAIN temp => temp'[f] = temp[f]
    BY <1>6 DEF ChildEnds, Closed, With
  <2>2. /\ task["r24"] = "done" => "r24" \in DOMAIN temp
        /\ task["r25"] = "done" => "r25" \in DOMAIN temp
    BY DEF FilesKept, Kept
  <2> QED BY <2>1, <2>2 DEF BidsKept, SmallestWins
<1>7. CASE Prepared
  <2>1. bids = {} /\ bids' = {} /\ pc' # "verify"
    BY <1>7 DEF Prepared, BidsKept, Leave
  <2> QED BY <2>1 DEF BidsKept, SmallestWins
<1>8. CASE Fallback BY <1>8, NoBids DEF Fallback, Leave, BidsKept
<1>9. CASE R24Task
  <2>1. /\ pc = "tournament" /\ pc' = pc /\ temp' = Taken
        /\ task' = [task EXCEPT !["r24"] = child]
        /\ task["r24"] = "busy" /\ floor' = floor
        /\ bids' = bids \cup (IF child = "done" THEN {Taken["r24"]} ELSE {})
    BY <1>9 DEF R24Task, Ends, Tasks
  <2>2. task'["r24"] = child /\ task'["r25"] = task["r25"]
    BY <2>1 DEF Tasks
  <2>3. task["r25"] = "done" => temp'["r25"] = temp["r25"]
    BY <2>1, WhatIsTaken DEF FilesKept, Kept
  <2>4. ASSUME NEW a \in bids'
        PROVE  \/ task'["r24"] = "done" /\ a = temp'["r24"]
               \/ /\ task'["r25"] = "done" /\ a.by # "r24"
                  /\ a.size \in Sizes /\ floor' \in Sizes
                  /\ temp'["r25"].by # "v029" /\ temp'["r25"].size < floor'
                  /\ temp'["r25"].size <= a.size
    <3>1. CASE a \in bids
      BY <2>1, <2>2, <2>3, <3>1 DEF BidsKept
    <3>2. CASE child = "done" /\ a = Taken["r24"]
      BY <2>1, <2>2, <3>2
    <3> QED BY <2>1, <3>1, <3>2
  <2> QED BY <2>1, <2>4 DEF BidsKept, SmallestWins
<1>10. CASE PrefixGraph
  <2>1. /\ task["r25"] = "busy" /\ task'["r24"] = task["r24"] /\ UNCHANGED <<out, pc, bids>>
        /\ "r24" \in DOMAIN temp => temp'["r24"] = temp["r24"]
    BY <1>10 DEF PrefixGraph, Ends, Tasks, With
  <2>2. pc = "tournament" /\ (task["r24"] = "done" => "r24" \in DOMAIN temp)
    BY <2>1 DEF Tasks, FilesKept, Kept
  <2> QED BY <2>1, <2>2 DEF BidsKept, SmallestWins
<1>11. CASE GeometryOverlay
  <2>1. /\ task["r25"] = "pg built" /\ task'["r24"] = task["r24"] /\ UNCHANGED <<out, pc, bids>>
        /\ "r24" \in DOMAIN temp => temp'["r24"] = temp["r24"]
    BY <1>11 DEF GeometryOverlay, Ends, Tasks, With
  <2>2. pc = "tournament" /\ (task["r24"] = "done" => "r24" \in DOMAIN temp)
    BY <2>1 DEF Tasks, FilesKept, Kept
  <2> QED BY <2>1, <2>2 DEF BidsKept, SmallestWins
<1>12. CASE SelectR25
  <2>1. task["r25"] = "g04 built"
    BY <1>12 DEF SelectR25
  <2>2. pc = "tournament" /\ (task["r24"] = "done" => "r24" \in DOMAIN temp)
    BY <2>1 DEF Tasks, FilesKept, Kept
  <2>3. \A a \in bids : task["r24"] = "done" /\ a = temp["r24"]
    BY <2>1, <2>2 DEF BidsKept
  <2> QED BY <1>12, <2>2, <2>3, ChosenIsSmallest DEF BidsKept, SmallestWins
<1>13. CASE Join
  <2>1. CASE \A t \in Tasks : task[t] = "done"
    BY <1>13, <2>1 DEF Join, BidsKept, SmallestWins
  <2>2. CASE ~\A t \in Tasks : task[t] = "done"
    BY <1>13, <2>2, NoBids DEF Join, Leave
  <2> QED BY <2>1, <2>2
<1>14. CASE SelectWinner
  <2> DEFINE r24 == temp["r24"]
             r25 == temp["r25"]
  <2>0. CASE Leave("raised")
    BY <2>0, NoBids DEF Leave
  <2> SUFFICES ASSUME ~Leave("raised") PROVE BidsKept'
    BY <2>0
  <2>1. /\ pc = "select" /\ pc' = "verify" /\ UNCHANGED <<temp, task, floor, bids>>
        /\ out' = IF R25Eligible THEN r25 ELSE r24
    BY <1>14 DEF SelectWinner
  <2>2. /\ r24 \in [by : {"r24"}, size : Sizes, holds : Holds]
        /\ r25 \in [by : {"pg", "g04", "v029"}, size : Sizes, holds : Holds]
    BY <2>1 DEF Tasks, FilesKept, Kept
  <2>3. R25Eligible <=> r25.by # "v029" /\ r25.size < floor /\ r25.size < r24.size
    <3>1. r25.by \in {"pg", "g04", "v029"}
      BY <2>2
    <3> QED BY <3>1, RevisionOf DEF R25Eligible
  <2>4. /\ r24.by = "r24" /\ r24.size \in Nat /\ r25.size \in Nat
    BY <2>2, ReleaseAssumption
  <2>5. ASSUME NEW a \in bids
        PROVE  out'.size < a.size \/ (out'.size = a.size /\ (a.by = "r24" => out'.by = "r24"))
    <3>1. \/ a = r24
          \/ /\ a.by # "r24" /\ a.size \in Nat /\ floor \in Nat
             /\ r25.by # "v029" /\ r25.size < floor /\ r25.size <= a.size
      BY <2>1, ReleaseAssumption DEF BidsKept
    <3> HIDE DEF r24, r25
    <3>2. CASE R25Eligible
      <4>1. out' = r25 /\ r25.size < r24.size
        BY <2>1, <2>3, <3>2
      <4>2. CASE a = r24
        BY <4>1, <4>2
      <4>3. CASE a # r24
        <5>1. r25.size <= a.size /\ a.size \in Nat /\ a.by # "r24"
          BY <3>1, <4>3
        <5>2. r25.size < a.size \/ r25.size = a.size
          BY <2>4, <5>1, InOrder
        <5> QED BY <4>1, <5>1, <5>2
      <4> QED BY <4>2, <4>3
    <3>3. CASE ~R25Eligible
      <4>1. out' = r24
        BY <2>1, <3>3
      <4>2. CASE a = r24
        BY <4>1, <4>2
      <4>3. CASE a # r24
        <5>1. /\ r25.size <= a.size /\ a.size \in Nat /\ a.by # "r24"
              /\ r25.by # "v029" /\ r25.size < floor
          BY <3>1, <4>3
        <5>2. r24.size <= r25.size
          BY <2>3, <2>4, <3>3, <5>1, InOrder
        <5>3. r24.size < a.size \/ r24.size = a.size
          BY <2>4, <5>1, <5>2, InOrder
        <5> QED BY <4>1, <5>1, <5>3
      <4> QED BY <4>2, <4>3
    <3> QED BY <3>2, <3>3
  <2> QED BY <2>1, <2>5 DEF BidsKept, SmallestWins
<1>15. CASE Verify BY <1>15, NoBids DEF Verify, Leave
<1>16. CASE Kill BY <1>16, NoBids DEF Kill, Leave
<1>17. CASE Elide BY <1>17, NoBids DEF Elide, Leave
<1> QED BY <1>1, <1>2, <1>3, <1>4, <1>5, <1>6, <1>7, <1>8, <1>9, <1>10, <1>11, <1>12,
           <1>13, <1>14, <1>15, <1>16, <1>17 DEF BuildNext
-----------------------------------------------------------------------------
(* Extractions.                                                            *)

StepOf(x) ==
    \/ ReadManifest(x) \/ Stream(x) \/ Clear(x) \/ Look(x) \/ BackUp(x) \/ Install(x)
    \/ Recover(x) \/ Restore(x) \/ Tidy(x) \/ KillExtractor(x)

Steps == {"open", "stream", "clear", "look", "back up", "install", "recover", "restore",
          "tidy", "done", "failed", "killed"}

ExtractTypes ==
    /\ dst \in {Nothing, Tree, Rubble} /\ there \in BOOLEAN /\ faults \in Nat
    /\ step \in [Extractors -> Steps]
    /\ staging \in [Extractors -> {Nothing, Tree}]
    /\ backup \in [Extractors -> {Nothing, Tree, Rubble}]
    /\ DOMAIN manifest = Extractors

\* What the steps of an extraction rely on.
Relies(x) ==
    /\ step[x] = "open" => manifest[x] = NoArchive
    /\ step[x] = "clear" => manifest[x].by = "logs"
    /\ step[x] \in {"clear", "look", "back up", "install"} => staging[x] = Tree
    /\ step[x] = "restore" => backup[x] # Nothing

Clean == Transactional => dst # Rubble /\ \A x \in Extractors : backup[x] # Rubble

Ready == ExtractTypes /\ (\A x \in Extractors : Relies(x)) /\ Clean

\* The tree is in the hands of y: it will put it back, unless a second call fails or it
\* is killed.
Holder(y) ==
    /\ backup[y] = Tree
    /\ \/ step[y] \in {"install", "killed"}
       \/ step[y] \in {"recover", "restore"} /\ faults >= 1
       \/ step[y] = "failed" /\ faults >= 2

Existed == there \/ \E x \in Extractors : step[x] \in {"tidy", "done"}
Held == Transactional /\ Existed /\ dst # Tree => \E y \in Extractors : Holder(y)

ExtractInv == Ready /\ Held

LEMMA StartOfExtractions == ExtractInit => ExtractInv
<1> SUFFICES ASSUME ExtractInit PROVE ExtractInv
  OBVIOUS
<1>1. ExtractTypes
  BY DEF ExtractInit, ExtractTypes, Steps
<1>2. \A x \in Extractors : Relies(x)
  BY DEF ExtractInit, Relies
<1>3. Clean
  BY DEF ExtractInit, Clean, Nothing, Tree, Rubble
<1>4. Held
  BY DEF ExtractInit, Held, Existed
<1> QED BY <1>1, <1>2, <1>3, <1>4 DEF ExtractInv, Ready

LEMMA ReaderOfLogs ==
    ASSUME NEW a PROVE Reader(a) = "logs" => a.by = "logs"
BY DEF Reader

LEMMA FaultsCount ==
    faults \in Nat /\ Fault => faults' \in Nat /\ faults' = faults + 1
BY DEF Fault

LEMMA TypesKeep ==
    ASSUME ExtractTypes, NEW x \in Extractors, StepOf(x)
    PROVE  ExtractTypes'
<1> USE FaultsCount DEF ExtractTypes, Goto, Fails, Steps
<1>1. CASE ReadManifest(x) BY <1>1 DEF ReadManifest
<1>2. CASE Stream(x) BY <1>2 DEF Stream
<1>3. CASE Clear(x) BY <1>3 DEF Clear
<1>4. CASE Look(x) BY <1>4 DEF Look
<1>5. CASE BackUp(x) BY <1>5 DEF BackUp
<1>6. CASE Install(x) BY <1>6 DEF Install
<1>7. CASE Recover(x) BY <1>7 DEF Recover
<1>8. CASE Restore(x) BY <1>8 DEF Restore
<1>9. CASE Tidy(x) BY <1>9 DEF Tidy
<1>10. CASE KillExtractor(x) BY <1>10 DEF KillExtractor
<1> QED BY <1>1, <1>2, <1>3, <1>4, <1>5, <1>6, <1>7, <1>8, <1>9, <1>10 DEF StepOf

LEMMA RelianceKeeps ==
    ASSUME ExtractTypes, NEW x \in Extractors, NEW y \in Extractors, Relies(y), StepOf(x)
    PROVE  Relies(y)'
<1> USE DEF ExtractTypes, Relies, Goto, Fails, Fault
<1>1. CASE ReadManifest(x) BY <1>1 DEF ReadManifest
<1>2. CASE Stream(x) BY <1>2, ReaderOfLogs DEF Stream
<1>3. CASE Clear(x) BY <1>3 DEF Clear
<1>4. CASE Look(x) BY <1>4 DEF Look
<1>5. CASE BackUp(x) BY <1>5 DEF BackUp
<1>6. CASE Install(x) BY <1>6 DEF Install
<1>7. CASE Recover(x) BY <1>7 DEF Recover
<1>8. CASE Restore(x) BY <1>8 DEF Restore
<1>9. CASE Tidy(x) BY <1>9 DEF Tidy
<1>10. CASE KillExtractor(x) BY <1>10 DEF KillExtractor
<1> QED BY <1>1, <1>2, <1>3, <1>4, <1>5, <1>6, <1>7, <1>8, <1>9, <1>10 DEF StepOf

LEMMA CleanKeeps ==
    ASSUME Ready, NEW x \in Extractors, StepOf(x)
    PROVE  Clean' /\ (Transactional' => Transactional)
<1> USE DEF Ready, ExtractTypes, Relies, Clean, Transactional, Goto, Fails, Fault, Nothing, Tree, Rubble
<1>1. CASE ReadManifest(x) BY <1>1, Authors DEF ReadManifest
<1>2. CASE Stream(x) BY <1>2 DEF Stream
<1>3. CASE Clear(x) BY <1>3 DEF Clear
<1>4. CASE Look(x) BY <1>4 DEF Look
<1>5. CASE BackUp(x) BY <1>5 DEF BackUp
<1>6. CASE Install(x) BY <1>6 DEF Install
<1>7. CASE Recover(x) BY <1>7 DEF Recover
<1>8. CASE Restore(x) BY <1>8 DEF Restore
<1>9. CASE Tidy(x) BY <1>9 DEF Tidy
<1>10. CASE KillExtractor(x) BY <1>10 DEF KillExtractor
<1> QED BY <1>1, <1>2, <1>3, <1>4, <1>5, <1>6, <1>7, <1>8, <1>9, <1>10 DEF StepOf

\* A step is of one extraction, and no more than one call fails in it.
LEMMA OneStep ==
    ASSUME NEW x \in Extractors, StepOf(x)
    PROVE  /\ there' = there
           /\ faults' = faults \/ Fault
           /\ \E next : step' = [step EXCEPT ![x] = next]
BY DEF StepOf, ReadManifest, Stream, Clear, Look, BackUp, Install, Recover, Restore, Tidy,
       KillExtractor, Goto, Fails

LEMMA FaultsGrow ==
    ASSUME ExtractTypes, NEW x \in Extractors, StepOf(x)
    PROVE  /\ faults \in Nat /\ faults' \in Nat
           /\ faults >= 1 => faults' >= 1
           /\ faults >= 2 => faults' >= 2
<1>1. faults \in Nat /\ (faults' = faults \/ faults' = faults + 1)
  BY OneStep, FaultsCount DEF ExtractTypes
<1> QED BY <1>1

\* The tree stays where it is in the steps of others.
LEMMA HolderKeeps ==
    ASSUME ExtractTypes, NEW x \in Extractors, NEW y \in Extractors, x # y,
           StepOf(x), Holder(y)
    PROVE  Holder(y)'
<1>2. backup'[y] = backup[y] /\ step'[y] = step[y]
  BY DEF ExtractTypes, StepOf, ReadManifest, Stream, Clear, Look, BackUp, Install, Recover,
     Restore, Tidy, KillExtractor, Goto, Fails
<1> QED BY <1>2, FaultsGrow DEF Holder

LEMMA HeldKeeps ==
    ASSUME ExtractInv, NEW x \in Extractors, StepOf(x)
    PROVE  Held'
<1> SUFFICES ASSUME Transactional', Existed', dst' # Tree
             PROVE  \E y \in Extractors : Holder(y)'
  BY DEF Held
<1>1. ExtractTypes /\ Relies(x) /\ Transactional
  BY CleanKeeps DEF ExtractInv, Ready
<1>2. dst \in {Nothing, Tree} /\ backup[x] \in {Nothing, Tree} /\ staging[x] \in {Nothing, Tree}
  BY <1>1 DEF ExtractInv, Ready, Clean, ExtractTypes
<1>3. ASSUME Existed, dst # Tree, NEW y \in Extractors, Holder(y), y # x
      PROVE  \E z \in Extractors : Holder(z)'
  BY <1>1, <1>3, HolderKeeps
<1>4. Existed /\ dst # Tree => \E y \in Extractors : Holder(y)
  BY <1>1 DEF ExtractInv, Held
<1>5. (step'[x] \in {"tidy", "done"} => step[x] \in {"tidy", "done"}) => Existed
  <2>1. PICK next : step' = [step EXCEPT ![x] = next]
    BY OneStep
  <2> QED BY <1>1, <2>1, OneStep DEF Existed, ExtractTypes
<1>7. CASE step[x] \in {"open", "stream", "look", "tidy"}
  <2>1. ~Holder(x) /\ UNCHANGED dst
    BY <1>7 DEF Holder, StepOf, ReadManifest, Stream, Clear, Look, BackUp, Install,
       Recover, Restore, Tidy, KillExtractor
  <2>2. Existed
    BY <1>1, <1>5, <1>7 DEF ExtractTypes, StepOf, ReadManifest, Stream, Clear, Look, BackUp,
       Install, Recover, Restore, Tidy, KillExtractor, Goto, Fails
  <2> QED BY <1>3, <1>4, <2>1, <2>2
<1>8. CASE Clear(x)
  BY <1>1, <1>8 DEF Clear, Relies, Transactional
<1>9. CASE BackUp(x)
  <2>1. step[x] = "back up" /\ step'[x] \in {"install", "recover"} /\ ~Holder(x)
    BY <1>1, <1>9 DEF BackUp, ExtractTypes, Goto, Holder
  <2>2. CASE UNCHANGED dst
    BY <1>3, <1>4, <1>5, <2>1, <2>2
  <2>3. CASE dst = Tree /\ backup'[x] = Tree /\ step'[x] = "install"
    BY <2>3 DEF Holder
  <2> QED BY <1>1, <1>2, <1>9, <2>2, <2>3 DEF BackUp, ExtractTypes, Goto
<1>10. CASE Install(x)
  <2>1. step[x] = "install" /\ staging[x] = Tree
    BY <1>1, <1>10 DEF Install, Relies
  <2>2. /\ dst = Nothing /\ UNCHANGED <<dst, backup>>
        /\ faults' = faults + 1 /\ step'[x] = "recover"
    BY <1>1, <1>2, <1>10, <2>1 DEF Install, ExtractTypes, Goto, Fault
  <2>3. Existed
    BY <1>5, <2>2
  <2>4. CASE Holder(x)
    <3>1. backup'[x] = Tree /\ faults' >= 1
      BY <1>1, <2>2, <2>4, FaultsGrow DEF Holder, ExtractTypes
    <3> QED BY <2>2, <3>1 DEF Holder
  <2>5. CASE ~Holder(x)
    BY <1>3, <1>4, <2>2, <2>3, <2>5
  <2> QED BY <2>4, <2>5
<1>11. CASE Recover(x)
  <2>1. /\ step[x] = "recover" /\ UNCHANGED <<dst, backup, faults>>
        /\ step'[x] = IF backup[x] # Nothing /\ dst = Nothing THEN "restore" ELSE "failed"
    BY <1>1, <1>11 DEF Recover, Goto, Fails, ExtractTypes
  <2>2. Existed /\ dst = Nothing
    BY <1>2, <1>5, <2>1
  <2>3. CASE Holder(x)
    BY <2>1, <2>2, <2>3 DEF Holder, Nothing, Tree
  <2>4. CASE ~Holder(x)
    BY <1>3, <1>4, <2>1, <2>2, <2>4
  <2> QED BY <2>3, <2>4
<1>12. CASE Restore(x)
  <2>1. step[x] = "restore" /\ backup[x] = Tree
    BY <1>1, <1>2, <1>12 DEF Restore, Relies
  <2>2. /\ UNCHANGED <<dst, backup>> /\ step'[x] = "failed"
        /\ dst = Nothing => faults' = faults + 1
    BY <1>1, <1>2, <1>12, <2>1 DEF Restore, Fails, Goto, Fault, ExtractTypes
  <2>3. Existed /\ dst = Nothing
    BY <1>2, <1>5, <2>2
  <2>4. CASE Holder(x)
    <3>1. faults >= 1
      BY <2>1, <2>4 DEF Holder
    <3>2. faults' >= 2
      BY <1>1, <2>2, <2>3, <3>1 DEF ExtractTypes
    <3> QED BY <2>1, <2>2, <3>2 DEF Holder
  <2>5. CASE ~Holder(x)
    BY <1>3, <1>4, <2>2, <2>3, <2>5
  <2> QED BY <2>4, <2>5
<1>13. CASE KillExtractor(x) /\ step[x] \notin {"open", "stream", "look", "tidy"}
  <2>1. step'[x] = "killed" /\ UNCHANGED <<dst, backup>>
    BY <1>1, <1>13 DEF KillExtractor, Goto, ExtractTypes
  <2>2. Existed
    BY <1>5, <2>1
  <2>3. CASE Holder(x)
    BY <2>1, <2>3 DEF Holder
  <2>4. CASE ~Holder(x)
    BY <1>3, <1>4, <2>1, <2>2, <2>4
  <2> QED BY <2>3, <2>4
<1> QED BY <1>7, <1>8, <1>9, <1>10, <1>11, <1>12, <1>13
        DEF StepOf, ReadManifest, Stream, Look, Tidy

-----------------------------------------------------------------------------
(* Both together.                                                          *)

LEMMA BuildUntouched ==
    ASSUME BuildInv, UNCHANGED <<out, buildVars>>
    PROVE  BuildInv'
<1>1. UNCHANGED <<out, old, pc, via, temp, child, pending, task, floor, bids>>
  BY DEF buildVars
<1>2. Published'
  BY <1>1 DEF BuildInv, Published, OutWhole
<1>3. AtWork'
  BY <1>1 DEF BuildInv, AtWork, Closed
<1>4. FilesKept'
  BY <1>1 DEF BuildInv, FilesKept, Kept
<1>5. BidsKept'
  BY <1>1 DEF BuildInv, BidsKept, SmallestWins
<1> QED BY <1>2, <1>3, <1>4, <1>5 DEF BuildInv

LEMMA ExtractionsUntouched ==
    ASSUME ExtractInv, UNCHANGED extractVars
    PROVE  ExtractInv'
<1>1. UNCHANGED <<dst, there, step, manifest, staging, backup, faults>>
  BY DEF extractVars
<1>2. ExtractTypes'
  BY <1>1 DEF ExtractInv, Ready, ExtractTypes
<1>3. \A x \in Extractors : Relies(x)'
  BY <1>1 DEF ExtractInv, Ready, Relies
<1>4. Clean'
  BY <1>1 DEF ExtractInv, Ready, Clean, Transactional
<1>5. Held'
  BY <1>1 DEF ExtractInv, Held, Existed, Transactional, Holder
<1> QED BY <1>2, <1>3, <1>4, <1>5 DEF ExtractInv, Ready

LEMMA Invariance == Spec => [](BuildInv /\ ExtractInv)
<1>1. Init => BuildInv /\ ExtractInv
  BY StartOfBuild, StartOfExtractions DEF Init
<1>2. BuildInv /\ ExtractInv /\ [Next]_vars => (BuildInv /\ ExtractInv)'
  <2> SUFFICES ASSUME BuildInv, ExtractInv, [Next]_vars
               PROVE  (BuildInv /\ ExtractInv)'
    OBVIOUS
  <2>1. CASE BuildNext /\ UNCHANGED extractVars
    BY <2>1, PublishedKeeps, AtWorkKeeps, FilesKeep, BidsKeep, ExtractionsUntouched DEF BuildInv
  <2>2. CASE ExtractNext /\ UNCHANGED <<out, buildVars>>
    <3>1. PICK x \in Extractors : StepOf(x)
      BY <2>2 DEF ExtractNext, StepOf
    <3>2. ExtractTypes' /\ Clean' /\ Held' /\ \A y \in Extractors : Relies(y)'
      BY <3>1, TypesKeep, CleanKeeps, HeldKeeps, RelianceKeeps DEF ExtractInv, Ready
    <3> QED BY <2>2, <3>2, BuildUntouched DEF ExtractInv, Ready
  <2>3. CASE UNCHANGED vars
    BY <2>3, BuildUntouched, ExtractionsUntouched DEF vars
  <2> QED BY <2>1, <2>2, <2>3 DEF Next
<1> QED BY <1>1, <1>2, PTL DEF Spec

\* Whatever is built, fails or is killed, the path names the archive it named before or a
\* whole one of a released profile, but for archives written in place and logs archives that
\* failed; and what returns is of the route that returned.
THEOREM OutIsWhole == Spec => []OutWhole
<1>1. BuildInv => OutWhole
  BY DEF BuildInv, Published
<1> QED BY <1>1, Invariance, PTL

\* However the two threads and the child run, the smallest whole candidate is published.
THEOREM SmallestIsPublished == Spec => []SmallestWins
<1>1. BuildInv => SmallestWins
  BY DEF BuildInv, BidsKept
<1> QED BY <1>1, Invariance, PTL

\* A build that ends leaves no child process behind.
THEOREM ChildrenAreReaped == Spec => []NoChildLeft
<1>1. BuildInv => NoChildLeft
  BY DEF BuildInv, AtWork, Closed, NoChildLeft
<1> QED BY <1>1, Invariance, PTL

\* With any number of extractions to one directory, failing and killed ones too, a tree
\* that was there is there or in a backup.
THEOREM TreesSurvive == Spec => []Survives
<1>1. ExtractInv => Survives
  <2> SUFFICES ASSUME ExtractInv, Transactional, Existed PROVE Whole \/ \E x \in Extractors : backup[x] # Nothing
    BY DEF Survives, Existed
  <2>1. CASE dst = Tree
    BY <2>1 DEF Whole, Nothing, Tree, Rubble
  <2>2. CASE dst # Tree
    BY <2>2 DEF ExtractInv, Held, Holder, Nothing, Tree
  <2> QED BY <2>1, <2>2
<1> QED BY <1>1, Invariance, PTL

\* When all of them have ended and at most one call failed it is there.
THEOREM NothingIsLost == Spec => []EndsWhole
<1>1. ExtractInv => EndsWhole
  <2> SUFFICES ASSUME ExtractInv, Transactional, faults <= 1,
                      \A x \in Extractors : step[x] \in {"done", "failed"},
                      there \/ \E x \in Extractors : step[x] = "done"
               PROVE  Whole
    BY DEF EndsWhole, NothingLost
  <2>1. ~(faults >= 2)
    BY DEF ExtractInv, Ready, ExtractTypes
  <2>2. \A x \in Extractors : ~Holder(x)
    BY <2>1 DEF Holder
  <2>3. dst = Tree
    BY <2>2 DEF ExtractInv, Held, Existed
  <2> QED BY <2>3 DEF Whole, Nothing, Tree, Rubble
<1> QED BY <1>1, Invariance, PTL
=============================================================================
