------------------------------ MODULE MCBuilder ------------------------------
(***************************************************************************)
(* Trees for Builder: short, with contents that occur in several places.   *)
(***************************************************************************)
EXTENDS BuiltArchive

Plain(kind, ext, bytes, extents, to, gaps, members) ==
    [kind |-> kind, ext |-> ext, bytes |-> bytes, extents |-> extents, to |-> to,
     gaps |-> gaps, members |-> members]
File(ext, bytes) == Plain("file", ext, bytes, << >>, 0, << >>, << >>)
Sparse(bytes, extents) == Plain("file", ".txt", bytes, extents, 0, << >>, << >>)
Link(bytes) == Plain("symlink", "", bytes, << >>, 0, << >>, << >>)
ZipFile(gaps, members) == Plain("zip", ".zip", ZipBytes(gaps, members), << >>, 0, gaps, members)
Fake(bytes) == Plain("zip", ".zip", bytes, << >>, 0, << >>, << >>)
Hard == Plain("hardlink", "", << >>, << >>, 1, << >>, << >>)
Member(raw, level) == [raw |-> raw, level |-> level, ext |-> ".txt"]

A == << 1 >>
B == << 2 >>
AB == << 1, 2 >>

MCEntries == {
    Link(AB), Link(A), Hard,
    File(".txt", A), File(".md", A), File(".txt", B), File(".txt", AB), File(".bin", AB),
    File(".bin", << 3, 3, 3 >>), File(".md", << 1, 2, 1, 2 >>), File(".wav", << 2, 1, 2, 1 >>),
    Sparse(<< 0, 1, 2, 1, 0, 2 >>, << <<1, 4>>, <<5, 6>> >>),
    ZipFile(<< A, A, B >>, << Member(AB, 11), Member(A, 0) >>),
    ZipFile(<< B, << >>, B, A >>, << Member(A, 12), Member(A, 11), Member(A, 11) >>),
    ZipFile(<< B, << 3 >>, A, A >>, << Member(A, 12), Member(A, 11), Member(<< 11, 1 >>, 12) >>),
    ZipFile(<< B, B, B >>, << Member(AB, 11), Member(A, 13) >>),
    ZipFile(<< << 4 >> >>, << >>), Fake(<< 5, 6 >>) }

MCDictionary == << 7, 7 >>

\* Trees of three: those whose files meet in packs, recipes and cohorts.
MCMeeting == {e \in MCEntries : e.kind = "zip" \/ e.ext = ".txt" \/ e = Hard}

\* Larger trees where one content is made of others: a file of two small ones, or of all
\* of a cohort, and a member that is the dictionary.
MCMadeOfOthers == {
    << File(".txt", A), File(".txt", B), File(".md", << 3 >>), File(".md", AB) >>,
    << Fake(A), Fake(B), Fake(<< >>), File(".txt", << 3 >>), File(".txt", AB) >>,
    << Fake(A), Fake(B), Fake(<< 3 >>), File(".bin", << 1, 2, 3 >>) >>,
    << Fake(A), Fake(<< 5, 6 >>), Fake(B), Link(<< 1, 5, 6, 2 >>) >>,
    << Fake(<< 5, 6, 5 >>), Fake(A), Fake(B), Fake(<< 6, 6, 6 >>), File(".bin", << 1, 2 >>) >>,
    << ZipFile(<< A, B >>, << Member(<< 7, 7 >>, 11) >>), File(".txt", << 7, 7, 7, 7 >>) >> }

\* A hard link has its file before it.
MCLinked(trees) ==
    {t \in trees :
        /\ t[1] # Hard
        /\ \A i \in DOMAIN t : t[i] = Hard => t[1].kind \in {"file", "zip"}}

\* Small texts that meet in one pack, and a link to a path that reads like one of them.
MCTexts == [1..3 -> {Link(A), File(".txt", A), File(".txt", B), File(".md", A)}]

MCTrees == {<< >>} \cup MCMadeOfOthers \cup MCTexts
    \cup MCLinked([1..1 -> MCEntries] \cup [1..2 -> MCEntries] \cup [1..3 -> MCMeeting])
=============================================================================
