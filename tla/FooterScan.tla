----------------------------- MODULE FooterScan -----------------------------
(***************************************************************************)
(* Finding the newest generation of an archive file. The reader and the    *)
(* preflight check each scan the file backwards, block by block, for the   *)
(* magic of a footer, and follow each footer's chain with code of their    *)
(* own; where the preflight accepts, the reader must open the same         *)
(* generation.                                                             *)
(***************************************************************************)
EXTENDS Integers, FiniteSets, SequencesExt

CONSTANTS
    Sizes,      \* lengths of files
    MaxFooters, \* bound: the magic occurs so often in a file
    Magic,      \* length of FMAGIC
    Footer,     \* length of a footer
    Block,      \* what a scan reads at once
    MaxDepth    \* max_delta_depth of the preflight limits

ASSUME ScanAssumption ==
    /\ Magic \in Nat \ {0, 1} /\ Footer \in Nat /\ Footer >= Magic
    /\ Block \in Nat /\ Block >= Magic /\ {MaxDepth, MaxFooters} \subseteq Nat
    /\ Sizes \subseteq Nat

\* Of a footer: kind; plain, that codec is known and flags and reserved bytes are
\* zero; whole, that the payload before it has its length and hash; big, that the length
\* is beyond the limits but not the file; prev. The magic has no border: occurrences do
\* not overlap.
VARIABLES file, scan

vars == <<file, scan>>
Scanners == {"reader", "preflight"}
Nothing == << >>

\* pos, length: the chunk in memory starts at pos and has this length, the bytes
\* carried from the chunk behind it included; search: where to look before;
\* tried: candidates so far; state.
Foot(kind, plain, whole, big, prev) ==
    [kind |-> kind, plain |-> plain, whole |-> whole, big |-> big, prev |-> prev]

\* What appends leave (checkpoints, deltas on other footers), torn and altered ones, and
\* the magic by chance.
Feet(S) ==
    {Foot("checkpoint", TRUE, whole, big, 0) : whole \in BOOLEAN, big \in BOOLEAN}
    \cup {Foot("checkpoint", FALSE, TRUE, FALSE, 0), Foot("other", TRUE, TRUE, FALSE, 0)}
    \cup {Foot("delta", plain, TRUE, FALSE, prev) : plain \in BOOLEAN, prev \in S \cup {0}}

Places(size) ==
    {S \in SUBSET (1..(size - Magic)) : /\ Cardinality(S) <= MaxFooters
                                        /\ \A p, q \in S : p < q => p + Magic <= q}

Init ==
    /\ \E size \in Sizes : \E S \in Places(size) : \E foot \in [S -> Feet(S)] :
           file = [size |-> size, foot |-> foot]
    /\ scan = [w \in Scanners |-> [pos |-> file.size, length |-> 0, search |-> 0,
                                   tried |-> << >>, state |-> "read"]]

Least(a, b) == IF a < b THEN a ELSE b

-----------------------------------------------------------------------------
(* One footer and its chain.                                               *)

InFile(p) == p \in DOMAIN file.foot /\ p + Footer <= file.size

\* _decode_generation_payload
Decodes(p) == InFile(p) /\ file.foot[p].whole

\* _decode_footer: header fields first, then the limits, then the payload.
PrevBelow(p) ==
    file.foot[p].prev # 0 => file.foot[p].prev < p /\ file.foot[p].prev + Footer <= file.size
Sensible(p) ==
    /\ InFile(p) /\ PrevBelow(p)
    /\ file.foot[p].kind \in {"checkpoint", "delta"} /\ file.foot[p].plain

\* The reader stops at a footer it has seen.
readerChain[c \in [at : 0..file.size, seen : SUBSET DOMAIN file.foot]] ==
    IF c.at = 0 \/ c.at \in c.seen \/ ~Decodes(c.at) THEN Nothing
    ELSE IF file.foot[c.at].kind = "checkpoint" THEN << c.at >>
    ELSE IF file.foot[c.at].kind # "delta" THEN Nothing
    ELSE LET rest == readerChain[[at |-> file.foot[c.at].prev, seen |-> c.seen \cup {c.at}]]
         IN  IF rest = Nothing THEN Nothing ELSE << c.at >> \o rest
ReaderChain(start) == readerChain[[at |-> start, seen |-> {}]]

Refused == << 0 >>      \* an exception: the archive is rejected

TooDeepLate(depth) == depth > MaxDepth + 1      \* slip: one delta too many
TooDeep(depth) == depth > MaxDepth

preflightChain[c \in [at : 0..file.size, depth : 0..(MaxDepth + 2)]] ==
    IF c.at = 0 THEN Nothing
    ELSE IF TooDeep(c.depth) THEN Refused
    ELSE IF ~Sensible(c.at) THEN Nothing
    ELSE IF file.foot[c.at].big THEN Refused
    ELSE IF ~file.foot[c.at].whole THEN Nothing
    ELSE IF file.foot[c.at].kind = "checkpoint" THEN << c.at >>
    ELSE LET rest == preflightChain[[at |-> file.foot[c.at].prev, depth |-> c.depth + 1]]
         IN  IF rest \in {Nothing, Refused} THEN rest ELSE << c.at >> \o rest
PreflightChain(start) == preflightChain[[at |-> start, depth |-> 0]]

Chain(w, p) == IF w = "reader" THEN ReaderChain(p) ELSE PreflightChain(p)

-----------------------------------------------------------------------------
(* The scan.                                                               *)

CarryShort(length) == Least(Magic - 2, length)      \* slip: one byte too few
CarryAll(length) == length                          \* slip: the chunk is kept

\* What of a chunk is kept for the one before it: len(magic) - 1 bytes.
Carry(length) == Least(Magic - 1, length)

ReadBlock(w) ==
    /\ scan[w].state = "read" /\ scan[w].pos > 0
    /\ LET n == Least(Block, scan[w].pos)
           length == n + Carry(scan[w].length)
       IN  scan' = [scan EXCEPT ![w] = [pos |-> @.pos - n, length |-> length,
                                        search |-> length, tried |-> @.tried,
                                        state |-> "search"]]
    /\ UNCHANGED file

\* chunk.rfind(magic, 0, search), as an offset in the file.
Hits(w) == {p \in DOMAIN file.foot :
                p >= scan[w].pos /\ p + Magic <= scan[w].pos + scan[w].search}

OutcomeLenient(w, p) ==                 \* slip: a footer it refuses is passed over
    LET chain == Chain(w, p)
    IN  IF chain \in {Nothing, Refused} THEN "search" ELSE "found"
Outcome(w, p) ==
    LET chain == Chain(w, p)
    IN  CASE chain = Nothing -> "search" [] chain = Refused -> "rejected" [] OTHER -> "found"

TryFooter(w) ==
    /\ scan[w].state = "search" /\ Hits(w) # {}
    /\ LET p == Max(Hits(w))
       IN  IF p + Footer <= file.size
           THEN scan' = [scan EXCEPT ![w] = [@ EXCEPT !.search = p - scan[w].pos,
                                                      !.tried = Append(scan[w].tried, p),
                                                      !.state = Outcome(w, p)]]
           ELSE scan' = [scan EXCEPT ![w] = [@ EXCEPT !.search = p - scan[w].pos]]
    /\ UNCHANGED file

BlockDone(w) ==
    /\ scan[w].state = "search" /\ Hits(w) = {}
    /\ scan' = [scan EXCEPT ![w].state = "read"]
    /\ UNCHANGED file

\* No generation: the index at the head of the file is used.
UseHead(w) ==
    /\ scan[w].state = "read" /\ scan[w].pos = 0
    /\ scan' = [scan EXCEPT ![w].state = "head"]
    /\ UNCHANGED file

\* An archive is checked, then opened.
Turn(w) == w = "reader" => scan["preflight"].state \in {"found", "rejected", "head"}

Next == \E w \in Scanners :
            Turn(w) /\ (ReadBlock(w) \/ TryFooter(w) \/ BlockDone(w) \/ UseHead(w))

Spec == Init /\ [][Next]_vars

-----------------------------------------------------------------------------
\* The scan stays inside the file, and inside the chunk it holds: never more than a block
\* and what was carried (reader.py:86-94).
TypeOK ==
    \A w \in Scanners :
        /\ scan[w].pos \in 0..file.size
        /\ scan[w].length < Block + Magic /\ scan[w].search <= scan[w].length
        /\ scan[w].state \in {"read", "search", "found", "rejected", "head"}

\* The footers of the generation it opens or vouches for.
Chosen(w) == IF scan[w].state = "found" THEN Chain(w, Last(scan[w].tried)) ELSE Nothing

Candidates == {p \in DOMAIN file.foot : p + Footer <= file.size}

\* However the blocks fall, every complete footer is tried, the newest first and none
\* twice, until one is taken (reader.py:86-99, validation.py:137-160).
NewestFirst ==
    \A w \in Scanners :
        LET tried == scan[w].tried
        IN  /\ \A i, j \in DOMAIN tried : i < j => tried[i] > tried[j]
            /\ ToSet(tried) \subseteq Candidates
            /\ \A p \in Candidates \ ToSet(tried) :
                   /\ scan[w].state # "head"
                   /\ \A q \in ToSet(tried) : p < q

\* The preflight vouches for the generation the reader opens, footer by footer, unless
\* header fields of a footer, which no hash covers, were altered: those it passes over
\* and the reader does not read (validation.py:294-300).
SameGeneration ==
    scan["preflight"].state \in {"found", "head"} /\ scan["reader"].state \in {"found", "head"} =>
        \/ Chosen("preflight") = Chosen("reader")
        \/ \E p \in ToSet(Chosen("reader")) : ~Sensible(p)

\* A chain the preflight accepts goes down to a checkpoint, within its depth.
AcceptedIsSound ==
    scan["preflight"].state = "found" =>
        LET chain == Chosen("preflight")
        IN  /\ Len(chain) <= MaxDepth + 1
            /\ \A i \in DOMAIN chain :
                   /\ file.foot[chain[i]].whole /\ ~file.foot[chain[i]].big
                   /\ i < Len(chain) => chain[i + 1] < chain[i]
            /\ file.foot[Last(chain)].kind = "checkpoint"
=============================================================================
