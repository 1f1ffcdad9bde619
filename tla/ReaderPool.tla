---------------------------- MODULE ReaderPool ----------------------------
(***************************************************************************)
(* An open archive and the threads of its pool: chunked members are read   *)
(* and extracted by tasks that share one cache and the decoders behind     *)
(* their locks; close() releases these and waits for the pool.             *)
(***************************************************************************)
EXTENDS Naturals, Sequences, FiniteSets, SequencesExt

CONSTANTS
    Codec,      \* blob -> "raw", "frame" (decoded without shared state), "dict"
                \* (Zstandard with the dictionary) or "deflate"
    DictBlob,   \* the blob that holds the dictionary
    Modest,     \* blobs small enough for the cache
    Chunks,     \* member -> its blobs in order
    PoolFrom,   \* a member of so many chunks is read by the pool (4 in the code)
    Workers,    \* the threads of the pool
    Owner,      \* the thread that opened the archive
    Damages,    \* the sets of blobs that may be damaged
    MaxOps      \* bound: members read or extracted before close

Blobs == DOMAIN Codec
Members == DOMAIN Chunks
Threads == Workers \cup {Owner}
None == "none"

ASSUME PoolAssumption ==
    /\ Codec \in [Blobs -> {"raw", "frame", "dict", "deflate"}]
    /\ DictBlob \in Blobs /\ Codec[DictBlob] = "raw"
    /\ Modest \subseteq Blobs
    /\ Chunks \in [Members -> Seq(Blobs)]
    /\ PoolFrom \in Nat \ {0} /\ MaxOps \in Nat
    /\ Owner \notin Workers /\ None \notin Threads /\ None \notin Blobs
    /\ \A D \in Damages : D \subseteq Blobs

VARIABLES
    damaged,    \* blobs that fail their check
    mapped,     \* the file is mapped
    cache,      \* blobs in the cache
    decoder,    \* there is a dictionary decoder
    inflater,   \* there is a Deflate decoder
    zlock,      \* the thread in _zdict_decode
    ilock,      \* the thread in the Deflate decoder
    work,       \* thread -> the _blob call it is in
    tasks,      \* what was submitted to the pool, in order
    owner,      \* what the owner is doing
    temp,       \* a part file is on disk
    dest,       \* member -> the file at its destination
    ops         \* members read or extracted so far

blobVars == <<cache, decoder, inflater, zlock, ilock>>
ownVars == <<owner, temp, dest, ops>>
vars == <<damaged, mapped, blobVars, work, tasks, ownVars>>

\* outer: the blob whose decoding waits for the dictionary.
Idle == [pc |-> "idle", blob |-> None, outer |-> None, task |-> 0]
Call(b, i) == [pc |-> "look", blob |-> b, outer |-> None, task |-> i]

Init ==
    /\ damaged \in Damages
    /\ mapped = TRUE /\ inflater = TRUE
    /\ cache = {} /\ decoder = FALSE
    /\ zlock = None /\ ilock = None
    /\ work = [t \in Threads |-> Idle]
    /\ tasks = << >>
    /\ owner = [op |-> "none", member |-> None, got |-> << >>, first |-> 0,
                result |-> None, failed |-> FALSE]
    /\ temp = FALSE
    /\ dest = [m \in Members |-> "old"]
    /\ ops = 0

-----------------------------------------------------------------------------
(* One blob, in whichever thread.                                          *)

At(t, pc) == work[t].pc = pc
Goto(t, pc) == work' = [work EXCEPT ![t].pc = pc]

\* Remaining futures of a map are cancelled when its generator ends; only what has
\* not started can be.
Cancelled(ts, from) ==
    [i \in DOMAIN ts |-> IF i >= from /\ ts[i].state = "pending"
                         THEN [ts[i] EXCEPT !.state = "cancelled"] ELSE ts[i]]

EndedLitter(result) ==                  \* slip: the part file stays after a failure
    /\ owner' = [owner EXCEPT !.op = "none", !.result = result,
                              !.failed = @ \/ result # "returned"]
    /\ temp' = (temp /\ result # "returned")

\* A read or an extraction ends; the part file does not outlive it.
Ended(result) ==
    /\ owner' = [owner EXCEPT !.op = "none", !.result = result,
                              !.failed = @ \/ result # "returned"]
    /\ temp' = FALSE

\* The call is over: a task keeps the outcome, the owner goes on or raises.
Deliver(t, ok) ==
    /\ work' = [work EXCEPT ![t] = Idle]
    /\ IF t \in Workers
       THEN /\ tasks' = [tasks EXCEPT ![work[t].task].state =
                            IF ok THEN "done" ELSE "failed"]
            /\ UNCHANGED <<owner, temp>>
       ELSE /\ IF ok THEN /\ owner' = [owner EXCEPT !.got = Append(@, work[t].blob)]
                          /\ UNCHANGED temp
                     ELSE Ended("raised")
            /\ UNCHANGED tasks

RaiseLocked(t) ==                       \* slip: an exception keeps the locks
    /\ UNCHANGED blobVars
    /\ Deliver(t, FALSE)

\* An exception leaves the locks that are held.
Raise(t) ==
    /\ zlock' = IF zlock = t THEN None ELSE zlock
    /\ ilock' = IF ilock = t THEN None ELSE ilock
    /\ UNCHANGED <<cache, decoder, inflater>>
    /\ Deliver(t, FALSE)

\* The bytes of a blob are there: of the dictionary, a decoder is made.
Return(t) ==
    IF work[t].outer # None
    THEN /\ decoder' = TRUE
         /\ work' = [work EXCEPT ![t].pc = "decode", ![t].blob = work[t].outer,
                                 ![t].outer = None]
         /\ UNCHANGED <<tasks, owner, temp>>
    ELSE /\ Deliver(t, TRUE)
         /\ UNCHANGED decoder

Look(t) ==
    /\ At(t, "look")
    /\ IF work[t].blob \in cache
       THEN Return(t)
       ELSE /\ Goto(t, "map")
            /\ UNCHANGED <<decoder, tasks, owner, temp>>
    /\ UNCHANGED <<cache, inflater, zlock, ilock>>

\* Header and payload come from the map, which may be gone.
AfterMap == [raw |-> "check", frame |-> "check", dict |-> "zwait", deflate |-> "inflate"]

ReadMap(t) ==
    /\ At(t, "map")
    /\ IF mapped
       THEN /\ Goto(t, AfterMap[Codec[work[t].blob]])
            /\ UNCHANGED <<blobVars, tasks, owner, temp>>
       ELSE Raise(t)

ZEnterUnlocked(t) ==                    \* slip: the dictionary lock is forgotten
    /\ At(t, "zwait")
    /\ Goto(t, "zlook")
    /\ UNCHANGED <<blobVars, tasks, owner, temp>>

ZEnter(t) ==
    /\ At(t, "zwait") /\ zlock = None
    /\ zlock' = t
    /\ Goto(t, "zlook")
    /\ UNCHANGED <<cache, decoder, inflater, ilock, tasks, owner, temp>>

\* The dictionary is itself a blob, read under the lock the first time.
ZLook(t) ==
    /\ At(t, "zlook")
    /\ IF decoder
       THEN Goto(t, "decode")
       ELSE work' = [work EXCEPT ![t].pc = "look", ![t].outer = work[t].blob,
                                 ![t].blob = DictBlob]
    /\ UNCHANGED <<blobVars, tasks, owner, temp>>

ZDecode(t) ==
    /\ At(t, "decode")
    /\ IF decoder
       THEN /\ Goto(t, "native_dict")
            /\ UNCHANGED <<blobVars, tasks, owner, temp>>
       ELSE Raise(t)

\* With a decoder that was freed meanwhile, anything may come of it.
ZLeave(t) ==
    /\ At(t, "native_dict")
    /\ \/ /\ zlock' = None
          /\ Goto(t, "check")
          /\ UNCHANGED <<cache, decoder, inflater, ilock, tasks, owner, temp>>
       \/ ~decoder /\ Raise(t)

\* Without libdeflate's decoder zlib does it, with no lock.
Inflate(t) ==
    /\ At(t, "inflate")
    /\ Goto(t, IF inflater THEN "iwait" ELSE "check")
    /\ UNCHANGED <<blobVars, tasks, owner, temp>>

IEnter(t) ==
    /\ At(t, "iwait") /\ ilock = None
    /\ ilock' = t
    /\ Goto(t, "native_inflate")
    /\ UNCHANGED <<cache, decoder, inflater, zlock, tasks, owner, temp>>

ILeave(t) ==
    /\ At(t, "native_inflate")
    /\ \/ /\ ilock' = None
          /\ Goto(t, "check")
          /\ UNCHANGED <<cache, decoder, inflater, zlock, tasks, owner, temp>>
       \/ ~inflater /\ Raise(t)

\* Length and CRC decide; what is modest is cached.
Check(t) ==
    /\ At(t, "check")
    /\ IF work[t].blob \in damaged
       THEN Raise(t)
       ELSE /\ Return(t)
            /\ cache' = cache \cup ({work[t].blob} \cap Modest)
            /\ UNCHANGED <<inflater, zlock, ilock>>

Blob(t) ==
    /\ \/ Look(t) \/ ReadMap(t)
       \/ ZEnter(t) \/ ZLook(t) \/ ZDecode(t) \/ ZLeave(t)
       \/ Inflate(t) \/ IEnter(t) \/ ILeave(t)
       \/ Check(t)
    /\ UNCHANGED <<damaged, mapped, dest, ops>>

\* A thread of the pool takes the oldest task that still waits.
RunTask(t) ==
    /\ At(t, "idle")
    /\ \E i \in DOMAIN tasks :
          /\ tasks[i].state = "pending"
          /\ \A j \in 1..i - 1 : tasks[j].state # "pending"
          /\ tasks' = [tasks EXCEPT ![i].state = "running"]
          /\ work' = [work EXCEPT ![t] = Call(tasks[i].blob, i)]
    /\ UNCHANGED <<damaged, mapped, blobVars, ownVars>>

-----------------------------------------------------------------------------
(* The owner: read() and the extraction of chunked members.                *)

Wanted == Chunks[owner.member]
NextChunk == Len(owner.got) + 1
Busy == owner.op \in {"read", "extract"}

\* Long members go to the pool, which is made when first needed; chunks stored raw
\* are extracted straight from the map.
RawDirect(m) == \A i \in DOMAIN Chunks[m] : Codec[Chunks[m][i]] = "raw"
Pooled(op, m) == /\ Len(Chunks[m]) >= PoolFrom
                 /\ ~(op = "extract" /\ RawDirect(m))

Start(op, m) ==
    /\ owner.op = "none" /\ ops < MaxOps
    /\ ops' = ops + 1
    /\ owner' = [owner EXCEPT !.op = op, !.member = m, !.got = << >>,
                              !.first = Len(tasks) + 1, !.result = None]
    /\ tasks' = IF Pooled(op, m)
                THEN tasks \o [i \in DOMAIN Chunks[m] |->
                                 [blob |-> Chunks[m][i], state |-> "pending"]]
                ELSE tasks
    /\ temp' = (op = "extract")
    /\ UNCHANGED <<damaged, mapped, blobVars, work, dest>>

Future == owner.first + Len(owner.got)

\* The next future in the order of submission, whichever ends first.
TakeFirstDone ==                        \* slip: results in the order they come
    /\ Busy /\ Pooled(owner.op, owner.member) /\ NextChunk <= Len(Wanted)
    /\ \E i \in owner.first..Len(tasks) :
          /\ tasks[i].state = "done"
          /\ owner' = [owner EXCEPT !.got = Append(@, tasks[i].blob)]
    /\ UNCHANGED <<damaged, mapped, blobVars, work, tasks, temp, dest, ops>>

TakeUnawaited ==                        \* slip: a chunk is taken for done too early
    /\ Busy /\ Pooled(owner.op, owner.member) /\ NextChunk <= Len(Wanted)
    /\ owner' = [owner EXCEPT !.got = Append(@, tasks[Future].blob)]
    /\ UNCHANGED <<damaged, mapped, blobVars, work, tasks, temp, dest, ops>>

Take ==
    /\ Busy /\ Pooled(owner.op, owner.member) /\ NextChunk <= Len(Wanted)
    /\ \/ /\ tasks[Future].state = "done"
          /\ owner' = [owner EXCEPT !.got = Append(@, tasks[Future].blob)]
          /\ UNCHANGED <<tasks, temp>>
       \/ /\ tasks[Future].state = "failed"
          /\ Ended("raised")
          /\ tasks' = Cancelled(tasks, Future)
    /\ UNCHANGED <<damaged, mapped, blobVars, work, dest, ops>>

\* One after the other in this thread, or a view of the map.
CallBlob ==
    /\ Busy /\ ~Pooled(owner.op, owner.member) /\ NextChunk <= Len(Wanted)
    /\ At(Owner, "idle")
    /\ IF owner.op = "extract" /\ RawDirect(owner.member)
       THEN /\ owner' = [owner EXCEPT !.got = Append(@, Wanted[NextChunk])]
            /\ UNCHANGED work
       ELSE /\ work' = [work EXCEPT ![Owner] = Call(Wanted[NextChunk], 0)]
            /\ UNCHANGED owner
    /\ UNCHANGED <<damaged, mapped, blobVars, tasks, temp, dest, ops>>

\* Making the part file may fail, or writing a chunk.  The exception holds the frame and
\* with it the map's generator: its futures are not cancelled yet.
WriteFails ==
    /\ owner.op = "extract" /\ At(Owner, "idle")
    /\ Ended("unwritten")
    /\ UNCHANGED <<damaged, mapped, blobVars, work, tasks, dest, ops>>

\* They are when the exception has been handled.
Forget ==
    /\ owner.op = "none" /\ owner.result = "unwritten"
    /\ tasks' = Cancelled(tasks, owner.first)
    /\ tasks' # tasks
    /\ UNCHANGED <<damaged, mapped, blobVars, work, ownVars>>

\* Everything is there: the digest of the whole decides, and only then does the part
\* file take the destination's place.
FinishUnverified ==                     \* slip: the digest is not compared
    /\ Busy /\ Len(owner.got) = Len(Wanted) /\ At(Owner, "idle")
    /\ Ended("returned")
    /\ dest' = IF owner.op # "extract" THEN dest
               ELSE [dest EXCEPT ![owner.member] =
                       IF ToSet(owner.got) \cap damaged = {} THEN "whole" ELSE "wrong"]
    /\ UNCHANGED <<damaged, mapped, blobVars, work, tasks, ops>>

Finish ==
    /\ Busy /\ Len(owner.got) = Len(Wanted) /\ At(Owner, "idle")
    /\ IF owner.got = Wanted /\ ToSet(owner.got) \cap damaged = {}
       THEN /\ Ended("returned")
            /\ dest' = IF owner.op = "extract" THEN [dest EXCEPT ![owner.member] = "whole"]
                       ELSE dest
       ELSE /\ Ended("raised")
            /\ UNCHANGED dest
    /\ UNCHANGED <<damaged, mapped, blobVars, work, tasks, ops>>

-----------------------------------------------------------------------------
(* close(): the map, the decoders, then the pool; each without its lock.   *)

Close ==
    /\ owner.op = "none"
    /\ owner' = [owner EXCEPT !.op = "close_dict"]
    /\ mapped' = FALSE
    /\ UNCHANGED <<damaged, blobVars, work, tasks, temp, dest, ops>>

CloseDict ==
    /\ owner.op = "close_dict"
    /\ owner' = [owner EXCEPT !.op = "close_inflate"]
    /\ decoder' = FALSE
    /\ UNCHANGED <<damaged, mapped, cache, inflater, zlock, ilock, work, tasks,
                   temp, dest, ops>>

CloseInflate ==
    /\ owner.op = "close_inflate"
    /\ owner' = [owner EXCEPT !.op = "close_join"]
    /\ inflater' = FALSE
    /\ UNCHANGED <<damaged, mapped, cache, decoder, zlock, ilock, work, tasks,
                   temp, dest, ops>>

Over(task) == task.state \in {"done", "failed", "cancelled"}

CloseNoWait ==                          \* slip: shutdown(wait=False)
    /\ owner.op = "close_join"
    /\ owner' = [owner EXCEPT !.op = "closed"]
    /\ UNCHANGED <<damaged, mapped, blobVars, work, tasks, temp, dest, ops>>

\* shutdown(wait=True): tasks that wait are run, not dropped.
CloseJoin ==
    /\ owner.op = "close_join"
    /\ \A i \in DOMAIN tasks : Over(tasks[i])
    /\ owner' = [owner EXCEPT !.op = "closed"]
    /\ UNCHANGED <<damaged, mapped, blobVars, work, tasks, temp, dest, ops>>

OwnerStep == Take \/ CallBlob \/ Finish \/ CloseDict \/ CloseInflate \/ CloseJoin

Next == \/ \E t \in Threads : Blob(t)
        \/ \E t \in Workers : RunTask(t)
        \/ \E op \in {"read", "extract"}, m \in Members : Start(op, m)
        \/ WriteFails \/ Forget \/ Close
        \/ OwnerStep

\* Threads run; which member comes next, failures and closing are free.
Spec == /\ Init /\ [][Next]_vars
        /\ \A t \in Threads : WF_vars(Blob(t))
        /\ \A t \in Workers : WF_vars(RunTask(t))
        /\ WF_vars(OwnerStep)

-----------------------------------------------------------------------------
(* What must hold.                                                         *)

Places == {"idle", "look", "map", "zwait", "zlook", "decode", "native_dict",
           "inflate", "iwait", "native_inflate", "check"}

\* Variables keep their shape, a lock is held by a thread that is inside, and a part
\* file is on disk only while a member is extracted (reader.py:110-157, 323-359).
TypeOK ==
    /\ damaged \in SUBSET Blobs /\ cache \in SUBSET Modest
    /\ {mapped, decoder, inflater, temp} \subseteq BOOLEAN
    /\ \A t \in Threads :
          /\ work[t].pc \in Places
          /\ work[t].blob \in Blobs \cup {None} /\ work[t].outer \in Blobs \cup {None}
          /\ work[t].task \in 0..Len(tasks)
          /\ (zlock = t) <=> (work[t].outer # None
                                \/ work[t].pc \in {"zlook", "decode", "native_dict"})
          /\ (ilock = t) <=> (work[t].pc = "native_inflate")
    /\ \A i \in DOMAIN tasks :
          /\ tasks[i].blob \in Blobs
          /\ (tasks[i].state = "running") <=> \E t \in Workers : work[t].task = i
    /\ dest \in [Members -> {"old", "whole", "wrong"}]
    /\ temp <=> (owner.op = "extract")
    /\ ops \in 0..MaxOps

\* What a member is damaged by: its chunks, and the dictionary if one needs it.
Needs(m) == ToSet(Chunks[m])
              \cup (IF \E b \in ToSet(Chunks[m]) : Codec[b] = "dict" THEN {DictBlob} ELSE {})

\* However the tasks of this and of abandoned reads interleave, a read returns the
\* chunks of its member in order, and raises only for damage (reader.py:188-199, 317-359).
ReadsRight ==
    /\ owner.result = "returned" => owner.got = Wanted
    /\ owner.result = "raised" => Needs(owner.member) \cap damaged # {}

\* Callers take turns in the native decoders (native_codec.py:97, "callers serialize
\* access"; reader.py:115, 123).
OneAtATime ==
    \A t, u \in Threads : t # u =>
        ~\E pc \in {"native_dict", "native_inflate"} : At(t, pc) /\ At(u, pc)

\* A destination is replaced only by a member all of whose chunks, and the dictionary they
\* need, are undamaged (reader.py:305-306, "a damaged archive cannot truncate a
\* pre-existing destination").
DestinationWhole ==
    \A m \in Members : /\ dest[m] # "wrong"
                       /\ dest[m] = "whole" => Needs(m) \cap damaged = {}

\* Where every read went through, close() finds no thread in a decoder, which it frees
\* without its lock, and leaves none behind (reader.py:41-46).  After a failed read it
\* may find one: the condition is needed.
CleanClose ==
    ~owner.failed =>
        /\ \A t \in Threads : /\ At(t, "native_dict") => decoder
                              /\ At(t, "native_inflate") => inflater
                              /\ ~mapped => At(t, "idle")
        /\ owner.op = "closed" => ~decoder /\ ~inflater

\* close() comes back when nothing runs or waits any more (reader.py:45, wait=True).
CloseWaits ==
    owner.op = "closed" =>
        /\ \A i \in DOMAIN tasks : Over(tasks[i])
        /\ \A t \in Threads : At(t, "idle")
        /\ zlock = None /\ ilock = None

\* What the owner begins comes to an end, closing included: no lock and no future is
\* waited for for ever (reader.py:120-127, 195, 45).
Ends == (owner.op \notin {"none", "closed"}) ~> (owner.op \in {"none", "closed"})
=============================================================================
