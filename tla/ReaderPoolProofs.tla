------------------------- MODULE ReaderPoolProofs -------------------------
(***************************************************************************)
(* Proofs about ReaderPool for every archive, every number of threads and  *)
(* every set of damaged blobs: types, turns at the decoders, and nothing   *)
(* left running when close() returns.  Then what reads give: the member's  *)
(* bytes or an error for damage, whole destinations, and a quiet close()   *)
(* after reads that went through.                                          *)
(***************************************************************************)
EXTENDS ReaderPool, SequenceTheorems, TLAPS

-----------------------------------------------------------------------------
(* What is invariant under every step.                                     *)

States == {"pending", "running", "done", "failed", "cancelled"}
OpNames == {"none", "read", "extract", "close_dict", "close_inflate", "close_join", "closed"}
Results == {None, "returned", "raised", "unwritten"}

Works == [pc : Places, blob : Blobs \cup {None}, outer : Blobs \cup {None}, task : Nat]
Tasks == [blob : Blobs, state : States]
Owns == [op : OpNames, member : Members \cup {None}, got : Seq(Blobs), first : Nat,
         result : Results, failed : BOOLEAN]

Shape ==
    /\ damaged \in SUBSET Blobs /\ cache \in SUBSET Modest
    /\ {mapped, decoder, inflater, temp} \subseteq BOOLEAN
    /\ zlock \in Threads \cup {None} /\ ilock \in Threads \cup {None}
    /\ work \in [Threads -> Works]
    /\ tasks \in Seq(Tasks)
    /\ owner \in Owns
    /\ dest \in [Members -> {"old", "whole"}]
    /\ ops \in 0..MaxOps

\* A lock is held by exactly the thread inside; only the dictionary is read from
\* inside, and reading it asks for no lock.
InDict(t) == work[t].outer # None \/ work[t].pc \in {"zlook", "decode", "native_dict"}
Locked ==
    \A t \in Threads :
        /\ (zlock = t) <=> InDict(t)
        /\ (ilock = t) <=> (work[t].pc = "native_inflate")
        /\ work[t].outer # None => /\ work[t].blob = DictBlob
                                   /\ work[t].pc \in {"look", "map", "check"}

\* Threads of the pool and running tasks are in step.
Calls == /\ \A t \in Threads : IF work[t].pc = "idle" THEN work[t] = Idle ELSE work[t].blob \in Blobs
         /\ work[Owner].task = 0
Served == \A t \in Workers : work[t].pc # "idle" => /\ work[t].task \in DOMAIN tasks
                                                   /\ tasks[work[t].task].state = "running"
Apart == \A t, u \in Workers : t # u /\ work[t].pc # "idle" => work[t].task # work[u].task
Manned == \A i \in DOMAIN tasks : tasks[i].state = "running" => \E t \in Workers : work[t].task = i
Serving == Calls /\ Served /\ Apart /\ Manned

\* What the owner may rely on while it reads or extracts, and once it has closed.
Owning ==
    /\ Busy => owner.member \in Members
    /\ work[Owner].pc # "idle" => Busy /\ ~Pooled(owner.op, owner.member)
    /\ Busy /\ Pooled(owner.op, owner.member) =>
          /\ owner.first # 0
          /\ owner.first + Len(Wanted) <= Len(tasks) + 1
    /\ temp <=> (owner.op = "extract")
    /\ owner.op = "closed" => \A i \in DOMAIN tasks : Over(tasks[i])

PoolInv == Shape /\ Locked /\ Serving /\ Owning

-----------------------------------------------------------------------------
LEMMA InitPool == Init => PoolInv
<1> SUFFICES ASSUME Init PROVE PoolInv
  OBVIOUS
<1> USE PoolAssumption DEF Init
<1>1. Shape
  <2>1. Idle \in Works
    BY DEF Idle, Works, Places
  <2>2. owner \in Owns
    BY DEF Owns, OpNames, Results
  <2>3. work \in [Threads -> Works]
    BY <2>1
  <2>4. tasks \in Seq(Tasks) /\ dest \in [Members -> {"old", "whole"}] /\ ops \in 0..MaxOps
    OBVIOUS
  <2>5. /\ damaged \in SUBSET Blobs /\ cache \in SUBSET Modest
        /\ {mapped, decoder, inflater, temp} \subseteq BOOLEAN
        /\ zlock = None /\ ilock = None
    OBVIOUS
  <2> QED BY <2>2, <2>3, <2>4, <2>5 DEF Shape
<1>2. Locked
  BY DEF Locked, InDict, Idle, Threads
<1>3. Serving
  BY DEF Serving, Calls, Served, Apart, Manned, Idle, Threads
<1>4. Owning
  BY DEF Owning, Busy, Idle, Threads
<1> QED BY <1>1, <1>2, <1>3, <1>4 DEF PoolInv

-----------------------------------------------------------------------------
(* Steps inside _blob.                                                     *)

\* Moving on inside a call disturbs neither tasks nor the owner.
LEMMA MoveKeeps ==
    ASSUME PoolInv, NEW t \in Threads, NEW w \in Works,
           w.pc # "idle", w.task = work[t].task, w.blob \in Blobs,
           work[t].pc # "idle", work' = [work EXCEPT ![t] = w], UNCHANGED <<tasks, owner, temp>>
    PROVE  /\ work' \in [Threads -> Works]
           /\ Serving' /\ Owning'
           /\ work'[t] = w
           /\ \A u \in Threads : u # t => work'[u] = work[u]
<1> USE PoolAssumption
<1>0. PoolInv /\ work \in [Threads -> Works]
  BY DEF PoolInv, Shape
<1>1. work'[t] = w /\ \A u \in Threads : u # t => work'[u] = work[u]
  BY <1>0
<1>2. work' \in [Threads -> Works]
  BY <1>0
<1>3. Serving'
  <2>1. \A u \in Threads : work'[u].task = work[u].task
    BY <1>0, <1>1
  <2>2. \A u \in Threads : work'[u].pc = "idle" <=> work[u].pc = "idle"
    BY <1>0, <1>1
  <2>3. Calls'
    BY <1>0, <1>1, <2>1, <2>2 DEF PoolInv, Serving, Calls, Threads
  <2>4. Served' /\ Apart' /\ Manned'
    BY <1>0, <2>1, <2>2 DEF PoolInv, Serving, Served, Apart, Manned, Threads
  <2> QED BY <2>3, <2>4 DEF Serving
<1>4. Owning'
  <2>1. work[Owner].pc = "idle" => work'[Owner].pc = "idle"
    BY <1>0, <1>1 DEF Threads
  <2> QED BY <1>0, <2>1 DEF PoolInv, Owning, Busy, Wanted, Threads
<1> QED BY <1>1, <1>2, <1>3, <1>4

LEMMA GotoKeeps ==
    ASSUME PoolInv, NEW t \in Threads, NEW pc \in Places \ {"idle"},
           work[t].pc # "idle", Goto(t, pc), UNCHANGED <<tasks, owner, temp>>
    PROVE  /\ work' \in [Threads -> Works]
           /\ Serving' /\ Owning'
           /\ work'[t].pc = pc /\ work'[t].blob = work[t].blob
           /\ work'[t].outer = work[t].outer
           /\ \A u \in Threads : u # t => work'[u] = work[u]
<1> DEFINE w == [work[t] EXCEPT !.pc = pc]
<1>1. work \in [Threads -> Works] /\ work[t] \in Works /\ work[t].blob \in Blobs
  BY DEF PoolInv, Shape, Serving, Calls
<1>2. /\ w \in Works /\ w.pc = pc /\ w.task = work[t].task
      /\ w.blob = work[t].blob /\ w.outer = work[t].outer
  BY <1>1 DEF Works
<1>3. work' = [work EXCEPT ![t] = w]
  BY DEF Goto
<1> HIDE DEF w
<1> QED BY <1>1, <1>2, <1>3, MoveKeeps

\* The end of a call, whatever thread it ends in.
LEMMA DeliverKeeps ==
    ASSUME PoolInv, NEW t \in Threads, NEW ok \in BOOLEAN,
           work[t].pc # "idle", Deliver(t, ok)
    PROVE  /\ work' \in [Threads -> Works] /\ tasks' \in Seq(Tasks)
           /\ owner' \in Owns /\ temp' \in BOOLEAN
           /\ Serving' /\ Owning'
           /\ work'[t] = Idle
           /\ \A u \in Threads : u # t => work'[u] = work[u]
<1> USE PoolAssumption
<1>a. /\ Serving /\ Owning
      /\ work \in [Threads -> Works] /\ tasks \in Seq(Tasks)
      /\ owner \in Owns /\ temp \in BOOLEAN
  BY DEF PoolInv, Shape
<1> HIDE DEF PoolInv
<1>0. Idle \in Works /\ Idle.pc = "idle" /\ Idle.task = 0 /\ Idle.outer = None
  BY DEF Idle, Works, Places
<1>1. work'[t] = Idle /\ \A u \in Threads : u # t => work'[u] = work[u]
  BY <1>a DEF Deliver
<1>2. work' \in [Threads -> Works]
  BY <1>a, <1>0 DEF Deliver
<1>3. CASE t \in Workers
  <2> DEFINE i == work[t].task
             s == IF ok THEN "done" ELSE "failed"
  <2>1. i \in DOMAIN tasks /\ tasks[i].state = "running" /\ tasks[i] \in Tasks
    <3>1. i \in DOMAIN tasks /\ tasks[i].state = "running"
      BY <1>a, <1>3 DEF Serving, Served
    <3> HIDE DEF i
    <3> QED BY <1>a, <3>1
  <2>2. /\ tasks' = [tasks EXCEPT ![i] = [tasks[i] EXCEPT !.state = s]]
        /\ UNCHANGED <<owner, temp>>
    BY <1>3 DEF Deliver
  <2> HIDE DEF i, s
  <2>s. s \in States /\ s # "running"
    BY DEF s, States
  <2>3. /\ Len(tasks') = Len(tasks) /\ DOMAIN tasks' = DOMAIN tasks
        /\ tasks'[i].state = s
        /\ \A j \in DOMAIN tasks : j # i => tasks'[j] = tasks[j]
    BY <1>a, <2>1, <2>2 DEF Tasks
  <2>4. [tasks[i] EXCEPT !.state = s] \in Tasks
    BY <2>1, <2>s DEF Tasks
  <2>5. tasks' \in Seq(Tasks)
    BY <1>a, <2>1, <2>2, <2>4
  <2>6. t # Owner
    BY <1>3
  <2>7. Serving'
    <3>1. \A u \in Workers : u # t => work[u].task # i
      BY <1>a, <1>3 DEF Serving, Apart, i
    <3>2. Calls'
      BY <1>a, <1>0, <1>1, <2>6 DEF Serving, Calls, Threads
    <3>3. Served'
      <4>1. ASSUME NEW u \in Workers, work'[u].pc # "idle"
            PROVE  work'[u].task \in DOMAIN tasks' /\ tasks'[work'[u].task].state = "running"
        <5>1. u # t /\ work'[u] = work[u]
          BY <4>1, <1>0, <1>1 DEF Threads
        <5>2. work[u].task \in DOMAIN tasks /\ tasks[work[u].task].state = "running"
          BY <4>1, <5>1, <1>a DEF Serving, Served
        <5> QED BY <5>1, <5>2, <3>1, <2>3
      <4> QED BY <4>1 DEF Served
    <3>a. Apart'
      <4>1. \A j \in DOMAIN tasks : j # 0
        BY <1>a
      <4>2. ASSUME NEW u \in Workers, NEW v \in Workers, u # v, work'[u].pc # "idle"
            PROVE  work'[u].task # work'[v].task
        <5>1. u # t /\ work'[u] = work[u]
          BY <4>2, <1>0, <1>1 DEF Threads
        <5>2. work[u].task \in DOMAIN tasks /\ work[u].task # work[v].task
          BY <4>2, <5>1, <1>a DEF Serving, Served, Apart
        <5>3. work'[v] = IF v = t THEN Idle ELSE work[v]
          BY <1>1 DEF Threads
        <5> QED BY <4>1, <5>1, <5>2, <5>3, <1>0
      <4> QED BY <4>2 DEF Apart
    <3>4. ASSUME NEW j \in DOMAIN tasks', tasks'[j].state = "running"
          PROVE  \E u \in Workers : work'[u].task = j
      <4>1. j \in DOMAIN tasks /\ j # i /\ tasks[j].state = "running"
        BY <2>3, <2>s, <3>4
      <4>2. PICK u \in Workers : work[u].task = j
        BY <4>1, <1>a DEF Serving, Manned
      <4>3. u # t
        BY <4>1, <4>2 DEF i
      <4> QED BY <4>2, <4>3, <1>1 DEF Threads
    <3>5. Manned'
      BY <3>4 DEF Manned
    <3> QED BY <3>2, <3>3, <3>a, <3>5 DEF Serving
  <2>8. Owning'
    <3>1. owner.op = "closed" => \A j \in DOMAIN tasks' : Over(tasks'[j])
      BY <1>a, <2>1, <2>3 DEF Owning, Over
    <3> QED BY <1>a, <3>1, <1>1, <2>2, <2>3, <2>6 DEF Owning, Busy, Wanted, Threads
  <2> QED BY <1>a, <1>1, <1>2, <2>2, <2>5, <2>7, <2>8
<1>4. CASE t = Owner
  <2>1. Busy /\ ~Pooled(owner.op, owner.member) /\ work[t].blob \in Blobs
    BY <1>a, <1>4 DEF Owning, Serving, Calls, Threads
  <2>2. UNCHANGED tasks
    BY <1>4 DEF Deliver
  <2>3. Serving'
    <3>1. Calls'
      BY <1>a, <1>0, <1>1, <1>4 DEF Serving, Calls, Threads
    <3>2. \A u \in Workers : u # t /\ work'[u] = work[u]
      BY <1>1, <1>4 DEF Threads
    <3>3. \A u \in Workers : work'[u].pc = work[u].pc /\ work'[u].task = work[u].task
      BY <3>2
    <3>4. Served'
      BY <1>a, <2>2, <3>3 DEF Serving, Served
    <3>5. Apart'
      BY <1>a, <3>3 DEF Serving, Apart
    <3>6. Manned'
      BY <1>a, <2>2, <3>3 DEF Serving, Manned
    <3> QED BY <3>1, <3>4, <3>5, <3>6 DEF Serving
  <2>4. CASE ok
    <3>1. /\ owner' = [owner EXCEPT !.got = Append(@, work[t].blob)]
          /\ UNCHANGED temp
      BY <1>4, <2>4 DEF Deliver
    <3>2. owner' \in Owns
      <4>1. Append(owner.got, work[t].blob) \in Seq(Blobs)
        BY <1>a, <2>1 DEF Owns
      <4> QED BY <1>a, <3>1, <4>1 DEF Owns
    <3>3. Owning'
      BY <1>a, <1>0, <1>1, <1>4, <2>1, <2>2, <3>1 DEF Owning, Busy, Wanted, Owns
    <3> QED BY <1>a, <1>1, <1>2, <2>2, <2>3, <3>1, <3>2, <3>3
  <2>5. CASE ~ok
    <3>1. Ended("raised")
      BY <1>4, <2>5 DEF Deliver
    <3>2. /\ owner' \in Owns /\ owner'.op = "none" /\ temp' = FALSE
      BY <1>a, <3>1 DEF Ended, Owns, OpNames, Results
    <3>3. Owning'
      BY <1>0, <1>1, <1>4, <3>2 DEF Owning, Busy
    <3> QED BY <1>a, <1>1, <1>2, <2>2, <2>3, <3>2, <3>3
  <2> QED BY <2>4, <2>5
<1> QED BY <1>3, <1>4 DEF Threads

LEMMA RaiseKeeps ==
    ASSUME PoolInv, NEW t \in Threads, work[t].pc # "idle", Raise(t),
           UNCHANGED <<damaged, mapped, dest, ops>>
    PROVE  PoolInv'
<1> USE PoolAssumption
<1>1. Deliver(t, FALSE) /\ UNCHANGED <<cache, decoder, inflater>>
  BY DEF Raise
<1>2. /\ work' \in [Threads -> Works] /\ tasks' \in Seq(Tasks)
      /\ owner' \in Owns /\ temp' \in BOOLEAN
      /\ Serving' /\ Owning'
      /\ work'[t] = Idle
      /\ \A u \in Threads : u # t => work'[u] = work[u]
  BY <1>1, DeliverKeeps
<1>3. Shape'
  BY <1>1, <1>2 DEF PoolInv, Shape, Raise
<1>4. Locked'
  BY <1>2 DEF PoolInv, Locked, InDict, Raise, Idle
<1> QED BY <1>2, <1>3, <1>4 DEF PoolInv

LEMMA ReturnKeeps ==
    ASSUME PoolInv, NEW t \in Threads, work[t].pc \in {"look", "check"}, Return(t),
           UNCHANGED <<damaged, mapped, dest, ops, inflater, zlock, ilock>>,
           cache' \in SUBSET Modest
    PROVE  PoolInv'
<1> USE PoolAssumption
<1>0. /\ PoolInv /\ work \in [Threads -> Works] /\ work[t] \in Works
      /\ Shape /\ Locked
  BY DEF PoolInv, Shape
<1>1. CASE work[t].outer # None
  <2> DEFINE w == [work[t] EXCEPT !.pc = "decode", !.blob = work[t].outer, !.outer = None]
  <2>1. /\ w \in Works /\ w.pc = "decode" /\ w.task = work[t].task
        /\ w.blob \in Blobs /\ w.outer = None
    BY <1>0, <1>1 DEF Works, Places
  <2>2. /\ work' = [work EXCEPT ![t] = w]
        /\ decoder' = TRUE /\ UNCHANGED <<tasks, owner, temp>>
    BY <1>1 DEF Return
  <2> HIDE DEF w
  <2>3. /\ work' \in [Threads -> Works]
        /\ Serving' /\ Owning'
        /\ work'[t] = w
        /\ \A u \in Threads : u # t => work'[u] = work[u]
    BY <1>0, <2>1, <2>2, MoveKeeps
  <2>4. Shape'
    BY <1>0, <2>2, <2>3 DEF Shape
  <2>5. Locked'
    BY <1>0, <1>1, <2>1, <2>3 DEF Locked, InDict
  <2> QED BY <2>3, <2>4, <2>5 DEF PoolInv
<1>2. CASE work[t].outer = None
  <2>1. Deliver(t, TRUE) /\ UNCHANGED decoder
    BY <1>2 DEF Return
  <2>2. /\ work' \in [Threads -> Works] /\ tasks' \in Seq(Tasks)
        /\ owner' \in Owns /\ temp' \in BOOLEAN
        /\ Serving' /\ Owning'
        /\ work'[t] = Idle
        /\ \A u \in Threads : u # t => work'[u] = work[u]
    BY <2>1, DeliverKeeps
  <2>3. Shape'
    BY <1>0, <2>1, <2>2 DEF Shape
  <2>4. Locked'
    BY <1>0, <1>2, <2>2 DEF Locked, InDict, Idle
  <2> QED BY <2>2, <2>3, <2>4 DEF PoolInv
<1> QED BY <1>1, <1>2

\* Every step of _blob, at any of its places.
LEMMA BlobKeeps ==
    ASSUME PoolInv, NEW t \in Threads, Blob(t)
    PROVE  PoolInv'
<1> USE PoolAssumption
<1>0. /\ PoolInv /\ Shape /\ Locked /\ Serving
      /\ work \in [Threads -> Works]
      /\ UNCHANGED <<damaged, mapped, dest, ops>>
  BY DEF PoolInv, Shape, Blob
<1> DEFINE Moves(pc) == /\ work' \in [Threads -> Works]
                        /\ Serving' /\ Owning'
                        /\ work'[t].pc = pc /\ work'[t].blob = work[t].blob
                        /\ work'[t].outer = work[t].outer
                        /\ \A u \in Threads : u # t => work'[u] = work[u]
<1>1. CASE Look(t)
  <2>1. CASE work[t].blob \in cache
    BY <1>0, <1>1, <2>1, ReturnKeeps DEF Look, At, Shape
  <2>2. CASE work[t].blob \notin cache
    <3>1. Goto(t, "map") /\ UNCHANGED <<tasks, owner, temp, blobVars>>
      BY <1>1, <2>2 DEF Look, blobVars
    <3>2. Moves("map")
      BY <1>0, <1>1, <3>1, GotoKeeps DEF Look, At, Places
    <3>3. Shape' /\ Locked'
      BY <1>0, <1>1, <3>1, <3>2 DEF Shape, Locked, InDict, Look, At, blobVars
    <3> QED BY <3>2, <3>3 DEF PoolInv
  <2> QED BY <2>1, <2>2
<1>2. CASE ReadMap(t)
  <2>1. CASE mapped
    <3> DEFINE pc == AfterMap[Codec[work[t].blob]]
    <3>1. Goto(t, pc) /\ UNCHANGED <<tasks, owner, temp, blobVars>>
      BY <1>2, <2>1 DEF ReadMap
    <3>2. work[t].blob \in Blobs /\ work[t].pc = "map"
      BY <1>0, <1>2 DEF Serving, Calls, ReadMap, At
    <3>3. pc \in {"check", "zwait", "inflate"}
      BY <3>2 DEF AfterMap
    <3>4. work[t].blob = DictBlob => pc = "check"
      BY DEF AfterMap
    <3> HIDE DEF pc
    <3>5. Moves(pc)
      BY <1>0, <3>1, <3>2, <3>3, GotoKeeps DEF Places
    <3>6. Shape'
      BY <1>0, <3>1, <3>5 DEF Shape, blobVars
    <3>7. Locked'
      BY <1>0, <3>1, <3>2, <3>3, <3>4, <3>5 DEF Locked, InDict, blobVars
    <3> QED BY <3>5, <3>6, <3>7 DEF PoolInv
  <2>2. CASE ~mapped
    BY <1>0, <1>2, <2>2, RaiseKeeps DEF ReadMap, At
  <2> QED BY <2>1, <2>2
<1>3. CASE ZEnter(t)
  <2>1. Moves("zlook") /\ work[t].pc = "zwait"
    BY <1>0, <1>3, GotoKeeps DEF ZEnter, At, Places
  <2>2. zlock = None /\ zlock' = t /\ UNCHANGED <<cache, decoder, inflater, ilock, tasks, owner, temp>>
    BY <1>3 DEF ZEnter
  <2>3. Shape'
    BY <1>0, <2>1, <2>2 DEF Shape
  <2>4. Locked'
    BY <1>0, <2>1, <2>2 DEF Locked, InDict
  <2> QED BY <2>1, <2>3, <2>4 DEF PoolInv
<1>4. CASE ZLook(t)
  <2>0. work[t].pc = "zlook" /\ UNCHANGED <<blobVars, tasks, owner, temp>>
    BY <1>4 DEF ZLook, At
  <2>1. CASE decoder
    <3>1. Moves("decode")
      BY <1>0, <1>4, <2>0, <2>1, GotoKeeps DEF ZLook, Places
    <3>2. Shape' /\ Locked'
      BY <1>0, <2>0, <3>1 DEF Shape, Locked, InDict, blobVars
    <3> QED BY <3>1, <3>2 DEF PoolInv
  <2>2. CASE ~decoder
    <3> DEFINE w == [work[t] EXCEPT !.pc = "look", !.outer = work[t].blob, !.blob = DictBlob]
    <3>1. work[t] \in Works /\ work[t].blob \in Blobs
      BY <1>0, <2>0 DEF Serving, Calls
    <3>2. /\ w \in Works /\ w.pc = "look" /\ w.task = work[t].task
          /\ w.blob = DictBlob /\ w.outer = work[t].blob
      BY <3>1 DEF Works, Places
    <3>3. work' = [work EXCEPT ![t] = w]
      BY <1>4, <2>2 DEF ZLook
    <3> HIDE DEF w
    <3>4. /\ work' \in [Threads -> Works]
          /\ Serving' /\ Owning'
          /\ work'[t] = w
          /\ \A u \in Threads : u # t => work'[u] = work[u]
      BY <1>0, <2>0, <3>2, <3>3, MoveKeeps
    <3>5. Shape'
      BY <1>0, <2>0, <3>4 DEF Shape, blobVars
    <3>6. Locked'
      BY <1>0, <2>0, <3>1, <3>2, <3>4 DEF Locked, InDict, blobVars
    <3> QED BY <3>4, <3>5, <3>6 DEF PoolInv
  <2> QED BY <2>1, <2>2
<1>5. CASE ZDecode(t)
  <2>0. work[t].pc = "decode"
    BY <1>5 DEF ZDecode, At
  <2>1. CASE decoder
    <3>1. Goto(t, "native_dict") /\ UNCHANGED <<blobVars, tasks, owner, temp>>
      BY <1>5, <2>1 DEF ZDecode
    <3>2. Moves("native_dict")
      BY <1>0, <2>0, <3>1, GotoKeeps DEF Places
    <3>3. Shape'
      BY <1>0, <3>1, <3>2 DEF Shape, blobVars
    <3>4. Locked'
      BY <1>0, <2>0, <3>1, <3>2 DEF Locked, InDict, blobVars
    <3> QED BY <3>2, <3>3, <3>4 DEF PoolInv
  <2>2. CASE ~decoder
    BY <1>0, <1>5, <2>0, <2>2, RaiseKeeps DEF ZDecode
  <2> QED BY <2>1, <2>2
<1>6. CASE ZLeave(t)
  <2>0. work[t].pc = "native_dict"
    BY <1>6 DEF ZLeave, At
  <2>1. CASE ~decoder /\ Raise(t)
    BY <1>0, <2>0, <2>1, RaiseKeeps
  <2>2. CASE /\ zlock' = None /\ Goto(t, "check")
             /\ UNCHANGED <<cache, decoder, inflater, ilock, tasks, owner, temp>>
    <3>1. Moves("check")
      BY <1>0, <2>0, <2>2, GotoKeeps DEF Places
    <3>2. Shape'
      BY <1>0, <2>2, <3>1 DEF Shape
    <3>3. Locked'
      BY <1>0, <2>0, <2>2, <3>1 DEF Locked, InDict
    <3> QED BY <3>1, <3>2, <3>3 DEF PoolInv
  <2> QED BY <1>6, <2>1, <2>2 DEF ZLeave
<1>7. CASE Inflate(t)
  <2> DEFINE pc == IF inflater THEN "iwait" ELSE "check"
  <2>1. /\ work[t].pc = "inflate" /\ Goto(t, pc)
        /\ UNCHANGED <<blobVars, tasks, owner, temp>>
    BY <1>7 DEF Inflate, At
  <2>2. pc \in {"iwait", "check"}
    OBVIOUS
  <2> HIDE DEF pc
  <2>3. Moves(pc)
    BY <1>0, <2>1, <2>2, GotoKeeps DEF Places
  <2>4. Shape'
    BY <1>0, <2>1, <2>3 DEF Shape, blobVars
  <2>5. Locked'
    BY <1>0, <2>1, <2>2, <2>3 DEF Locked, InDict, blobVars
  <2> QED BY <2>3, <2>4, <2>5 DEF PoolInv
<1>8. CASE IEnter(t)
  <2>1. Moves("native_inflate") /\ work[t].pc = "iwait"
    BY <1>0, <1>8, GotoKeeps DEF IEnter, At, Places
  <2>2. ilock = None /\ ilock' = t /\ UNCHANGED <<cache, decoder, inflater, zlock, tasks, owner, temp>>
    BY <1>8 DEF IEnter
  <2>3. Shape'
    BY <1>0, <2>1, <2>2 DEF Shape
  <2>4. Locked'
    BY <1>0, <2>1, <2>2 DEF Locked, InDict
  <2> QED BY <2>1, <2>3, <2>4 DEF PoolInv
<1>9. CASE ILeave(t)
  <2>0. work[t].pc = "native_inflate"
    BY <1>9 DEF ILeave, At
  <2>1. CASE ~inflater /\ Raise(t)
    BY <1>0, <2>0, <2>1, RaiseKeeps
  <2>2. CASE /\ ilock' = None /\ Goto(t, "check")
             /\ UNCHANGED <<cache, decoder, inflater, zlock, tasks, owner, temp>>
    <3>1. Moves("check")
      BY <1>0, <2>0, <2>2, GotoKeeps DEF Places
    <3>2. Shape'
      BY <1>0, <2>2, <3>1 DEF Shape
    <3>3. Locked'
      BY <1>0, <2>0, <2>2, <3>1 DEF Locked, InDict
    <3> QED BY <3>1, <3>2, <3>3 DEF PoolInv
  <2> QED BY <1>9, <2>1, <2>2 DEF ILeave
<1>10. CASE Check(t)
  <2>0. work[t].pc = "check"
    BY <1>10 DEF Check, At
  <2>1. CASE work[t].blob \in damaged
    BY <1>0, <1>10, <2>0, <2>1, RaiseKeeps DEF Check
  <2>2. CASE work[t].blob \notin damaged
    <3>1. /\ Return(t) /\ UNCHANGED <<inflater, zlock, ilock>>
          /\ cache' \in SUBSET Modest
      BY <1>0, <1>10, <2>2 DEF Check, Shape
    <3> QED BY <1>0, <2>0, <3>1, ReturnKeeps
  <2> QED BY <2>1, <2>2
<1> QED BY <1>1, <1>2, <1>3, <1>4, <1>5, <1>6, <1>7, <1>8, <1>9, <1>10 DEF Blob

-----------------------------------------------------------------------------
(* The pool and the owner.                                                 *)

LEMMA RunTaskKeeps ==
    ASSUME PoolInv, NEW t \in Workers, RunTask(t)
    PROVE  PoolInv'
<1> USE PoolAssumption
<1>0. /\ PoolInv /\ Shape /\ Locked /\ Serving /\ Owning
      /\ work \in [Threads -> Works] /\ tasks \in Seq(Tasks) /\ t \in Threads /\ t # Owner
  BY DEF PoolInv, Shape, Threads
<1>1. PICK i \in DOMAIN tasks :
        /\ tasks[i].state = "pending"
        /\ tasks' = [tasks EXCEPT ![i].state = "running"]
        /\ work' = [work EXCEPT ![t] = Call(tasks[i].blob, i)]
  BY DEF RunTask
<1>2. /\ UNCHANGED <<damaged, mapped, cache, decoder, inflater, zlock, ilock, owner, temp, dest, ops>>
      /\ work[t].pc = "idle"
  BY DEF RunTask, At, blobVars, ownVars
<1> DEFINE w == Call(tasks[i].blob, i)
           k == [tasks[i] EXCEPT !.state = "running"]
<1>3. tasks[i] \in Tasks /\ i \in Nat \ {0}
  BY <1>0
<1>4. /\ w \in Works /\ w.pc = "look" /\ w.blob \in Blobs /\ w.outer = None /\ w.task = i
  BY <1>3 DEF Call, Works, Places, Tasks
<1>5. k \in Tasks /\ k.state = "running"
  BY <1>3 DEF Tasks, States
<1>6. tasks' = [tasks EXCEPT ![i] = k] /\ work' = [work EXCEPT ![t] = w]
  BY <1>1
<1> HIDE DEF w, k
<1>7. /\ tasks' \in Seq(Tasks) /\ DOMAIN tasks' = DOMAIN tasks /\ Len(tasks') = Len(tasks)
      /\ tasks'[i] = k /\ \A j \in DOMAIN tasks : j # i => tasks'[j] = tasks[j]
  BY <1>0, <1>5, <1>6
<1>8. work' \in [Threads -> Works] /\ work'[t] = w /\ \A u \in Threads : u # t => work'[u] = work[u]
  BY <1>0, <1>4, <1>6
<1>9. \A u \in Workers : u # t => work[u].task # i
  <2> SUFFICES ASSUME NEW u \in Workers, u # t, work[u].task = i PROVE FALSE
    OBVIOUS
  <2>1. work[u].pc # "idle"
    BY <1>0, <1>3 DEF Serving, Calls, Idle, Threads
  <2> QED BY <1>0, <1>1, <2>1 DEF Serving, Served
<1>10. Serving'
  <2>1. Calls'
    BY <1>0, <1>4, <1>8 DEF Serving, Calls, Threads
  <2>2. Served'
    <3>1. ASSUME NEW u \in Workers, u # t, work'[u].pc # "idle"
          PROVE  work'[u].task \in DOMAIN tasks' /\ tasks'[work'[u].task].state = "running"
      <4>1. work'[u] = work[u] /\ work[u].task # i
        BY <1>8, <1>9, <3>1 DEF Threads
      <4>2. work[u].task \in DOMAIN tasks /\ tasks[work[u].task].state = "running"
        BY <1>0, <3>1, <4>1 DEF Serving, Served
      <4> QED BY <1>7, <4>1, <4>2
    <3> QED BY <1>4, <1>5, <1>7, <1>8, <3>1 DEF Served
  <2>3. Apart'
    <3>1. ASSUME NEW u \in Workers, NEW v \in Workers, u # v, work'[u].pc # "idle"
          PROVE  work'[u].task # work'[v].task
      <4>1. \A x \in Workers : work'[x] = IF x = t THEN w ELSE work[x]
        BY <1>8 DEF Threads
      <4>2. u # t => work[u].task # work[v].task
        BY <1>0, <3>1, <4>1 DEF Serving, Apart
      <4> QED BY <1>4, <1>9, <3>1, <4>1, <4>2
    <3> QED BY <3>1 DEF Apart
  <2>4. Manned'
    <3>1. ASSUME NEW j \in DOMAIN tasks, j # i, tasks'[j].state = "running"
          PROVE  \E u \in Workers : work'[u].task = j
      <4>1. tasks[j].state = "running"
        BY <1>7, <3>1
      <4>2. PICK u \in Workers : work[u].task = j
        BY <1>0, <4>1 DEF Serving, Manned
      <4>3. j # 0
        BY <1>0
      <4>4. u # t
        BY <1>0, <1>2, <4>2, <4>3 DEF Serving, Calls, Idle
      <4> QED BY <1>8, <4>2, <4>4 DEF Threads
    <3> QED BY <1>4, <1>7, <1>8, <3>1 DEF Manned
  <2> QED BY <2>1, <2>2, <2>3, <2>4 DEF Serving
<1>11. Owning'
  <2>1. work'[Owner] = work[Owner]
    BY <1>0, <1>8 DEF Threads
  <2>2. owner.op # "closed"
    BY <1>0, <1>1 DEF Owning, Over
  <2> QED BY <1>0, <1>2, <1>7, <2>1, <2>2 DEF Owning, Busy, Wanted
<1>12. Shape'
  BY <1>0, <1>2, <1>7, <1>8 DEF Shape
<1>13. Locked'
  <2>1. work[t] = Idle
    BY <1>0, <1>2 DEF Serving, Calls
  <2>2. ~InDict(t) /\ ~InDict(t)'
    BY <1>4, <1>8, <2>1 DEF InDict, Idle
  <2> QED BY <1>0, <1>2, <1>4, <1>8, <2>1, <2>2 DEF Locked, InDict, Idle
<1> QED BY <1>10, <1>11, <1>12, <1>13 DEF PoolInv

\* Where no call moves, locks stay as they are; where no task changes, tasks do.
LEMMA StillKeeps ==
    ASSUME PoolInv, UNCHANGED <<work, zlock, ilock>>
    PROVE  Locked' /\ (UNCHANGED tasks => Serving')
BY DEF PoolInv, Locked, InDict, Serving, Calls, Served, Apart, Manned

\* Cancelling leaves running tasks and finished ones alone.
LEMMA CancelKeeps ==
    ASSUME PoolInv, NEW n \in Nat, tasks' = Cancelled(tasks, n), UNCHANGED work
    PROVE  /\ tasks' \in Seq(Tasks) /\ Len(tasks') = Len(tasks) /\ Serving'
           /\ \A i \in DOMAIN tasks : Over(tasks[i]) => tasks'[i] = tasks[i]
<1>0. Serving /\ tasks \in Seq(Tasks)
  BY DEF PoolInv, Shape
<1>1. \A i \in DOMAIN tasks : [tasks[i] EXCEPT !.state = "cancelled"] \in Tasks
  <2> TAKE i \in DOMAIN tasks
  <2>1. tasks[i] \in Tasks
    BY <1>0
  <2> QED BY <2>1 DEF Tasks, States
<1>2. /\ tasks' \in Seq(Tasks) /\ Len(tasks') = Len(tasks) /\ DOMAIN tasks' = DOMAIN tasks
  BY <1>0, <1>1 DEF Cancelled
<1>3. \A i \in DOMAIN tasks : /\ tasks[i].state # "pending" => tasks'[i] = tasks[i]
                              /\ tasks'[i].state = "running" => tasks[i].state = "running"
  <2> TAKE i \in DOMAIN tasks
  <2>1. tasks[i] \in Tasks
    BY <1>0
  <2> QED BY <2>1 DEF Cancelled, Tasks
<1>4. Calls' /\ Apart'
  BY <1>0 DEF Serving, Calls, Apart
<1>5. Served'
  BY <1>0, <1>2, <1>3 DEF Serving, Served
<1>6. Manned'
  BY <1>0, <1>2, <1>3 DEF Serving, Manned
<1> QED BY <1>2, <1>3, <1>4, <1>5, <1>6 DEF Serving, Over

LEMMA StartKeeps ==
    ASSUME PoolInv, NEW op \in {"read", "extract"}, NEW m \in Members, Start(op, m)
    PROVE  PoolInv'
<1> USE PoolAssumption
<1>0. /\ PoolInv /\ Shape /\ Serving /\ Owning
      /\ tasks \in Seq(Tasks) /\ owner \in Owns /\ Chunks[m] \in Seq(Blobs)
  BY DEF PoolInv, Shape
<1>1. /\ owner.op = "none" /\ ops < MaxOps /\ ops' = ops + 1
      /\ owner' = [owner EXCEPT !.op = op, !.member = m, !.got = << >>,
                                !.first = Len(tasks) + 1, !.result = None]
      /\ temp' = (op = "extract")
      /\ UNCHANGED <<damaged, mapped, cache, decoder, inflater, zlock, ilock, work, dest>>
  BY DEF Start, blobVars
<1>2. /\ owner' \in Owns /\ owner'.op = op /\ owner'.member = m
      /\ owner'.first = Len(tasks) + 1
  <2>1. Len(tasks) + 1 \in Nat /\ << >> \in Seq(Blobs) /\ op \in OpNames /\ None \in Results
    BY <1>0 DEF OpNames, Results
  <2> QED BY <1>0, <1>1, <2>1 DEF Owns
<1> DEFINE new == [i \in DOMAIN Chunks[m] |-> [blob |-> Chunks[m][i], state |-> "pending"]]
<1>3. new \in Seq(Tasks) /\ Len(new) = Len(Chunks[m]) /\ \A i \in 1..Len(new) : new[i].state = "pending"
  <2>1. \A i \in DOMAIN Chunks[m] : [blob |-> Chunks[m][i], state |-> "pending"] \in Tasks
    BY <1>0 DEF Tasks, States
  <2>2. Len(Chunks[m]) \in Nat /\ DOMAIN Chunks[m] = 1..Len(Chunks[m])
    BY <1>0
  <2>3. new \in [1..Len(Chunks[m]) -> Tasks]
    BY <2>1, <2>2
  <2>4. new \in Seq(Tasks) /\ Len(new) = Len(Chunks[m])
    BY <2>2, <2>3
  <2>5. \A i \in 1..Len(Chunks[m]) : new[i].state = "pending"
    BY <2>2
  <2> HIDE DEF new
  <2> QED BY <2>4, <2>5
<1>4. tasks' = IF Pooled(op, m) THEN tasks \o new ELSE tasks
  BY DEF Start
<1> HIDE DEF new
<1>5. /\ tasks' \in Seq(Tasks)
      /\ Len(tasks') = IF Pooled(op, m) THEN Len(tasks) + Len(Chunks[m]) ELSE Len(tasks)
      /\ \A i \in DOMAIN tasks : i \in DOMAIN tasks' /\ tasks'[i] = tasks[i]
      /\ \A i \in DOMAIN tasks' \ DOMAIN tasks : tasks'[i].state = "pending"
  <2>1. CASE Pooled(op, m)
    <3>1. /\ tasks' \in Seq(Tasks) /\ Len(tasks') = Len(tasks) + Len(new)
          /\ \A i \in 1..Len(tasks') :
                tasks'[i] = IF i <= Len(tasks) THEN tasks[i] ELSE new[i - Len(tasks)]
      <4>1. tasks' = tasks \o new
        BY <1>4, <2>1
      <4>2. Len(tasks) \in Nat /\ Len(new) \in Nat
        BY <1>0, <1>3
      <4>3. new \in Seq(Tasks) /\ tasks \in Seq(Tasks)
        BY <1>0, <1>3
      <4>4. tasks \o new \in Seq(Tasks) /\ Len(tasks \o new) = Len(tasks) + Len(new)
        BY <4>3
      <4>5. ASSUME NEW i \in 1..Len(tasks) + Len(new)
            PROVE  (tasks \o new)[i] = IF i <= Len(tasks) THEN tasks[i] ELSE new[i - Len(tasks)]
        BY <4>2, <4>3
      <4> QED BY <4>1, <4>4, <4>5
    <3>2. \A i \in 1..Len(tasks') : i > Len(tasks) => i - Len(tasks) \in 1..Len(new)
      BY <1>0, <1>3, <3>1
    <3>3. DOMAIN tasks = 1..Len(tasks) /\ DOMAIN tasks' = 1..Len(tasks')
      BY <1>0, <3>1
    <3>4. \A i \in DOMAIN tasks : i \in DOMAIN tasks' /\ tasks'[i] = tasks[i]
      BY <1>0, <1>3, <3>1, <3>3
    <3>5. \A i \in DOMAIN tasks' \ DOMAIN tasks : tasks'[i].state = "pending"
      <4> TAKE i \in DOMAIN tasks' \ DOMAIN tasks
      <4>1. i \in 1..Len(tasks') /\ i > Len(tasks)
        BY <1>0, <1>3, <3>1, <3>3
      <4>2. tasks'[i] = new[i - Len(tasks)]
        BY <1>0, <3>1, <4>1
      <4> QED BY <1>3, <3>2, <4>1, <4>2
    <3> QED BY <1>3, <2>1, <3>1, <3>4, <3>5
  <2>2. CASE ~Pooled(op, m)
    BY <1>0, <1>4, <2>2
  <2> QED BY <2>1, <2>2
<1>6. Serving'
  <2>1. Calls' /\ Apart'
    BY <1>0, <1>1 DEF Serving, Calls, Apart
  <2>2. Served'
    BY <1>0, <1>1, <1>5 DEF Serving, Served
  <2>3. Manned'
    BY <1>0, <1>1, <1>5 DEF Serving, Manned
  <2> QED BY <2>1, <2>2, <2>3 DEF Serving
<1>7. Owning'
  <2>1. work'[Owner].pc = "idle"
    BY <1>0, <1>1 DEF Owning, Busy
  <2>2. Pooled(op, m) => owner'.first + Len(Chunks[m]) <= Len(tasks') + 1
    BY <1>0, <1>2, <1>5
  <2>3. owner'.first # 0
    BY <1>0, <1>2
  <2> QED BY <1>1, <1>2, <2>1, <2>2, <2>3 DEF Owning, Busy, Wanted, Pooled, RawDirect
<1>8. Locked'
  BY <1>1, StillKeeps
<1>9. Shape'
  <2>1. ops' \in 0..MaxOps
    BY <1>0, <1>1 DEF Shape
  <2> QED BY <1>0, <1>1, <1>2, <1>5, <2>1 DEF Shape
<1> QED BY <1>6, <1>7, <1>8, <1>9 DEF PoolInv

\* Taking a result, or calling _blob for the next chunk.
LEMMA ReadingKeeps ==
    ASSUME PoolInv, Take \/ CallBlob
    PROVE  PoolInv'
<1> USE PoolAssumption
<1>0. /\ PoolInv /\ Shape /\ Locked /\ Serving /\ Owning
      /\ work \in [Threads -> Works] /\ tasks \in Seq(Tasks) /\ owner \in Owns
  BY DEF PoolInv, Shape
<1>1. /\ Busy /\ NextChunk <= Len(Wanted)
      /\ UNCHANGED <<damaged, mapped, cache, decoder, inflater, zlock, ilock, dest, ops>>
  BY DEF Take, CallBlob, blobVars
<1>2. /\ owner.member \in Members /\ Wanted \in Seq(Blobs)
      /\ owner.got \in Seq(Blobs) /\ owner.first \in Nat
      /\ NextChunk \in 1..Len(Wanted)
  BY <1>0, <1>1 DEF Owning, Wanted, Owns, NextChunk
<1>3. ASSUME NEW b \in Blobs, owner' = [owner EXCEPT !.got = Append(@, b)],
             UNCHANGED <<tasks, temp, work>>
      PROVE  PoolInv'
  <2>1. Append(owner.got, b) \in Seq(Blobs)
    BY <1>2
  <2>2. /\ owner' \in Owns /\ owner'.op = owner.op /\ owner'.member = owner.member
        /\ owner'.first = owner.first
    BY <1>0, <1>3, <2>1 DEF Owns
  <2>3. Owning'
    BY <1>0, <1>3, <2>2 DEF Owning, Busy, Wanted
  <2>4. Locked' /\ Serving'
    BY <1>1, <1>3, StillKeeps
  <2>5. Shape'
    BY <1>0, <1>1, <1>3, <2>2 DEF Shape
  <2> QED BY <2>3, <2>4, <2>5 DEF PoolInv
<1>4. CASE Take
  <2>1. Pooled(owner.op, owner.member) /\ UNCHANGED work
    BY <1>4 DEF Take
  <2>2. Future \in DOMAIN tasks /\ Future \in Nat
    <3>1. /\ owner.first # 0
          /\ owner.first + Len(Wanted) <= Len(tasks) + 1
      BY <1>0, <1>1, <2>1 DEF Owning
    <3>2. /\ Len(owner.got) \in Nat /\ Len(owner.got) < Len(Wanted)
          /\ Len(Wanted) \in Nat
      BY <1>2 DEF NextChunk
    <3>3. Len(tasks) \in Nat /\ DOMAIN tasks = 1..Len(tasks)
      BY <1>0
    <3> QED BY <1>2, <3>1, <3>2, <3>3 DEF Future
  <2>3. tasks[Future].blob \in Blobs
    <3>1. tasks[Future] \in Tasks
      BY <1>0, <2>2
    <3> QED BY <3>1 DEF Tasks
  <2>4. CASE /\ owner' = [owner EXCEPT !.got = Append(@, tasks[Future].blob)]
             /\ UNCHANGED <<tasks, temp>>
    BY <1>3, <2>1, <2>3, <2>4
  <2>5. CASE Ended("raised") /\ tasks' = Cancelled(tasks, Future)
    <3>1. owner' \in Owns /\ owner'.op = "none" /\ temp' = FALSE
      BY <1>0, <2>5 DEF Ended, Owns, OpNames, Results
    <3>2. tasks' \in Seq(Tasks) /\ Serving'
      BY <1>0, <2>1, <2>2, <2>5, CancelKeeps
    <3>3. Owning'
      BY <1>0, <2>1, <3>1 DEF Owning, Busy
    <3>4. Locked'
      BY <1>0, <1>1, <2>1, StillKeeps
    <3>5. Shape'
      BY <1>0, <1>1, <2>1, <3>1, <3>2 DEF Shape
    <3> QED BY <3>2, <3>3, <3>4, <3>5 DEF PoolInv
  <2> QED BY <1>4, <2>4, <2>5 DEF Take
<1>5. CASE CallBlob
  <2>1. /\ ~Pooled(owner.op, owner.member) /\ work[Owner].pc = "idle"
        /\ UNCHANGED <<tasks, temp>>
    BY <1>5 DEF CallBlob, At
  <2>2. Wanted[NextChunk] \in Blobs
    BY <1>2
  <2>3. CASE owner' = [owner EXCEPT !.got = Append(@, Wanted[NextChunk])] /\ UNCHANGED work
    BY <1>3, <2>1, <2>2, <2>3
  <2>4. CASE work' = [work EXCEPT ![Owner] = Call(Wanted[NextChunk], 0)] /\ UNCHANGED owner
    <3> DEFINE w == Call(Wanted[NextChunk], 0)
    <3>1. /\ w \in Works /\ w.pc = "look" /\ w.blob \in Blobs /\ w.outer = None /\ w.task = 0
      BY <2>2 DEF Call, Works, Places
    <3>2. Owner \in Threads /\ work' = [work EXCEPT ![Owner] = w]
      BY <2>4 DEF Threads
    <3> HIDE DEF w
    <3>3. /\ work' \in [Threads -> Works] /\ work'[Owner] = w
          /\ \A u \in Threads : u # Owner => work'[u] = work[u]
      BY <1>0, <3>1, <3>2
    <3>4. \A u \in Workers : u # Owner /\ work'[u] = work[u]
      BY <3>3 DEF Threads
    <3>5. work[Owner] = Idle
      BY <1>0, <2>1, <3>2 DEF Serving, Calls
    <3>6. Serving'
      <4>1. Calls'
        BY <1>0, <3>1, <3>3 DEF Serving, Calls, Threads
      <4>2. Served' /\ Apart'
        BY <1>0, <2>1, <3>4 DEF Serving, Served, Apart
      <4>3. Manned'
        BY <1>0, <2>1, <3>4 DEF Serving, Manned
      <4> QED BY <4>1, <4>2, <4>3 DEF Serving
    <3>7. Owning'
      BY <1>0, <1>1, <2>1, <2>4 DEF Owning, Busy, Wanted
    <3>8. Locked'
      <4>1. ~InDict(Owner) /\ ~InDict(Owner)'
        BY <3>1, <3>3, <3>5 DEF InDict, Idle
      <4> QED BY <1>0, <1>1, <3>1, <3>3, <3>5, <4>1 DEF Locked, InDict, Idle
    <3>9. Shape'
      BY <1>0, <1>1, <2>1, <2>4, <3>3 DEF Shape
    <3> QED BY <3>6, <3>7, <3>8, <3>9 DEF PoolInv
  <2> QED BY <1>5, <2>3, <2>4 DEF CallBlob
<1> QED BY <1>4, <1>5

\* The owner ends an operation or goes on closing: no call moves.
LEMMA EndKeeps ==
    ASSUME PoolInv,
           WriteFails \/ Forget \/ Finish \/ Close \/ CloseDict \/ CloseInflate \/ CloseJoin
    PROVE  PoolInv'
<1> USE PoolAssumption
<1>0. /\ PoolInv /\ Shape /\ Owning
      /\ tasks \in Seq(Tasks) /\ owner \in Owns /\ owner.first \in Nat
  BY DEF PoolInv, Shape, Owns
<1>1. UNCHANGED <<work, zlock, ilock, cache, damaged, ops>>
  BY DEF WriteFails, Forget, Finish, Close, CloseDict, CloseInflate, CloseJoin, blobVars, ownVars
<1>2. Locked' /\ (UNCHANGED tasks => Serving')
  BY <1>0, <1>1, StillKeeps
<1>3. ASSUME NEW r \in Results, Ended(r)
      PROVE  /\ owner' \in Owns /\ owner'.op = "none" /\ temp' = FALSE
  BY <1>0, <1>3 DEF Ended, Owns, OpNames
<1>4. CASE WriteFails
  <2>1. /\ work[Owner].pc = "idle" /\ Ended("unwritten")
        /\ UNCHANGED <<mapped, decoder, inflater, tasks, dest>>
    BY <1>4 DEF WriteFails, At, blobVars
  <2>2. owner' \in Owns /\ owner'.op = "none" /\ temp' = FALSE
    BY <1>3, <2>1 DEF Results
  <2>3. Shape' /\ Owning'
    BY <1>0, <1>1, <2>1, <2>2 DEF Shape, Owning, Busy
  <2> QED BY <1>2, <2>1, <2>3 DEF PoolInv
<1>5. CASE Forget
  <2>1. /\ owner.op = "none" /\ tasks' = Cancelled(tasks, owner.first)
        /\ UNCHANGED <<mapped, decoder, inflater, owner, temp, dest>>
    BY <1>5 DEF Forget, blobVars, ownVars
  <2>2. tasks' \in Seq(Tasks) /\ Serving'
    BY <1>0, <1>1, <2>1, CancelKeeps
  <2>3. Shape'
    BY <1>0, <1>1, <2>1, <2>2 DEF Shape
  <2>4. Owning'
    BY <1>0, <1>1, <2>1 DEF Owning, Busy
  <2> QED BY <1>2, <2>2, <2>3, <2>4 DEF PoolInv
<1>6. CASE Finish
  <2>1. /\ Busy /\ work[Owner].pc = "idle"
        /\ UNCHANGED <<mapped, decoder, inflater, tasks>>
    BY <1>6 DEF Finish, At, blobVars
  <2>2. dest' \in [Members -> {"old", "whole"}]
    BY <1>0, <1>6, <2>1 DEF Finish, Shape
  <2>3. owner' \in Owns /\ owner'.op = "none" /\ temp' = FALSE
    BY <1>3, <1>6 DEF Finish, Results
  <2>4. Shape' /\ Owning'
    BY <1>0, <1>1, <2>1, <2>2, <2>3 DEF Shape, Owning, Busy
  <2> QED BY <1>2, <2>1, <2>4 DEF PoolInv
<1>7. ASSUME NEW op \in {"close_dict", "close_inflate", "close_join", "closed"},
             owner' = [owner EXCEPT !.op = op], ~Busy, owner.op # "extract",
             {mapped', decoder', inflater'} \subseteq BOOLEAN, UNCHANGED <<tasks, temp, dest>>,
             op = "closed" => \A i \in DOMAIN tasks : Over(tasks[i])
      PROVE  PoolInv'
  <2>1. owner' \in Owns /\ owner'.op = op
    BY <1>0, <1>7 DEF Owns, OpNames
  <2>2. Shape'
    BY <1>0, <1>1, <1>7, <2>1 DEF Shape
  <2>3. Owning'
    BY <1>0, <1>1, <1>7, <2>1 DEF Owning, Busy
  <2> QED BY <1>2, <1>7, <2>2, <2>3 DEF PoolInv
<1>8. {mapped, decoder, inflater} \subseteq BOOLEAN
  BY <1>0 DEF Shape
<1>9. CASE Close
  BY <1>7, <1>8, <1>9 DEF Close, Busy, blobVars
<1>10. CASE CloseDict
  BY <1>7, <1>8, <1>10 DEF CloseDict, Busy
<1>11. CASE CloseInflate
  BY <1>7, <1>8, <1>11 DEF CloseInflate, Busy
<1>12. CASE CloseJoin
  BY <1>7, <1>8, <1>12 DEF CloseJoin, Busy, blobVars
<1> QED BY <1>4, <1>5, <1>6, <1>9, <1>10, <1>11, <1>12

-----------------------------------------------------------------------------
(* What follows.                                                           *)

\* The invariant holds of every behaviour.
THEOREM PoolInvariance == Spec => []PoolInv
<1>1. PoolInv /\ [Next]_vars => PoolInv'
  <2> SUFFICES ASSUME PoolInv, [Next]_vars PROVE PoolInv'
    OBVIOUS
  <2>1. CASE UNCHANGED vars
    BY <2>1 DEF vars, blobVars, ownVars, PoolInv, Shape, Locked, InDict, Serving, Calls, Served,
                Apart, Manned, Owning, Busy, Wanted
  <2>2. CASE Next
    BY <2>2, BlobKeeps, RunTaskKeeps, StartKeeps, ReadingKeeps, EndKeeps DEF Next, OwnerStep
  <2> QED BY <2>1, <2>2
<1> QED BY <1>1, InitPool, PTL DEF Spec

\* Every variable keeps its shape, locks are held by who is inside, running tasks have a
\* thread, and a part file is on disk only while a member is extracted (reader.py:110-157).
THEOREM PoolTypeCorrect == Spec => []TypeOK
<1>1. PoolInv => TypeOK
  <2> SUFFICES ASSUME PoolInv PROVE TypeOK
    OBVIOUS
  <2> USE PoolAssumption
  <2>1. Shape /\ Locked /\ Serving /\ Owning /\ tasks \in Seq(Tasks) /\ work \in [Threads -> Works]
    BY DEF PoolInv, Shape
  <2>2. ASSUME NEW t \in Threads
        PROVE  /\ work[t].pc \in Places
               /\ work[t].blob \in Blobs \cup {None} /\ work[t].outer \in Blobs \cup {None}
               /\ work[t].task \in 0..Len(tasks)
    <3>1. work[t] \in Works
      BY <2>1
    <3>2. work[t].task \in 0..Len(tasks)
      BY <2>1 DEF Serving, Calls, Served, Idle, Threads
    <3> QED BY <3>1, <3>2 DEF Works
  <2>3. ASSUME NEW i \in DOMAIN tasks
        PROVE  /\ tasks[i].blob \in Blobs
               /\ (tasks[i].state = "running") <=> \E t \in Workers : work[t].task = i
    <3>1. tasks[i] \in Tasks /\ i # 0
      BY <2>1
    <3>2. ASSUME NEW t \in Workers, work[t].task = i PROVE tasks[i].state = "running"
      BY <2>1, <3>1, <3>2 DEF Serving, Calls, Served, Idle, Threads
    <3> QED BY <2>1, <3>1, <3>2 DEF Serving, Manned, Tasks
  <2>4. dest \in [Members -> {"old", "whole", "wrong"}]
    BY <2>1 DEF Shape
  <2>5. /\ damaged \in SUBSET Blobs /\ cache \in SUBSET Modest
        /\ {mapped, decoder, inflater, temp} \subseteq BOOLEAN /\ ops \in 0..MaxOps
        /\ temp <=> (owner.op = "extract")
    BY <2>1 DEF Shape, Owning
  <2>6. \A t \in Threads :
          /\ (zlock = t) <=> (work[t].outer # None
                                \/ work[t].pc \in {"zlook", "decode", "native_dict"})
          /\ (ilock = t) <=> (work[t].pc = "native_inflate")
    BY <2>1 DEF Locked, InDict
  <2> QED BY <2>2, <2>3, <2>4, <2>5, <2>6 DEF TypeOK
<1> QED BY <1>1, PoolInvariance, PTL

\* Threads take turns in the native decoders, however many there are: "callers serialize
\* access" (native_codec.py:97, reader.py:116, 124).
THEOREM DecodersTakeTurns == Spec => []OneAtATime
<1>1. PoolInv => OneAtATime
  BY DEF PoolInv, Locked, InDict, OneAtATime, At
<1> QED BY <1>1, PoolInvariance, PTL

\* When close() has returned no task runs or waits and every lock is free, also after
\* reads that failed (reader.py:45).
THEOREM CloseLeavesNothing == Spec => []CloseWaits
<1>1. PoolInv => CloseWaits
  <2> SUFFICES ASSUME PoolInv, owner.op = "closed"
               PROVE  /\ \A i \in DOMAIN tasks : Over(tasks[i])
                      /\ \A t \in Threads : At(t, "idle")
                      /\ zlock = None /\ ilock = None
    BY DEF CloseWaits
  <2>1. \A i \in DOMAIN tasks : Over(tasks[i])
    BY DEF PoolInv, Owning
  <2>2. \A t \in Threads : work[t].pc = "idle"
    <3>1. work[Owner].pc = "idle"
      BY DEF PoolInv, Owning, Busy
    <3>2. \A t \in Workers : work[t].pc = "idle"
      BY <2>1 DEF PoolInv, Serving, Served, Over
    <3> QED BY <3>1, <3>2 DEF Threads
  <2>3. \A t \in Threads : zlock # t /\ ilock # t
    BY <2>2 DEF PoolInv, Locked, InDict, Serving, Calls, Idle
  <2>4. zlock \in Threads \cup {None} /\ ilock \in Threads \cup {None}
    BY DEF PoolInv, Shape
  <2> QED BY <2>1, <2>2, <2>3, <2>4 DEF At
<1> QED BY <1>1, PoolInvariance, PTL

-----------------------------------------------------------------------------
(* What is invariant on top of PoolInv.                                    *)

\* A blob can be had when it and the dictionary it needs are undamaged.
Sound(b) == b \notin damaged /\ (Codec[b] = "dict" => DictBlob \notin damaged)

\* The blob a call is for, also while it reads the dictionary first.
Aim(t) == IF work[t].outer # None THEN work[t].outer ELSE work[t].blob

\* What lies in the cache or came of the dictionary was checked; decoders go with close().
Checked ==
    /\ \A b \in cache : Sound(b)
    /\ decoder => DictBlob \notin damaged
    /\ ~inflater => ~mapped

\* Past the dictionary's decoder a call knows that the dictionary is undamaged.
Passed(w) ==
    /\ w.outer # None => w.outer \in Blobs /\ Codec[w.outer] = "dict"
    /\ w.pc \in {"zwait", "zlook", "decode", "native_dict"} => Codec[w.blob] = "dict"
    /\ w.pc \in {"inflate", "iwait", "native_inflate"} => Codec[w.blob] = "deflate"
    /\ w.pc \in {"decode", "native_dict"} => DictBlob \notin damaged /\ (decoder \/ ~mapped)
    /\ w.pc = "check" /\ Codec[w.blob] = "dict" => DictBlob \notin damaged
Inside == \A t \in Threads : Passed(work[t])

\* Every call is for the blob of its task, or for the owner's next chunk.
Errands ==
    /\ \A t \in Workers : work[t].pc # "idle" => Aim(t) = tasks[work[t].task].blob
    /\ work[Owner].pc # "idle" => NextChunk <= Len(Wanted) /\ Aim(Owner) = Wanted[NextChunk]

\* A task's end says whether its blob can be had, until close() begins.
Outcomes ==
    \A i \in DOMAIN tasks :
        /\ tasks[i].state = "done" => Sound(tasks[i].blob)
        /\ tasks[i].state = "failed" => ~Sound(tasks[i].blob) \/ ~mapped

\* The futures of the member being read are its chunks; what was taken is their beginning.
Futures ==
    Busy /\ Pooled(owner.op, owner.member) =>
        \A k \in 1..Len(Wanted) : tasks[owner.first + k - 1].blob = Wanted[k]
Direct == owner.op = "extract" /\ RawDirect(owner.member)
Taken ==
    Busy => /\ Len(owner.got) <= Len(Wanted)
            /\ \A k \in 1..Len(owner.got) : /\ owner.got[k] = Wanted[k]
                                            /\ ~Direct => Sound(owner.got[k])

\* What was answered stands, and only an open archive is mapped.
Closing == owner.op \in {"close_dict", "close_inflate", "close_join", "closed"}
Answered ==
    /\ owner.result # None => ~Busy /\ owner.member \in Members
    /\ ReadsRight
    /\ DestinationWhole
    /\ ~mapped <=> Closing

\* After reads that all went through, only the futures not yet taken may be at work.
Settled ==
    ~owner.failed =>
        /\ ~(Busy /\ Pooled(owner.op, owner.member)) => \A i \in DOMAIN tasks : Over(tasks[i])
        /\ Busy /\ Pooled(owner.op, owner.member) =>
              /\ Len(tasks) < owner.first + Len(Wanted)
              /\ \A i \in DOMAIN tasks : i < Future => Over(tasks[i])
        /\ owner.op \in {"close_inflate", "close_join", "closed"} => ~decoder
        /\ owner.op \in {"close_join", "closed"} => ~inflater

Reading == Errands /\ Outcomes /\ Futures /\ Taken /\ Answered /\ Settled
ReadInv == PoolInv /\ Checked /\ Inside /\ Reading

-----------------------------------------------------------------------------
(* What the steps of _blob come to.                                        *)

\* A call moves on for the same blob, or ends with it, or fails for damage or because the
\* archive is being closed.
Moves(t) ==
    /\ UNCHANGED <<tasks, owner, temp>>
    /\ work'[t].pc # "idle" /\ work'[t].task = work[t].task /\ Aim(t)' = Aim(t)
Gives(t) == Deliver(t, TRUE) /\ Sound(Aim(t)) /\ work[t].blob = Aim(t)
Fails(t) == Deliver(t, FALSE) /\ (~Sound(Aim(t)) \/ ~mapped)

BlobStep(t) ==
    /\ UNCHANGED <<damaged, mapped, dest, ops, inflater>>
    /\ work[t].pc # "idle"
    /\ \A u \in Threads : u # t => work'[u] = work[u]
    /\ Moves(t) \/ Gives(t) \/ Fails(t)
    /\ Checked' /\ Passed(work[t])'

\* Where only the place of a call changes, its aim stays.
LEMMA GotoMoves ==
    ASSUME PoolInv, NEW t \in Threads, NEW pc \in Places \ {"idle"}, Goto(t, pc),
           UNCHANGED <<tasks, owner, temp>>
    PROVE  /\ Moves(t) /\ work'[t].pc = pc
           /\ work'[t].blob = work[t].blob /\ work'[t].outer = work[t].outer
           /\ \A u \in Threads : u # t => work'[u] = work[u]
<1>1. work \in [Threads -> Works] /\ work[t] \in Works
  BY DEF PoolInv, Shape
<1> DEFINE w == [work[t] EXCEPT !.pc = pc]
<1>2. /\ w.pc = pc /\ w.task = work[t].task /\ w.blob = work[t].blob /\ w.outer = work[t].outer
  BY <1>1 DEF Works
<1>3. work' = [work EXCEPT ![t] = w]
  BY DEF Goto
<1> HIDE DEF w
<1>4. work'[t] = w /\ \A u \in Threads : u # t => work'[u] = work[u]
  BY <1>1, <1>3
<1> QED BY <1>2, <1>4 DEF Moves, Aim

LEMMA RaiseFails ==
    ASSUME ReadInv, NEW t \in Threads, work[t].pc # "idle", Raise(t),
           UNCHANGED <<damaged, mapped, dest, ops>>, ~Sound(Aim(t)) \/ ~mapped
    PROVE  BlobStep(t)
<1> USE PoolAssumption
<1>1. Deliver(t, FALSE) /\ UNCHANGED <<cache, decoder, inflater>>
  BY DEF Raise
<1>2. work'[t] = Idle /\ \A u \in Threads : u # t => work'[u] = work[u]
  BY <1>1, DeliverKeeps DEF ReadInv
<1>3. Checked'
  BY <1>1 DEF ReadInv, Checked, Sound
<1>4. Passed(work[t])'
  BY <1>2 DEF Passed, Idle
<1> QED BY <1>1, <1>2, <1>3, <1>4 DEF BlobStep, Fails

LEMMA ReturnGives ==
    ASSUME ReadInv, NEW t \in Threads, work[t].pc \in {"look", "check"}, Return(t),
           UNCHANGED <<damaged, mapped, dest, ops, inflater>>, Sound(work[t].blob),
           \A b \in cache' : b \in cache \/ b = work[t].blob
    PROVE  BlobStep(t)
<1> USE PoolAssumption
<1>0. /\ PoolInv /\ Checked /\ work \in [Threads -> Works] /\ work[t] \in Works
      /\ Locked /\ Passed(work[t])
  BY DEF ReadInv, PoolInv, Shape, Inside
<1>1. \A b \in cache' : Sound(b)'
  BY <1>0 DEF Checked, Sound
<1>2. CASE work[t].outer # None
  <2> DEFINE w == [work[t] EXCEPT !.pc = "decode", !.blob = work[t].outer, !.outer = None]
  <2>1. w.pc = "decode" /\ w.task = work[t].task /\ w.blob = work[t].outer /\ w.outer = None
    BY <1>0 DEF Works
  <2>2. /\ work' = [work EXCEPT ![t] = w]
        /\ decoder' = TRUE /\ UNCHANGED <<tasks, owner, temp>>
    BY <1>2 DEF Return
  <2> HIDE DEF w
  <2>3. work'[t] = w /\ \A u \in Threads : u # t => work'[u] = work[u]
    BY <1>0, <2>2
  <2>4. Moves(t)
    BY <1>2, <2>1, <2>2, <2>3 DEF Moves, Aim
  <2>5. DictBlob \notin damaged
    BY <1>0, <1>2 DEF Locked, Sound
  <2>6. Checked'
    BY <1>0, <1>1, <2>5 DEF Checked
  <2>7. Passed(work[t])'
    BY <1>0, <1>2, <2>1, <2>2, <2>3, <2>5 DEF Passed
  <2> QED BY <2>3, <2>4, <2>6, <2>7 DEF BlobStep
<1>3. CASE work[t].outer = None
  <2>1. Deliver(t, TRUE) /\ UNCHANGED decoder
    BY <1>3 DEF Return
  <2>2. work'[t] = Idle /\ \A u \in Threads : u # t => work'[u] = work[u]
    BY <1>0, <2>1, DeliverKeeps
  <2>3. Gives(t)
    BY <1>3, <2>1 DEF Gives, Aim
  <2>4. Checked'
    BY <1>0, <1>1, <2>1 DEF Checked
  <2>5. Passed(work[t])'
    BY <2>2 DEF Passed, Idle
  <2> QED BY <2>2, <2>3, <2>4, <2>5 DEF BlobStep
<1> QED BY <1>2, <1>3
\* Every step of _blob, at any of its places, is one of the three.
LEMMA BlobSteps ==
    ASSUME ReadInv, NEW t \in Threads, Blob(t)
    PROVE  BlobStep(t)
<1> USE PoolAssumption
<1>0. /\ PoolInv /\ Checked /\ Locked /\ Passed(work[t])
      /\ work \in [Threads -> Works] /\ work[t] \in Works
      /\ UNCHANGED <<damaged, mapped, dest, ops>>
      /\ work[t].pc # "idle" => work[t].blob \in Blobs
  BY DEF ReadInv, PoolInv, Shape, Inside, Blob, Serving, Calls
<1>a. ASSUME UNCHANGED <<cache, decoder, inflater>>, Moves(t), Passed(work[t])', work[t].pc # "idle",
             \A u \in Threads : u # t => work'[u] = work[u]
      PROVE  BlobStep(t)
  <2>1. Checked'
    BY <1>0, <1>a DEF Checked, Sound
  <2> QED BY <1>0, <1>a, <2>1 DEF BlobStep
<1>b. ASSUME Raise(t), work[t].pc # "idle", ~Sound(Aim(t)) \/ ~mapped
      PROVE  BlobStep(t)
  BY <1>0, <1>b, RaiseFails
<1>1. CASE Look(t)
  <2>0. work[t].pc = "look" /\ UNCHANGED <<cache, inflater>>
    BY <1>1 DEF Look, At
  <2>1. CASE work[t].blob \in cache
    <3>1. Return(t) /\ Sound(work[t].blob)
      BY <1>0, <1>1, <2>1 DEF Look, Checked
    <3> QED BY <1>0, <2>0, <3>1, ReturnGives
  <2>2. CASE work[t].blob \notin cache
    <3>1. Goto(t, "map") /\ UNCHANGED <<tasks, owner, temp, decoder>>
      BY <1>1, <2>2 DEF Look
    <3>2. /\ Moves(t) /\ work'[t].pc = "map"
          /\ work'[t].blob = work[t].blob /\ work'[t].outer = work[t].outer
          /\ \A u \in Threads : u # t => work'[u] = work[u]
      BY <1>0, <3>1, GotoMoves DEF Places
    <3>3. Passed(work[t])'
      BY <1>0, <3>2 DEF Passed
    <3> QED BY <1>a, <2>0, <3>1, <3>2, <3>3
  <2> QED BY <2>1, <2>2
<1>2. CASE ReadMap(t)
  <2>0. work[t].pc = "map"
    BY <1>2 DEF ReadMap, At
  <2>1. CASE mapped
    <3> DEFINE pc == AfterMap[Codec[work[t].blob]]
    <3>1. Goto(t, pc) /\ UNCHANGED <<tasks, owner, temp, blobVars>>
      BY <1>2, <2>1 DEF ReadMap
    <3>2. /\ pc \in {"check", "zwait", "inflate"}
          /\ pc = "zwait" => Codec[work[t].blob] = "dict"
          /\ pc = "inflate" => Codec[work[t].blob] = "deflate"
          /\ pc = "check" => Codec[work[t].blob] # "dict"
      BY <1>0, <2>0 DEF AfterMap
    <3> HIDE DEF pc
    <3>3. /\ Moves(t) /\ work'[t].pc = pc
          /\ work'[t].blob = work[t].blob /\ work'[t].outer = work[t].outer
          /\ \A u \in Threads : u # t => work'[u] = work[u]
      BY <1>0, <3>1, <3>2, GotoMoves DEF Places
    <3>4. Passed(work[t])'
      BY <1>0, <3>2, <3>3 DEF Passed
    <3> QED BY <1>a, <2>0, <3>1, <3>3, <3>4 DEF blobVars
  <2>2. CASE ~mapped
    BY <1>2, <1>b, <2>0, <2>2 DEF ReadMap
  <2> QED BY <2>1, <2>2
<1>3. CASE ZEnter(t)
  <2>1. work[t].pc = "zwait" /\ Goto(t, "zlook") /\ UNCHANGED <<cache, decoder, inflater, tasks, owner, temp>>
    BY <1>3 DEF ZEnter, At
  <2>2. /\ Moves(t) /\ work'[t].pc = "zlook"
        /\ work'[t].blob = work[t].blob /\ work'[t].outer = work[t].outer
        /\ \A u \in Threads : u # t => work'[u] = work[u]
    BY <1>0, <2>1, GotoMoves DEF Places
  <2>3. Passed(work[t])'
    BY <1>0, <2>1, <2>2 DEF Passed
  <2> QED BY <1>a, <2>1, <2>2, <2>3
<1>4. CASE ZLook(t)
  <2>0. work[t].pc = "zlook" /\ UNCHANGED <<cache, decoder, inflater, tasks, owner, temp>>
    BY <1>4 DEF ZLook, At, blobVars
  <2>1. CASE decoder
    <3>1. Goto(t, "decode")
      BY <1>4, <2>1 DEF ZLook
    <3>2. /\ Moves(t) /\ work'[t].pc = "decode"
          /\ work'[t].blob = work[t].blob /\ work'[t].outer = work[t].outer
          /\ \A u \in Threads : u # t => work'[u] = work[u]
      BY <1>0, <2>0, <3>1, GotoMoves DEF Places
    <3>3. Passed(work[t])'
      BY <1>0, <2>0, <2>1, <3>2 DEF Passed, Checked
    <3> QED BY <1>a, <2>0, <3>2, <3>3
  <2>2. CASE ~decoder
    <3> DEFINE w == [work[t] EXCEPT !.pc = "look", !.outer = work[t].blob, !.blob = DictBlob]
    <3>1. /\ w.pc = "look" /\ w.task = work[t].task /\ w.blob = DictBlob /\ w.outer = work[t].blob
      BY <1>0 DEF Works
    <3>2. work' = [work EXCEPT ![t] = w]
      BY <1>4, <2>2 DEF ZLook
    <3> HIDE DEF w
    <3>3. work'[t] = w /\ \A u \in Threads : u # t => work'[u] = work[u]
      BY <1>0, <3>2
    <3>4. work[t].outer = None /\ work[t].blob # None
      BY <1>0, <2>0 DEF Locked
    <3>5. Moves(t)
      BY <2>0, <3>1, <3>3, <3>4 DEF Moves, Aim
    <3>6. Passed(work[t])'
      BY <1>0, <2>0, <3>1, <3>3 DEF Passed
    <3> QED BY <1>a, <2>0, <3>3, <3>5, <3>6
  <2> QED BY <2>1, <2>2
<1>5. CASE ZDecode(t)
  <2>0. work[t].pc = "decode"
    BY <1>5 DEF ZDecode, At
  <2>1. CASE decoder
    <3>1. Goto(t, "native_dict") /\ UNCHANGED <<blobVars, tasks, owner, temp>>
      BY <1>5, <2>1 DEF ZDecode
    <3>2. /\ Moves(t) /\ work'[t].pc = "native_dict"
          /\ work'[t].blob = work[t].blob /\ work'[t].outer = work[t].outer
          /\ \A u \in Threads : u # t => work'[u] = work[u]
      BY <1>0, <3>1, GotoMoves DEF Places
    <3>3. Passed(work[t])'
      BY <1>0, <2>0, <3>1, <3>2 DEF Passed, blobVars
    <3> QED BY <1>a, <2>0, <3>1, <3>2, <3>3 DEF blobVars
  <2>2. CASE ~decoder
    <3>1. ~mapped
      BY <1>0, <2>0, <2>2 DEF Passed
    <3> QED BY <1>5, <1>b, <2>0, <2>2, <3>1 DEF ZDecode
  <2> QED BY <2>1, <2>2
<1>6. CASE ZLeave(t)
  <2>0. work[t].pc = "native_dict"
    BY <1>6 DEF ZLeave, At
  <2>1. CASE ~decoder /\ Raise(t)
    BY <1>0, <1>b, <2>0, <2>1 DEF Passed
  <2>2. CASE /\ Goto(t, "check") /\ UNCHANGED <<cache, decoder, inflater, tasks, owner, temp>>
    <3>1. /\ Moves(t) /\ work'[t].pc = "check"
          /\ work'[t].blob = work[t].blob /\ work'[t].outer = work[t].outer
          /\ \A u \in Threads : u # t => work'[u] = work[u]
      BY <1>0, <2>2, GotoMoves DEF Places
    <3>2. Passed(work[t])'
      BY <1>0, <2>0, <3>1 DEF Passed
    <3> QED BY <1>a, <2>0, <2>2, <3>1, <3>2
  <2> QED BY <1>6, <2>1, <2>2 DEF ZLeave
<1>7. CASE Inflate(t)
  <2> DEFINE pc == IF inflater THEN "iwait" ELSE "check"
  <2>1. /\ work[t].pc = "inflate" /\ Goto(t, pc)
        /\ UNCHANGED <<blobVars, tasks, owner, temp>>
    BY <1>7 DEF Inflate, At
  <2>2. pc \in {"iwait", "check"}
    OBVIOUS
  <2> HIDE DEF pc
  <2>3. /\ Moves(t) /\ work'[t].pc = pc
        /\ work'[t].blob = work[t].blob /\ work'[t].outer = work[t].outer
        /\ \A u \in Threads : u # t => work'[u] = work[u]
    BY <1>0, <2>1, <2>2, GotoMoves DEF Places
  <2>4. Passed(work[t])'
    BY <1>0, <2>1, <2>2, <2>3 DEF Passed
  <2> QED BY <1>a, <2>1, <2>3, <2>4 DEF blobVars
<1>8. CASE IEnter(t)
  <2>1. work[t].pc = "iwait" /\ Goto(t, "native_inflate")
        /\ UNCHANGED <<cache, decoder, inflater, tasks, owner, temp>>
    BY <1>8 DEF IEnter, At
  <2>2. /\ Moves(t) /\ work'[t].pc = "native_inflate"
        /\ work'[t].blob = work[t].blob /\ work'[t].outer = work[t].outer
        /\ \A u \in Threads : u # t => work'[u] = work[u]
    BY <1>0, <2>1, GotoMoves DEF Places
  <2>3. Passed(work[t])'
    BY <1>0, <2>1, <2>2 DEF Passed
  <2> QED BY <1>a, <2>1, <2>2, <2>3
<1>9. CASE ILeave(t)
  <2>0. work[t].pc = "native_inflate"
    BY <1>9 DEF ILeave, At
  <2>1. CASE ~inflater /\ Raise(t)
    BY <1>0, <1>b, <2>0, <2>1 DEF Checked
  <2>2. CASE /\ Goto(t, "check") /\ UNCHANGED <<cache, decoder, inflater, tasks, owner, temp>>
    <3>1. /\ Moves(t) /\ work'[t].pc = "check"
          /\ work'[t].blob = work[t].blob /\ work'[t].outer = work[t].outer
          /\ \A u \in Threads : u # t => work'[u] = work[u]
      BY <1>0, <2>2, GotoMoves DEF Places
    <3>2. Passed(work[t])'
      BY <1>0, <2>0, <3>1 DEF Passed
    <3> QED BY <1>a, <2>0, <2>2, <3>1, <3>2
  <2> QED BY <1>9, <2>1, <2>2 DEF ILeave
<1>10. CASE Check(t)
  <2>0. work[t].pc = "check"
    BY <1>10 DEF Check, At
  <2>1. CASE work[t].blob \in damaged
    <3>1. ~Sound(Aim(t))
      BY <1>0, <2>1 DEF Locked, Passed, Aim, Sound
    <3> QED BY <1>10, <1>b, <2>0, <2>1, <3>1 DEF Check
  <2>2. CASE work[t].blob \notin damaged
    <3>1. /\ Return(t) /\ UNCHANGED inflater
          /\ cache' = cache \cup ({work[t].blob} \cap Modest)
      BY <1>10, <2>2 DEF Check
    <3>2. Sound(work[t].blob)
      BY <1>0, <2>0, <2>2 DEF Passed, Sound
    <3>3. \A b \in cache' : b \in cache \/ b = work[t].blob
      BY <3>1
    <3> QED BY <1>0, <2>0, <3>1, <3>2, <3>3, ReturnGives
  <2> QED BY <2>1, <2>2
<1> QED BY <1>1, <1>2, <1>3, <1>4, <1>5, <1>6, <1>7, <1>8, <1>9, <1>10 DEF Blob

\* With close() under way after reads that all went through, no thread is in a call.
LEMMA QuietClosing ==
    ASSUME ReadInv, ~owner.failed, Closing
    PROVE  \A t \in Threads : work[t].pc = "idle"
<1>1. ~Busy
  BY DEF Closing, Busy
<1>2. \A i \in DOMAIN tasks : Over(tasks[i])
  BY <1>1 DEF ReadInv, Reading, Settled
<1>3. \A t \in Workers : work[t].pc = "idle"
  BY <1>2 DEF ReadInv, PoolInv, Serving, Served, Over
<1>4. work[Owner].pc = "idle"
  BY <1>1 DEF ReadInv, PoolInv, Owning
<1> QED BY <1>3, <1>4 DEF Threads

LEMMA MovesRead ==
    ASSUME ReadInv, NEW t \in Threads, BlobStep(t), Moves(t)
    PROVE  Reading'
<1> USE PoolAssumption
<1>1. /\ Reading /\ UNCHANGED <<damaged, mapped, dest, inflater, tasks, owner>>
      /\ \A u \in Threads : Aim(u)' = Aim(u) /\ work'[u].task = work[u].task
      /\ \A u \in Threads : work'[u].pc = "idle" <=> work[u].pc = "idle"
  BY DEF ReadInv, BlobStep, Moves, Aim
<1>2. Errands'
  <2>1. \A u \in Workers : work'[u].pc # "idle" => Aim(u)' = tasks'[work'[u].task].blob
    BY <1>1 DEF Reading, Errands, Threads
  <2>2. work'[Owner].pc # "idle" => NextChunk' <= Len(Wanted') /\ Aim(Owner)' = Wanted'[NextChunk']
    BY <1>1 DEF Reading, Errands, NextChunk, Wanted, Threads
  <2> QED BY <2>1, <2>2 DEF Errands
<1>3. Outcomes' /\ Futures' /\ Taken'
  BY <1>1 DEF Reading, Outcomes, Sound, Futures, Busy, Wanted, Taken, Direct
<1>4. Answered'
  BY <1>1 DEF Reading, Answered, ReadsRight, DestinationWhole, Closing, Busy, Wanted
<1>5. Settled'
  <2>1. owner.failed \/ ~Closing
    BY QuietClosing DEF BlobStep
  <2> QED BY <1>1, <2>1 DEF Reading, Settled, Busy, Wanted, Future, Closing
<1> QED BY <1>2, <1>3, <1>4, <1>5 DEF Reading

\* A call of the pool ends: the outcome is kept with its task.
LEMMA WorkerReads ==
    ASSUME ReadInv, NEW t \in Workers, BlobStep(t), Gives(t) \/ Fails(t)
    PROVE  Reading'
<1> USE PoolAssumption
<1> DEFINE i == work[t].task
<1>0. /\ PoolInv /\ Reading /\ t \in Threads /\ t # Owner /\ work[t].pc # "idle"
      /\ UNCHANGED <<damaged, mapped, dest, inflater>>
      /\ \A u \in Threads : u # t => work'[u] = work[u]
  BY DEF ReadInv, BlobStep, Threads
<1>1. /\ i \in DOMAIN tasks /\ tasks[i].state = "running" /\ tasks \in Seq(Tasks)
      /\ Aim(t) = tasks[i].blob
  BY <1>0 DEF PoolInv, Shape, Serving, Served, Reading, Errands
<1>2. PICK s \in {"done", "failed"} :
        /\ tasks' = [tasks EXCEPT ![i].state = s]
        /\ s = "done" => Sound(tasks[i].blob)
        /\ s = "failed" => ~Sound(tasks[i].blob) \/ ~mapped
  BY <1>1 DEF Gives, Fails, Deliver
<1>3. UNCHANGED <<owner, temp>> /\ work'[t] = Idle
  <2>1. PICK ok \in BOOLEAN : Deliver(t, ok)
    BY DEF Gives, Fails
  <2> QED BY <1>0, <2>1, DeliverKeeps DEF Deliver
<1> HIDE DEF i
<1>4. /\ DOMAIN tasks' = DOMAIN tasks /\ Len(tasks') = Len(tasks)
      /\ tasks'[i].state = s /\ tasks'[i].blob = tasks[i].blob
      /\ \A j \in DOMAIN tasks : j # i => tasks'[j] = tasks[j]
  <2>1. tasks[i] \in Tasks
    BY <1>1
  <2> QED BY <1>1, <1>2, <2>1 DEF Tasks
<1>5. \A j \in DOMAIN tasks : /\ tasks'[j].blob = tasks[j].blob
                              /\ Over(tasks[j]) => Over(tasks'[j])
  BY <1>1, <1>4 DEF Over
<1>6. Errands'
  <2>1. ASSUME NEW u \in Workers, work'[u].pc # "idle"
        PROVE  Aim(u)' = tasks'[work'[u].task].blob
    <3>1. u # t /\ work'[u] = work[u]
      BY <1>0, <1>3, <2>1 DEF Idle, Threads
    <3>2. work[u].task \in DOMAIN tasks /\ Aim(u) = tasks[work[u].task].blob
      BY <1>0, <2>1, <3>1 DEF PoolInv, Serving, Served, Reading, Errands
    <3> QED BY <1>5, <3>1, <3>2 DEF Aim
  <2>2. work'[Owner] = work[Owner]
    BY <1>0 DEF Threads
  <2>3. work'[Owner].pc # "idle" => NextChunk' <= Len(Wanted') /\ Aim(Owner)' = Wanted'[NextChunk']
    BY <1>0, <1>3, <2>2 DEF Reading, Errands, NextChunk, Wanted, Aim
  <2> QED BY <2>1, <2>3 DEF Errands
<1>7. Outcomes'
  BY <1>0, <1>2, <1>4 DEF Reading, Outcomes, Sound
<1>8. Futures' /\ Taken'
  <2>1. Busy /\ Pooled(owner.op, owner.member) =>
           \A k \in 1..Len(Wanted) : owner.first + k - 1 \in DOMAIN tasks
    BY <1>0, <1>1 DEF PoolInv, Shape, Owns, Owning, Wanted
  <2>2. Futures'
    BY <1>0, <1>3, <1>5, <2>1 DEF Reading, Futures, Busy, Wanted
  <2>3. Taken'
    BY <1>0, <1>3 DEF Reading, Taken, Busy, Wanted, Direct, Sound
  <2> QED BY <2>2, <2>3
<1>9. Answered'
  BY <1>0, <1>3 DEF Reading, Answered, ReadsRight, DestinationWhole, Closing, Busy, Wanted
<1>10. Settled'
  <2>1. owner.failed \/ ~Closing
    BY <1>0, QuietClosing
  <2> QED BY <1>0, <1>3, <1>4, <1>5, <2>1 DEF Reading, Settled, Busy, Wanted, Future, Closing
<1> QED BY <1>6, <1>7, <1>8, <1>9, <1>10 DEF Reading

\* Tasks that are kept: none is lost, renamed or brought back, and none comes to an end.
Kept == /\ Len(tasks') = Len(tasks) /\ DOMAIN tasks' = DOMAIN tasks
        /\ \A j \in DOMAIN tasks : /\ tasks'[j].blob = tasks[j].blob
                                   /\ Over(tasks[j]) => Over(tasks'[j])
                                   /\ tasks'[j].state \in {"done", "failed"} => tasks'[j] = tasks[j]

\* A read or an extraction ends, whatever its result.
LEMMA EndedReads ==
    ASSUME ReadInv, NEW r \in {"returned", "raised", "unwritten"}, Busy, Ended(r), Kept,
           UNCHANGED <<damaged, mapped>>, DestinationWhole',
           work'[Owner].pc = "idle", \A u \in Workers : work'[u] = work[u],
           r = "returned" => owner.got = Wanted /\ (~owner.failed => \A i \in DOMAIN tasks : Over(tasks[i])),
           r = "raised" => Needs(owner.member) \cap damaged # {}
    PROVE  Reading'
<1> USE PoolAssumption
<1>0. PoolInv /\ Reading /\ owner \in Owns
  BY DEF ReadInv, PoolInv, Shape
<1>1. /\ owner'.op = "none" /\ owner'.result = r /\ owner'.failed = (owner.failed \/ r # "returned")
      /\ owner'.member = owner.member /\ owner'.got = owner.got
  BY <1>0 DEF Ended, Owns
<1>2. ~Busy' /\ owner.member \in Members
  BY <1>0, <1>1 DEF Busy, PoolInv, Owning
<1>3. Errands'
  <2>1. ASSUME NEW u \in Workers, work'[u].pc # "idle"
        PROVE  Aim(u)' = tasks'[work'[u].task].blob
    <3>1. work[u].task \in DOMAIN tasks /\ Aim(u) = tasks[work[u].task].blob /\ work'[u] = work[u]
      BY <1>0, <2>1 DEF PoolInv, Serving, Served, Reading, Errands
    <3> QED BY <3>1 DEF Aim, Kept
  <2> QED BY <2>1 DEF Errands
<1>4. Outcomes'
  BY <1>0 DEF Reading, Outcomes, Sound, Kept
<1>5. Futures' /\ Taken'
  BY <1>2 DEF Futures, Taken
<1>6. Answered'
  <2>1. ReadsRight'
    BY <1>1 DEF ReadsRight, Wanted, Needs
  <2>2. mapped /\ ~Closing'
    BY <1>0, <1>1 DEF Reading, Answered, Closing, Busy
  <2> QED BY <1>1, <1>2, <2>1, <2>2 DEF Answered
<1>7. Settled'
  BY <1>0, <1>1, <1>2 DEF Settled, Kept
<1> QED BY <1>3, <1>4, <1>5, <1>6, <1>7 DEF Reading

\* What a chunk is damaged by, its member is.
LEMMA ChunkNeeded ==
    ASSUME PoolInv, NEW m \in Members, NEW k \in 1..Len(Chunks[m]), ~Sound(Chunks[m][k])
    PROVE  Needs(m) \cap damaged # {}
<1> USE PoolAssumption
<1>1. Chunks[m] \in Seq(Blobs) /\ k \in DOMAIN Chunks[m]
  OBVIOUS
<1>2. Chunks[m][k] \in ToSet(Chunks[m])
  BY <1>1 DEF ToSet
<1> QED BY <1>2 DEF Needs, Sound

\* One more chunk is taken: the next one.
LEMMA AppendReads ==
    ASSUME ReadInv, Busy, NextChunk <= Len(Wanted),
           owner' = [owner EXCEPT !.got = Append(@, Wanted[NextChunk])],
           Direct \/ Sound(Wanted[NextChunk]),
           UNCHANGED <<damaged, mapped, dest, tasks>>,
           work'[Owner].pc = "idle", \A u \in Workers : work'[u] = work[u],
           Pooled(owner.op, owner.member) /\ ~owner.failed => Over(tasks[Future])
    PROVE  Reading'
<1> USE PoolAssumption
<1>0. /\ PoolInv /\ Reading /\ owner \in Owns /\ owner.got \in Seq(Blobs) /\ owner.first \in Nat
      /\ owner.member \in Members /\ Wanted \in Seq(Blobs) /\ tasks \in Seq(Tasks)
  BY DEF ReadInv, PoolInv, Shape, Owns, Owning, Wanted
<1> DEFINE c == Wanted[NextChunk]
           n == Len(owner.got)
<1>1. n \in Nat /\ n = Len(owner.got) /\ NextChunk = n + 1 /\ n + 1 \in 1..Len(Wanted) /\ c \in Blobs
  BY <1>0 DEF NextChunk
<1>2. /\ owner'.op = owner.op /\ owner'.member = owner.member /\ owner'.first = owner.first
      /\ owner'.result = owner.result /\ owner'.failed = owner.failed
      /\ owner'.got = Append(owner.got, c)
  BY <1>0 DEF Owns
<1> HIDE DEF c, n
<1>3. /\ Len(owner'.got) = n + 1 /\ owner'.got[n + 1] = c
      /\ \A k \in 1..n : owner'.got[k] = owner.got[k]
  BY <1>0, <1>1, <1>2
<1>4. Errands'
  <2>1. ASSUME NEW u \in Workers, work'[u].pc # "idle"
        PROVE  Aim(u)' = tasks'[work'[u].task].blob
    BY <1>0, <2>1 DEF Reading, Errands, Aim
  <2> QED BY <2>1 DEF Errands
<1>5. Outcomes' /\ Futures'
  BY <1>0, <1>2 DEF Reading, Outcomes, Sound, Futures, Busy, Wanted
<1>6. Taken'
  <2>1. Len(owner'.got) <= Len(Wanted)
    BY <1>0, <1>1, <1>3
  <2>2. ASSUME NEW k \in 1..n + 1
        PROVE  owner'.got[k] = Wanted[k] /\ (~Direct => Sound(owner'.got[k]))
    <3>1. CASE k \in 1..n
      BY <1>0, <1>1, <1>3, <3>1 DEF Reading, Taken
    <3>2. CASE k = n + 1
      BY <1>1, <1>3, <3>2 DEF c
    <3> QED BY <1>1, <3>1, <3>2
  <2>3. Wanted' = Wanted /\ Direct' = Direct /\ \A b : Sound(b)' = Sound(b)
    BY <1>2 DEF Wanted, Direct, Sound
  <2> QED BY <1>3, <2>1, <2>2, <2>3 DEF Taken
<1>7. Answered'
  <2>1. owner.result = None
    BY <1>0 DEF Reading, Answered
  <2>2. ReadsRight'
    BY <1>2, <2>1 DEF ReadsRight, None
  <2> QED BY <1>0, <1>2, <2>1, <2>2 DEF Reading, Answered, Closing, DestinationWhole, Busy
<1>8. Settled'
  <2>1. Future' = Future + 1 /\ Future \in Nat
    <3>1. Future = owner.first + n /\ Future' = owner.first + Len(owner'.got)
      BY <1>1, <1>2 DEF Future
    <3>2. \A a, k \in Nat : a + (k + 1) = (a + k) + 1 /\ a + k \in Nat
      OBVIOUS
    <3> QED BY <1>0, <1>1, <1>3, <3>1, <3>2
  <2>2. \A i \in DOMAIN tasks : i < Future + 1 => i < Future \/ i = Future
    BY <1>0, <2>1
  <2>3. owner.op \in {"read", "extract"} /\ Busy' /\ Wanted' = Wanted
    BY <1>2 DEF Busy, Wanted
  <2> QED BY <1>0, <1>2, <2>1, <2>2, <2>3 DEF Reading, Settled
<1> QED BY <1>4, <1>5, <1>6, <1>7, <1>8 DEF Reading

\* A call of the owner ends: the chunk is taken, or the member is given up.
LEMMA OwnerReads ==
    ASSUME ReadInv, BlobStep(Owner), Gives(Owner) \/ Fails(Owner)
    PROVE  Reading'
<1> USE PoolAssumption
<1>0. /\ PoolInv /\ Reading /\ Owner \in Threads /\ Owner \notin Workers /\ work[Owner].pc # "idle"
      /\ UNCHANGED <<damaged, mapped, dest>>
      /\ \A u \in Workers : work'[u] = work[u]
  BY DEF ReadInv, BlobStep, Threads
<1>1. /\ Busy /\ ~Pooled(owner.op, owner.member) /\ owner.member \in Members
      /\ NextChunk <= Len(Wanted) /\ Aim(Owner) = Wanted[NextChunk]
  BY <1>0 DEF PoolInv, Owning, Reading, Errands
<1>2. work'[Owner] = Idle /\ UNCHANGED tasks
  <2>1. PICK ok \in BOOLEAN : Deliver(Owner, ok)
    BY DEF Gives, Fails
  <2> QED BY <1>0, <2>1, DeliverKeeps DEF Deliver
<1>3. CASE Gives(Owner)
  <2>1. owner' = [owner EXCEPT !.got = Append(@, Wanted[NextChunk])] /\ Sound(Wanted[NextChunk])
    BY <1>0, <1>1, <1>3 DEF Gives, Deliver
  <2> QED BY <1>0, <1>1, <1>2, <2>1, AppendReads DEF Idle
<1>4. CASE Fails(Owner)
  <2>1. Ended("raised") /\ (~Sound(Wanted[NextChunk]) \/ ~mapped)
    BY <1>0, <1>1, <1>4 DEF Fails, Deliver
  <2>2. mapped
    BY <1>0, <1>1 DEF Reading, Answered, Closing, Busy
  <2>3. NextChunk \in 1..Len(Chunks[owner.member])
    BY <1>0, <1>1 DEF NextChunk, Wanted, PoolInv, Shape, Owns
  <2>4. Needs(owner.member) \cap damaged # {}
    BY <1>0, <1>1, <2>1, <2>2, <2>3, ChunkNeeded DEF Wanted
  <2>5. DestinationWhole'
    BY <1>0 DEF Reading, Answered, DestinationWhole
  <2>6. Kept
    BY <1>2 DEF Kept
  <2> QED BY <1>0, <1>1, <1>2, <2>1, <2>4, <2>5, <2>6, EndedReads DEF Idle
<1> QED BY <1>3, <1>4

LEMMA BlobReads ==
    ASSUME ReadInv, NEW t \in Threads, Blob(t)
    PROVE  Checked' /\ Inside' /\ Reading'
<1>1. BlobStep(t)
  BY BlobSteps
<1>2. Checked'
  BY <1>1 DEF BlobStep
<1>3. Reading'
  BY <1>1, MovesRead, WorkerReads, OwnerReads DEF BlobStep, Threads
<1>4. Inside'
  <2>1. ASSUME NEW u \in Threads, u # t PROVE Passed(work[u])'
    <3>1. Passed(work[u]) /\ work'[u] = work[u] /\ UNCHANGED <<damaged, mapped>>
      BY <1>1, <2>1 DEF ReadInv, Inside, BlobStep
    <3>2. decoder => decoder'
      BY DEF Blob, Look, ReadMap, ZEnter, ZLook, ZDecode, ZLeave, Inflate, IEnter, ILeave, Check,
             Return, Raise, blobVars
    <3> QED BY <3>1, <3>2 DEF Passed
  <2> QED BY <1>1, <2>1 DEF Inside, BlobStep
<1> QED BY <1>2, <1>3, <1>4

-----------------------------------------------------------------------------
(* The pool and the owner.                                                 *)

\* Where no call moves and the decoders stay, calls have passed what they had.
LEMMA StillReads ==
    ASSUME ReadInv, UNCHANGED <<damaged, mapped, cache, decoder, inflater, work>>
    PROVE  Checked' /\ Inside'
BY DEF ReadInv, Checked, Inside, Passed, Sound

LEMMA RunTaskReads ==
    ASSUME ReadInv, NEW t \in Workers, RunTask(t)
    PROVE  Checked' /\ Inside' /\ Reading'
<1> USE PoolAssumption
<1>0. /\ PoolInv /\ Reading /\ t \in Threads /\ t # Owner
      /\ work \in [Threads -> Works] /\ tasks \in Seq(Tasks) /\ work[t].pc = "idle"
      /\ UNCHANGED <<damaged, mapped, cache, decoder, inflater, owner, temp, dest>>
  BY DEF ReadInv, PoolInv, Shape, RunTask, At, blobVars, ownVars, Threads
<1>1. PICK i \in DOMAIN tasks :
        /\ tasks[i].state = "pending"
        /\ tasks' = [tasks EXCEPT ![i].state = "running"]
        /\ work' = [work EXCEPT ![t] = Call(tasks[i].blob, i)]
  BY DEF RunTask
<1>2. /\ DOMAIN tasks' = DOMAIN tasks /\ Len(tasks') = Len(tasks)
      /\ tasks'[i].state = "running" /\ tasks'[i].blob = tasks[i].blob
      /\ \A j \in DOMAIN tasks : j # i => tasks'[j] = tasks[j]
  <2>1. tasks[i] \in Tasks
    BY <1>0
  <2> DEFINE k == [tasks[i] EXCEPT !.state = "running"]
  <2>2. k \in Tasks /\ k.state = "running" /\ k.blob = tasks[i].blob
    BY <2>1 DEF Tasks, States
  <2>3. tasks' = [tasks EXCEPT ![i] = k]
    BY <1>1
  <2> HIDE DEF k
  <2>4. /\ tasks' \in Seq(Tasks) /\ DOMAIN tasks' = DOMAIN tasks /\ Len(tasks') = Len(tasks)
        /\ tasks'[i] = k /\ \A j \in DOMAIN tasks : j # i => tasks'[j] = tasks[j]
    BY <1>0, <2>2, <2>3
  <2> QED BY <2>2, <2>4
<1>3. \A j \in DOMAIN tasks : /\ tasks'[j].blob = tasks[j].blob
                              /\ Over(tasks[j]) => Over(tasks'[j])
  BY <1>1, <1>2 DEF Over
<1>4. /\ work'[t].pc = "look" /\ work'[t].blob = tasks[i].blob
      /\ work'[t].outer = None /\ work'[t].task = i
      /\ \A u \in Threads : u # t => work'[u] = work[u]
  BY <1>0, <1>1 DEF Call
<1>5. Checked' /\ Inside'
  <2>1. ASSUME NEW u \in Threads PROVE Passed(work[u])'
    <3>1. u # t => Passed(work[u])
      BY DEF ReadInv, Inside
    <3> QED BY <1>0, <1>4, <3>1 DEF Passed
  <2> QED BY <1>0, <2>1 DEF ReadInv, Checked, Sound, Inside
<1>6. Errands'
  <2>1. ASSUME NEW u \in Workers, work'[u].pc # "idle"
        PROVE  Aim(u)' = tasks'[work'[u].task].blob
    <3>1. CASE u = t
      BY <1>2, <1>4, <3>1 DEF Aim
    <3>2. CASE u # t
      <4>1. work'[u] = work[u]
        BY <1>4, <3>2 DEF Threads
      <4>2. work[u].task \in DOMAIN tasks /\ Aim(u) = tasks[work[u].task].blob
        BY <1>0, <2>1, <4>1 DEF PoolInv, Serving, Served, Reading, Errands
      <4> QED BY <1>3, <4>1, <4>2 DEF Aim
    <3> QED BY <3>1, <3>2
  <2>2. work'[Owner] = work[Owner]
    BY <1>0, <1>4 DEF Threads
  <2> QED BY <1>0, <2>1, <2>2 DEF Reading, Errands, NextChunk, Wanted, Aim
<1>7. Outcomes'
  BY <1>0, <1>2 DEF Reading, Outcomes, Sound
<1>8. Futures' /\ Taken'
  <2>1. Busy /\ Pooled(owner.op, owner.member) =>
           \A k \in 1..Len(Wanted) : owner.first + k - 1 \in DOMAIN tasks
    BY <1>0 DEF PoolInv, Shape, Owns, Owning, Wanted
  <2>2. Futures'
    BY <1>0, <1>3, <2>1 DEF Reading, Futures, Busy, Wanted
  <2>3. Taken'
    BY <1>0 DEF Reading, Taken, Busy, Wanted, Direct, Sound
  <2> QED BY <2>2, <2>3
<1>9. Answered'
  BY <1>0 DEF Reading, Answered, ReadsRight, DestinationWhole, Closing, Busy, Wanted
<1>10. Settled'
  BY <1>0, <1>2, <1>3 DEF Reading, Settled, Busy, Wanted, Future
<1> QED BY <1>5, <1>6, <1>7, <1>8, <1>9, <1>10 DEF Reading

LEMMA CancelledKept ==
    ASSUME PoolInv, NEW n \in Nat, tasks' = Cancelled(tasks, n)
    PROVE  Kept
<1>0. tasks \in Seq(Tasks)
  BY DEF PoolInv, Shape
<1>1. DOMAIN tasks' = DOMAIN tasks
  BY DEF Cancelled
<1>2. Len(tasks') = Len(tasks)
  BY <1>0 DEF Cancelled
<1>3. ASSUME NEW j \in DOMAIN tasks
      PROVE  /\ tasks'[j].blob = tasks[j].blob /\ (Over(tasks[j]) => Over(tasks'[j]))
             /\ tasks'[j].state \in {"done", "failed"} => tasks'[j] = tasks[j]
  <2>1. tasks[j] \in Tasks
    BY <1>0
  <2>2. tasks'[j] = tasks[j] \/ (tasks[j].state = "pending" /\ tasks'[j] = [tasks[j] EXCEPT !.state = "cancelled"])
    BY DEF Cancelled
  <2> QED BY <2>1, <2>2 DEF Tasks, Over
<1> QED BY <1>1, <1>2, <1>3 DEF Kept

LEMMA TakeReads ==
    ASSUME ReadInv, Take
    PROVE  Checked' /\ Inside' /\ Reading'
<1> USE PoolAssumption
<1>0. /\ PoolInv /\ Reading /\ owner \in Owns /\ owner.first \in Nat /\ owner.got \in Seq(Blobs)
      /\ Busy /\ Pooled(owner.op, owner.member) /\ NextChunk <= Len(Wanted)
      /\ owner.member \in Members /\ Wanted \in Seq(Blobs) /\ tasks \in Seq(Tasks)
      /\ UNCHANGED <<damaged, mapped, cache, decoder, inflater, work, dest>>
  BY DEF ReadInv, PoolInv, Shape, Owns, Owning, Take, Wanted, blobVars
<1>1. Checked' /\ Inside'
  BY <1>0, StillReads
<1>2. /\ NextChunk \in 1..Len(Wanted) /\ Future = owner.first + NextChunk - 1
      /\ Future \in DOMAIN tasks /\ Future \in Nat
  <2>1. PICK n \in Nat : n = Len(owner.got)
    BY <1>0
  <2>2. NextChunk = n + 1 /\ Future = owner.first + n /\ NextChunk <= Len(Wanted)
    BY <1>0, <2>1 DEF NextChunk, Future
  <2>3. owner.first # 0 /\ owner.first + Len(Wanted) <= Len(tasks) + 1
    BY <1>0 DEF PoolInv, Owning
  <2>4. PICK l, m \in Nat : l = Len(Wanted) /\ m = Len(tasks) /\ DOMAIN tasks = 1..m
    BY <1>0
  <2>5. PICK f \in Nat : f = owner.first
    BY <1>0
  <2>6. /\ n + 1 <= l /\ f # 0 /\ f + l <= m + 1
        /\ NextChunk = n + 1 /\ Future = f + n
    BY <2>2, <2>3, <2>4, <2>5
  <2>7. n + 1 \in 1..l /\ f + n = f + (n + 1) - 1 /\ f + n \in 1..m
    BY <2>6
  <2> QED BY <2>4, <2>5, <2>6, <2>7
<1>3. tasks[Future].blob = Wanted[NextChunk]
  BY <1>0, <1>2 DEF Reading, Futures
<1>4. work[Owner].pc = "idle" /\ work'[Owner].pc = "idle"
  BY <1>0 DEF PoolInv, Owning
<1>5. CASE /\ tasks[Future].state = "done" /\ UNCHANGED tasks
           /\ owner' = [owner EXCEPT !.got = Append(@, tasks[Future].blob)]
  <2>1. Sound(Wanted[NextChunk]) /\ Over(tasks[Future])
    BY <1>0, <1>2, <1>3, <1>5 DEF Reading, Outcomes, Over
  <2> QED BY <1>0, <1>1, <1>3, <1>4, <1>5, <2>1, AppendReads
<1>6. CASE /\ tasks[Future].state = "failed" /\ Ended("raised")
           /\ tasks' = Cancelled(tasks, Future)
  <2>1. mapped
    BY <1>0 DEF Reading, Answered, Closing, Busy
  <2>2. ~Sound(Wanted[NextChunk])
    BY <1>0, <1>2, <1>3, <1>6, <2>1 DEF Reading, Outcomes
  <2>3. Needs(owner.member) \cap damaged # {}
    BY <1>0, <1>2, <2>2, ChunkNeeded DEF Wanted
  <2>4. Kept
    BY <1>0, <1>2, <1>6, CancelledKept
  <2>5. DestinationWhole'
    BY <1>0 DEF Reading, Answered, DestinationWhole
  <2> QED BY <1>0, <1>1, <1>4, <1>6, <2>3, <2>4, <2>5, EndedReads
<1> QED BY <1>5, <1>6 DEF Take

LEMMA CallBlobReads ==
    ASSUME ReadInv, CallBlob
    PROVE  Checked' /\ Inside' /\ Reading'
<1> USE PoolAssumption
<1>0. /\ PoolInv /\ Reading /\ work \in [Threads -> Works]
      /\ Busy /\ ~Pooled(owner.op, owner.member) /\ NextChunk <= Len(Wanted)
      /\ work[Owner].pc = "idle" /\ Owner \in Threads /\ Owner \notin Workers
      /\ UNCHANGED <<damaged, mapped, cache, decoder, inflater, tasks, dest>>
  BY DEF ReadInv, PoolInv, Shape, CallBlob, At, Threads, blobVars
<1>1. CASE /\ owner' = [owner EXCEPT !.got = Append(@, Wanted[NextChunk])]
           /\ UNCHANGED work /\ Direct
  BY <1>0, <1>1, StillReads, AppendReads
<1>2. CASE work' = [work EXCEPT ![Owner] = Call(Wanted[NextChunk], 0)] /\ UNCHANGED owner
  <2>1. /\ work'[Owner].pc = "look" /\ work'[Owner].blob = Wanted[NextChunk]
        /\ work'[Owner].outer = None
        /\ \A u \in Threads : u # Owner => work'[u] = work[u]
    BY <1>0, <1>2 DEF Call
  <2>2. \A u \in Workers : work'[u] = work[u]
    BY <1>0, <2>1 DEF Threads
  <2>3. Checked' /\ Inside'
    <3>1. ASSUME NEW u \in Threads PROVE Passed(work[u])'
      <4>1. u # Owner => Passed(work[u])
        BY DEF ReadInv, Inside
      <4> QED BY <1>0, <2>1, <4>1 DEF Passed
    <3> QED BY <1>0, <3>1 DEF ReadInv, Checked, Sound, Inside
  <2>4. Errands'
    <3>1. \A u \in Workers : work'[u].pc # "idle" => Aim(u)' = tasks'[work'[u].task].blob
      BY <1>0, <2>2 DEF Reading, Errands, Aim
    <3>2. NextChunk' <= Len(Wanted') /\ Aim(Owner)' = Wanted'[NextChunk']
      BY <1>0, <1>2, <2>1 DEF NextChunk, Wanted, Aim
    <3> QED BY <3>1, <3>2 DEF Errands
  <2>5. Outcomes' /\ Futures' /\ Taken'
    BY <1>0, <1>2 DEF Reading, Outcomes, Sound, Futures, Busy, Wanted, Taken, Direct
  <2>6. Answered' /\ Settled'
    BY <1>0, <1>2 DEF Reading, Answered, ReadsRight, DestinationWhole, Closing, Settled, Busy, Wanted, Future
  <2> QED BY <2>3, <2>4, <2>5, <2>6 DEF Reading
<1> QED BY <1>1, <1>2 DEF CallBlob, Direct

\* What Start submits: a pending task for each chunk, behind those that are there.
LEMMA Submitted ==
    ASSUME PoolInv, NEW op \in {"read", "extract"}, NEW m \in Members, Start(op, m)
    PROVE  /\ \A i \in DOMAIN tasks : i \in DOMAIN tasks' /\ tasks'[i] = tasks[i]
           /\ \A i \in DOMAIN tasks' \ DOMAIN tasks : tasks'[i].state = "pending"
           /\ ~Pooled(op, m) => tasks' = tasks
           /\ Pooled(op, m) =>
                 /\ Len(tasks') = Len(tasks) + Len(Chunks[m])
                 /\ \A k \in 1..Len(Chunks[m]) : tasks'[Len(tasks) + k].blob = Chunks[m][k]
<1> USE PoolAssumption
<1>0. tasks \in Seq(Tasks) /\ Chunks[m] \in Seq(Blobs)
  BY DEF PoolInv, Shape
<1>1. PICK n, l \in Nat : /\ n = Len(tasks) /\ DOMAIN tasks = 1..n
                          /\ l = Len(Chunks[m]) /\ DOMAIN Chunks[m] = 1..l
  BY <1>0
<1> DEFINE new == [i \in DOMAIN Chunks[m] |-> [blob |-> Chunks[m][i], state |-> "pending"]]
<1>2. new \in Seq(Tasks) /\ Len(new) = l
  <2>1. \A i \in 1..l : [blob |-> Chunks[m][i], state |-> "pending"] \in Tasks
    BY <1>0, <1>1 DEF Tasks, States
  <2>2. new \in [1..l -> Tasks]
    BY <1>1, <2>1
  <2> QED BY <2>2
<1>3. \A i \in 1..l : new[i].state = "pending" /\ new[i].blob = Chunks[m][i]
  BY <1>1
<1>4. tasks' = IF Pooled(op, m) THEN tasks \o new ELSE tasks
  BY DEF Start
<1> HIDE DEF new
<1>5. CASE Pooled(op, m)
  <2>1. PICK s : s = tasks \o new
    OBVIOUS
  <2>2. /\ s \in Seq(Tasks) /\ Len(s) = n + l /\ DOMAIN s = 1..n + l
        /\ \A i \in 1..n + l : s[i] = IF i <= n THEN tasks[i] ELSE new[i - n]
    <3>1. s \in Seq(Tasks) /\ Len(s) = n + l
      BY <1>0, <1>1, <1>2, <2>1
    <3>2. ASSUME NEW i \in 1..n + l
          PROVE  (tasks \o new)[i] = IF i <= n THEN tasks[i] ELSE new[i - n]
      BY <1>0, <1>1, <1>2
    <3>3. DOMAIN s = 1..n + l
      BY <3>1
    <3> QED BY <2>1, <3>1, <3>2, <3>3
  <2>3. tasks' = s
    BY <1>4, <1>5, <2>1
  <2>4. \A i \in 1..n : i \in 1..n + l /\ i <= n
    OBVIOUS
  <2>5. \A i \in (1..n + l) \ (1..n) : ~(i <= n) /\ i - n \in 1..l
    OBVIOUS
  <2>6. \A k \in 1..l : n + k \in 1..n + l /\ ~(n + k <= n) /\ (n + k) - n = k
    OBVIOUS
  <2>7. \A i \in DOMAIN tasks : i \in DOMAIN s /\ s[i] = tasks[i]
    BY <1>1, <2>2, <2>4
  <2>8. \A i \in DOMAIN s \ DOMAIN tasks : s[i].state = "pending"
    BY <1>1, <1>3, <2>2, <2>5
  <2>9. \A k \in 1..l : s[n + k].blob = Chunks[m][k]
    BY <1>3, <2>2, <2>6
  <2> QED BY <1>1, <1>5, <2>2, <2>3, <2>7, <2>8, <2>9
<1>6. CASE ~Pooled(op, m)
  BY <1>4, <1>6
<1> QED BY <1>5, <1>6

LEMMA StartReads ==
    ASSUME ReadInv, NEW op \in {"read", "extract"}, NEW m \in Members, Start(op, m)
    PROVE  Checked' /\ Inside' /\ Reading'
<1> USE PoolAssumption
<1>0. /\ PoolInv /\ Reading /\ owner \in Owns /\ owner.op = "none"
      /\ tasks \in Seq(Tasks) /\ Chunks[m] \in Seq(Blobs)
      /\ UNCHANGED <<damaged, mapped, cache, decoder, inflater, work, dest>>
  BY DEF ReadInv, PoolInv, Shape, Start, blobVars
<1>1. /\ owner'.op = op /\ owner'.member = m /\ owner'.got = << >>
      /\ owner'.first = Len(tasks) + 1 /\ owner'.result = None /\ owner'.failed = owner.failed
  BY <1>0 DEF Start, Owns
<1>2. /\ \A i \in DOMAIN tasks : i \in DOMAIN tasks' /\ tasks'[i] = tasks[i]
      /\ \A i \in DOMAIN tasks' \ DOMAIN tasks : tasks'[i].state = "pending"
      /\ ~Pooled(op, m) => tasks' = tasks
      /\ Pooled(op, m) =>
            /\ Len(tasks') = Len(tasks) + Len(Chunks[m])
            /\ \A k \in 1..Len(Chunks[m]) : tasks'[Len(tasks) + k].blob = Chunks[m][k]
  BY <1>0, Submitted
<1>3. Busy' /\ Wanted' = Chunks[m] /\ work'[Owner].pc = "idle"
  BY <1>0, <1>1 DEF Busy, Wanted, PoolInv, Owning
<1>4. PICK n, l \in Nat : n = Len(tasks) /\ l = Len(Chunks[m]) /\ DOMAIN tasks = 1..n
  BY <1>0
<1>5. Checked' /\ Inside'
  BY <1>0, StillReads
<1>6. Errands'
  <2>1. ASSUME NEW u \in Workers, work'[u].pc # "idle"
        PROVE  Aim(u)' = tasks'[work'[u].task].blob
    <3>1. work[u].task \in DOMAIN tasks /\ Aim(u) = tasks[work[u].task].blob
      BY <1>0, <2>1 DEF PoolInv, Serving, Served, Reading, Errands
    <3> QED BY <1>0, <1>2, <3>1 DEF Aim
  <2> QED BY <1>3, <2>1 DEF Errands
<1>7. Outcomes'
  <2>1. ASSUME NEW i \in DOMAIN tasks'
        PROVE  /\ tasks'[i].state = "done" => Sound(tasks'[i].blob)
               /\ tasks'[i].state = "failed" => ~Sound(tasks'[i].blob) \/ ~mapped
    <3>1. CASE i \in DOMAIN tasks
      BY <1>0, <1>2, <3>1 DEF Reading, Outcomes
    <3>2. CASE i \notin DOMAIN tasks
      BY <1>2, <3>2
    <3> QED BY <3>1, <3>2
  <2> QED BY <1>0, <2>1 DEF Outcomes, Sound
<1>8. Futures'
  <2>1. SUFFICES ASSUME Pooled(op, m), NEW k \in 1..l
                 PROVE  tasks'[owner'.first + k - 1].blob = Chunks[m][k]
    BY <1>1, <1>3, <1>4 DEF Futures, Pooled, RawDirect
  <2>2. (n + 1) + k - 1 = n + k
    OBVIOUS
  <2> QED BY <1>1, <1>2, <1>4, <2>1, <2>2
<1>9. Taken'
  <2>1. Len(owner'.got) = 0
    BY <1>1
  <2> QED BY <1>3, <1>4, <2>1 DEF Taken
<1>10. Answered'
  <2>1. ReadsRight'
    BY <1>1 DEF ReadsRight, None
  <2> QED BY <1>0, <1>1, <2>1 DEF Reading, Answered, DestinationWhole, Closing
<1>11. Settled'
  <2>1. SUFFICES ASSUME ~owner.failed
                 PROVE  /\ ~Pooled(op, m) => \A i \in DOMAIN tasks' : Over(tasks'[i])
                        /\ Pooled(op, m) =>
                              /\ Len(tasks') < owner'.first + Len(Chunks[m])
                              /\ \A i \in DOMAIN tasks' : i < Future' => Over(tasks'[i])
    BY <1>1, <1>3 DEF Settled, Pooled, RawDirect
  <2>2. \A i \in DOMAIN tasks : Over(tasks[i])
    BY <1>0, <2>1 DEF Reading, Settled, Busy
  <2>3. CASE ~Pooled(op, m)
    BY <1>2, <2>2, <2>3
  <2>4. CASE Pooled(op, m)
    <3>1. Len(tasks') = n + l /\ owner'.first = n + 1 /\ Future' = n + 1
      BY <1>1, <1>2, <1>4, <2>4 DEF Future
    <3>2. tasks' \in Seq(Tasks)
      BY StartKeeps DEF ReadInv, PoolInv, Shape
    <3>3. \A i \in DOMAIN tasks' : i < n + 1 => i \in 1..n
      BY <3>2
    <3>4. n + l < n + 1 + l
      OBVIOUS
    <3> QED BY <1>2, <1>4, <2>2, <2>4, <3>1, <3>3, <3>4
  <2> QED BY <2>3, <2>4
<1> QED BY <1>5, <1>6, <1>7, <1>8, <1>9, <1>10, <1>11 DEF Reading

LEMMA WriteFailsReads ==
    ASSUME ReadInv, WriteFails
    PROVE  Checked' /\ Inside' /\ Reading'
<1>0. /\ PoolInv /\ Reading /\ tasks \in Seq(Tasks)
      /\ Busy /\ Ended("unwritten") /\ work'[Owner].pc = "idle"
      /\ UNCHANGED <<damaged, mapped, cache, decoder, inflater, work, tasks, dest>>
  BY DEF ReadInv, PoolInv, Shape, WriteFails, At, Busy, blobVars
<1>1. Kept
  BY <1>0 DEF Kept
<1>2. DestinationWhole'
  BY <1>0 DEF Reading, Answered, DestinationWhole
<1>3. \A u \in Workers : work'[u] = work[u]
  BY <1>0
<1> QED BY <1>0, <1>1, <1>2, <1>3, StillReads, EndedReads

\* Everything that was wanted is there: what was taken is the member.
LEMMA FinishReads ==
    ASSUME ReadInv, Finish
    PROVE  Checked' /\ Inside' /\ Reading'
<1> USE PoolAssumption
<1>0. /\ PoolInv /\ Reading /\ tasks \in Seq(Tasks) /\ owner \in Owns /\ owner.got \in Seq(Blobs)
      /\ Busy /\ Len(owner.got) = Len(Wanted) /\ work'[Owner].pc = "idle"
      /\ owner.member \in Members /\ Wanted \in Seq(Blobs) /\ owner.first \in Nat
      /\ dest \in [Members -> {"old", "whole"}]
      /\ UNCHANGED <<damaged, mapped, cache, decoder, inflater, work, tasks>>
  BY DEF ReadInv, PoolInv, Shape, Owns, Owning, Wanted, Finish, At, blobVars
<1>1. Checked' /\ Inside'
  BY <1>0, StillReads
<1>2. Kept /\ \A u \in Workers : work'[u] = work[u]
  BY <1>0 DEF Kept
<1>3. owner.got = Wanted
  <2>0. /\ owner.got \in [1..Len(owner.got) -> Blobs] /\ Len(Wanted) \in Nat
        /\ Wanted \in [1..Len(Wanted) -> Blobs]
    BY <1>0, LenProperties
  <2>1. PICK n \in Nat : /\ n = Len(Wanted) /\ n = Len(owner.got)
                         /\ owner.got \in [1..n -> Blobs] /\ Wanted \in [1..n -> Blobs]
    BY <1>0, <2>0
  <2>2. \A k \in 1..n : owner.got[k] = Wanted[k]
    BY <1>0, <2>1 DEF Reading, Taken
  <2> QED BY <1>0, <2>1, <2>2
<1>4. CASE ToSet(owner.got) \cap damaged = {}
  <2>1. Ended("returned") /\ dest' = IF owner.op = "extract" THEN [dest EXCEPT ![owner.member] = "whole"]
                                     ELSE dest
    BY <1>3, <1>4 DEF Finish
  <2>2. ~owner.failed => \A i \in DOMAIN tasks : Over(tasks[i])
    <3>1. SUFFICES ASSUME ~owner.failed, Pooled(owner.op, owner.member), NEW i \in DOMAIN tasks
                   PROVE  Over(tasks[i])
      BY <1>0 DEF Reading, Settled
    <3>2. Len(tasks) < owner.first + Len(Wanted) /\ Future = owner.first + Len(Wanted)
      BY <1>0, <3>1 DEF Reading, Settled, Future
    <3>3. PICK k, f \in Nat : k = Len(tasks) /\ f = Future /\ DOMAIN tasks = 1..k
      BY <1>0, <3>2
    <3>4. i < f
      BY <3>1, <3>2, <3>3
    <3> QED BY <1>0, <3>1, <3>3, <3>4 DEF Reading, Settled
  <2>3. owner.op = "extract" => Needs(owner.member) \cap damaged = {}
    <3>1. SUFFICES ASSUME owner.op = "extract", DictBlob \in damaged,
                          NEW b \in ToSet(Wanted), Codec[b] = "dict"
                   PROVE  FALSE
      BY <1>3, <1>4 DEF Needs, Wanted
    <3>2. PICK k \in DOMAIN Wanted : b = Wanted[k]
      BY <3>1 DEF ToSet
    <3>3. ~Direct
      BY <3>1, <3>2 DEF Direct, RawDirect, Wanted
    <3>4. Sound(owner.got[k])
      BY <1>0, <3>2, <3>3 DEF Reading, Taken
    <3> QED BY <1>3, <3>1, <3>2, <3>4 DEF Sound
  <2>4. DestinationWhole'
    <3>1. ASSUME NEW m \in Members
          PROVE  dest'[m] # "wrong" /\ (dest'[m] = "whole" => Needs(m) \cap damaged = {})
      BY <1>0, <2>1, <2>3 DEF Reading, Answered, DestinationWhole
    <3> QED BY <1>0, <3>1 DEF DestinationWhole
  <2> QED BY <1>0, <1>1, <1>2, <1>3, <2>1, <2>2, <2>4, EndedReads
<1>5. CASE ToSet(owner.got) \cap damaged # {}
  <2>1. Ended("raised") /\ UNCHANGED dest
    BY <1>5 DEF Finish
  <2>2. Needs(owner.member) \cap damaged # {}
    BY <1>3, <1>5 DEF Needs, Wanted
  <2>3. DestinationWhole'
    BY <1>0, <2>1 DEF Reading, Answered, DestinationWhole
  <2> QED BY <1>0, <1>1, <1>2, <2>1, <2>2, <2>3, EndedReads
<1> QED BY <1>4, <1>5

LEMMA ForgetReads ==
    ASSUME ReadInv, Forget
    PROVE  Checked' /\ Inside' /\ Reading'
<1>0. /\ PoolInv /\ Reading /\ owner \in Owns /\ owner.first \in Nat /\ ~Busy
      /\ tasks' = Cancelled(tasks, owner.first)
      /\ UNCHANGED <<damaged, mapped, cache, decoder, inflater, work, owner, dest>>
  BY DEF ReadInv, PoolInv, Shape, Owns, Forget, Busy, blobVars, ownVars
<1>1. Checked' /\ Inside'
  BY <1>0, StillReads
<1>2. Kept
  BY <1>0, CancelledKept
<1>3. Errands'
  <2>1. ASSUME NEW u \in Workers, work'[u].pc # "idle"
        PROVE  Aim(u)' = tasks'[work'[u].task].blob
    <3>1. work[u].task \in DOMAIN tasks /\ Aim(u) = tasks[work[u].task].blob
      BY <1>0, <2>1 DEF PoolInv, Serving, Served, Reading, Errands
    <3> QED BY <1>0, <1>2, <3>1 DEF Aim, Kept
  <2>2. work'[Owner].pc = "idle"
    BY <1>0 DEF PoolInv, Owning
  <2> QED BY <2>1, <2>2 DEF Errands
<1>4. Outcomes'
  BY <1>0, <1>2 DEF Reading, Outcomes, Sound, Kept
<1>5. Futures' /\ Taken'
  BY <1>0 DEF Futures, Taken, Busy
<1>6. Answered'
  BY <1>0 DEF Reading, Answered, ReadsRight, DestinationWhole, Closing, Busy, Wanted
<1>7. Settled'
  BY <1>0, <1>2 DEF Reading, Settled, Kept, Busy
<1> QED BY <1>1, <1>3, <1>4, <1>5, <1>6, <1>7 DEF Reading

\* The steps of close().
LEMMA CloseReads ==
    ASSUME ReadInv, Close \/ CloseDict \/ CloseInflate \/ CloseJoin
    PROVE  Checked' /\ Inside' /\ Reading'
<1>0. /\ PoolInv /\ Checked /\ Inside /\ Reading /\ owner \in Owns /\ ~Busy
      /\ UNCHANGED <<damaged, cache, work, tasks, dest>>
  BY DEF ReadInv, PoolInv, Shape, Close, CloseDict, CloseInflate, CloseJoin, Busy, blobVars
<1>1. PICK op \in {"close_dict", "close_inflate", "close_join", "closed"} :
        /\ owner' = [owner EXCEPT !.op = op] /\ ~mapped'
        /\ decoder' = (IF op = "close_inflate" THEN FALSE ELSE decoder)
        /\ inflater' = (IF op = "close_join" THEN FALSE ELSE inflater)
        /\ op = "close_join" => owner.op = "close_inflate"
        /\ op = "closed" => owner.op = "close_join"
  <2>1. ASSUME Close
        PROVE  owner' = [owner EXCEPT !.op = "close_dict"] /\ ~mapped' /\ UNCHANGED <<decoder, inflater>>
    BY <2>1 DEF Close, blobVars
  <2>2. Close \/ (~mapped /\ UNCHANGED mapped)
    BY <1>0 DEF Reading, Answered, Closing, CloseDict, CloseInflate, CloseJoin
  <2>3. CASE Close
    BY <2>1, <2>3
  <2>4. CASE CloseDict
    BY <1>0, <2>2, <2>4 DEF CloseDict, Close
  <2>5. CASE CloseInflate
    BY <1>0, <2>2, <2>5 DEF CloseInflate, Close
  <2>6. CASE CloseJoin
    BY <1>0, <2>2, <2>6 DEF CloseJoin, Close, blobVars
  <2> QED BY <2>3, <2>4, <2>5, <2>6
<1>2. /\ owner'.op = op /\ owner'.member = owner.member /\ owner'.got = owner.got
      /\ owner'.result = owner.result /\ owner'.failed = owner.failed
  BY <1>0, <1>1 DEF Owns
<1>3. ~Busy'
  BY <1>2 DEF Busy
<1>4. Checked' /\ Inside'
  <2>1. Checked'
    BY <1>0, <1>1 DEF Checked, Sound
  <2>2. \A u \in Threads : Passed(work[u])'
    BY <1>0, <1>1 DEF Inside, Passed
  <2> QED BY <2>1, <2>2 DEF Inside
<1>5. Errands'
  <2>1. work'[Owner].pc = "idle"
    BY <1>0 DEF PoolInv, Owning
  <2> QED BY <1>0, <2>1 DEF Reading, Errands, Aim
<1>6. Outcomes' /\ Futures' /\ Taken'
  BY <1>0, <1>1, <1>3 DEF Reading, Outcomes, Sound, Futures, Taken
<1>7. Answered'
  <2>1. ReadsRight'
    BY <1>0, <1>2 DEF Reading, Answered, ReadsRight, Wanted
  <2>2. DestinationWhole'
    BY <1>0 DEF Reading, Answered, DestinationWhole
  <2>3. Closing'
    BY <1>2 DEF Closing
  <2> QED BY <1>0, <1>1, <1>2, <1>3, <2>1, <2>2, <2>3 DEF Reading, Answered
<1>8. Settled'
  BY <1>0, <1>1, <1>2, <1>3 DEF Reading, Settled
<1> QED BY <1>4, <1>5, <1>6, <1>7, <1>8 DEF Reading

LEMMA InitReads == Init => ReadInv
<1> SUFFICES ASSUME Init PROVE ReadInv
  OBVIOUS
<1> USE PoolAssumption
<1>1. PoolInv
  BY InitPool
<1>2. \A t \in Threads : work[t] = Idle
  BY DEF Init
<1>3. Checked /\ Inside
  BY <1>2 DEF Init, Checked, Inside, Passed, Idle
<1>4. Errands
  BY <1>2 DEF Errands, Idle, Threads
<1>5. Outcomes /\ Futures /\ Taken /\ Settled
  BY DEF Init, Outcomes, Futures, Taken, Settled, Busy
<1>6. Answered
  BY DEF Init, Answered, ReadsRight, DestinationWhole, Closing, Busy, None
<1> QED BY <1>1, <1>3, <1>4, <1>5, <1>6 DEF ReadInv, Reading

-----------------------------------------------------------------------------
(* What follows.                                                           *)

\* The invariant of the reads holds of every behaviour.
THEOREM ReadInvariance == Spec => []ReadInv
<1>1. ReadInv /\ PoolInv' /\ [Next]_vars => ReadInv'
  <2> SUFFICES ASSUME ReadInv, PoolInv', [Next]_vars PROVE Checked' /\ Inside' /\ Reading'
    BY DEF ReadInv
  <2>1. CASE UNCHANGED vars
    <3>1. Checked' /\ Inside'
      BY <2>1, StillReads DEF vars, blobVars
    <3>2. Reading'
      BY <2>1 DEF ReadInv, Reading, vars, blobVars, ownVars, Errands, Aim, Outcomes, Sound, Futures,
                  Taken, Direct, Answered, ReadsRight, DestinationWhole, Closing, Settled, Busy,
                  Wanted, NextChunk, Future
    <3> QED BY <3>1, <3>2
  <2>2. CASE Next
    BY <2>2, BlobReads, RunTaskReads, StartReads, TakeReads, CallBlobReads, WriteFailsReads,
       FinishReads, ForgetReads, CloseReads DEF Next, OwnerStep
  <2> QED BY <2>1, <2>2
<1> QED BY <1>1, InitReads, PoolInvariance, PTL DEF Spec

\* However the tasks of this and of abandoned reads interleave, a read that returns gives
\* the member's chunks in order, and one that raises met damage in a chunk or in the
\* dictionary a chunk needs (reader.py:188-199, 317-359).
THEOREM ReadsAreRight == Spec => []ReadsRight
<1>1. ReadInv => ReadsRight
  BY DEF ReadInv, Reading, Answered
<1> QED BY <1>1, ReadInvariance, PTL

\* A destination is replaced only by an undamaged member: "a damaged archive cannot
\* truncate a pre-existing destination" (reader.py:305-306).
THEOREM DestinationsAreWhole == Spec => []DestinationWhole
<1>1. ReadInv => DestinationWhole
  BY DEF ReadInv, Reading, Answered
<1> QED BY <1>1, ReadInvariance, PTL

\* Where every read went through, close() frees no decoder under a thread that is in it,
\* and none is made anew after it (reader.py:41-46).
THEOREM CloseIsClean == Spec => []CleanClose
<1>1. ReadInv => CleanClose
  <2> SUFFICES ASSUME ReadInv, ~owner.failed
               PROVE  /\ \A t \in Threads : /\ At(t, "native_dict") => decoder
                                            /\ At(t, "native_inflate") => inflater
                                            /\ ~mapped => At(t, "idle")
                      /\ owner.op = "closed" => ~decoder /\ ~inflater
    BY DEF CleanClose
  <2>1. ~mapped => \A t \in Threads : At(t, "idle")
    BY QuietClosing DEF ReadInv, Reading, Answered, At
  <2>2. ASSUME NEW t \in Threads
        PROVE  /\ At(t, "native_dict") => decoder
               /\ At(t, "native_inflate") => inflater
    BY <2>1 DEF ReadInv, Inside, Passed, Checked, At
  <2>3. owner.op = "closed" => ~decoder /\ ~inflater
    BY DEF ReadInv, Reading, Settled
  <2> QED BY <2>1, <2>2, <2>3
<1> QED BY <1>1, ReadInvariance, PTL
=============================================================================
