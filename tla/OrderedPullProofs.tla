------------------------- MODULE OrderedPullProofs -------------------------
(***************************************************************************)
(* Proofs about OrderedPull for every number of items and workers: under   *)
(* any interleaving the call ends as the serial loop does, no item is      *)
(* called twice, and a recorded failure closes the claim gate.             *)
(***************************************************************************)
EXTENDS OrderedPull, Extrema, TLAPS

-----------------------------------------------------------------------------
(* What is invariant under every step.                                     *)

\* Exactly the tasks inside a critical section hold the lock.
LockHeld == \A t \in Tasks : pc[t] \in {"gate", "claim", "record", "close"} <=> lock = t

\* A task about to claim still sees the counter it read, and an open gate.
ClaimFresh ==
    \A t \in Tasks : pc[t] = "claim" =>
        /\ index[t] = next_index /\ next_index < Count
        /\ failures = {}

\* A failure is on record exactly when the gate is closed or being closed.
GateClosed == /\ failures # {} => abort \/ \E t \in Tasks : pc[t] = "close"
              /\ abort => failures # {} /\ \E t \in Tasks : pc[t] = "ended"
              /\ \A t \in Tasks : pc[t] = "close" => failures # {}

\* Every claimed item is published, on record as failed, or held by a task.
Accounted ==
    /\ \A i \in Indices : i < next_index =>
          \/ results[i] = Result(i)
          \/ i \in failures
          \/ \E t \in Busy : index[t] = i
    /\ \A i \in Indices : results[i] # Empty => results[i] = Result(i) /\ i \notin failing
    /\ \A i \in Indices : i >= next_index => results[i] = Empty
    /\ failures \subseteq failing
    /\ \A i \in failures : i < next_index
    /\ \A t \in Tasks : pc[t] \in {"caught", "record"} => index[t] \in failing

\* A task ends only when the gate is closed or all items are claimed.
EndsKnowing == \A t \in Tasks : pc[t] = "ended" => abort \/ next_index = Count

\* What the calling thread knows at each of its steps.
CallerKnows ==
    /\ caller \in {"enter", "serial"} => \A t \in Tasks : pc[t] = "new"
    /\ caller \in {"enter", "serial", "submit", "join"} => outcome = Pending
    /\ caller = "leave" => outcome \in {Pending, Broken}
    /\ caller = "leave" /\ outcome = Pending => \A t \in Tasks : pc[t] = "ended"

PullInv == /\ TypeOK /\ LockHeld /\ ClaimFresh /\ GateClosed /\ ClaimedOnce
           /\ Accounted /\ EndsKnowing /\ CallerKnows /\ SameAsSerial

-----------------------------------------------------------------------------

\* There is at least one task, however many workers were asked for.
LEMMA SomeTask == ASSUME workers \in Int PROVE WorkerCount \in Nat /\ 1 \in Tasks
<1> DEFINE S == {workers, Count}
<1>1. Count \in Int
  BY PullAssumption
<1>2. \E x \in S : \A y \in S : x =< y
  BY <1>1, SMT
<1>3. Min(S) \in Int
  BY <1>1, <1>2 DEF Min
<1> HIDE DEF S
<1> DEFINE T == {1, Min(S)}
<1>4. \E x \in T : \A y \in T : x >= y
  BY <1>3, SMT
<1>5. Max(T) \in Int /\ Max(T) >= 1
  BY <1>3, <1>4 DEF Max
<1>6. WorkerCount = Max(T)
  BY DEF WorkerCount, S
<1> QED BY <1>5, <1>6 DEF Tasks

LEMMA InitPull == Init => PullInv
<1> SUFFICES ASSUME Init PROVE PullInv
  OBVIOUS
<1> USE PullAssumption
<1>1. TypeOK
  <2>1. Pending \in [tag : {"none", "returned", "raised", "broken"}, index : Nat]
    BY DEF Pending
  <2>2. 0 \in 0..Count /\ workers \in Int
    BY DEF Init
  <2> QED BY <2>1, <2>2 DEF Init, TypeOK
<1>2. Tasks \subseteq Nat /\ 0 \notin Tasks
  BY <1>1, SomeTask DEF TypeOK, Tasks
<1>3. LockHeld /\ ClaimFresh /\ GateClosed /\ ClaimedOnce /\ EndsKnowing
  BY <1>2 DEF Init, LockHeld, ClaimFresh, GateClosed, ClaimedOnce, Busy, EndsKnowing
<1>4. Accounted
  BY <1>2 DEF Init, Accounted, Indices, Busy
<1>5. CallerKnows /\ SameAsSerial
  BY DEF Init, CallerKnows, SameAsSerial, Pending
<1> QED BY <1>1, <1>3, <1>4, <1>5 DEF PullInv

-----------------------------------------------------------------------------
(* Steps of the calling thread.                                            *)

LEMMA EnterStep == PullInv /\ Enter => PullInv'
<1> SUFFICES ASSUME PullInv, Enter PROVE PullInv'
  OBVIOUS
<1> USE PullAssumption
<1>1. /\ UNCHANGED <<input, threads, lock, shared, pc, index>>
      /\ Tasks' = Tasks /\ Busy' = Busy
  BY DEF Enter, Tasks, WorkerCount, Busy, input
<1>2. \/ Count = 0 /\ caller' = "done" /\ outcome' = Returned
      \/ Count > 0 /\ caller' \in {"serial", "submit"} /\ outcome' = outcome
  BY DEF Enter
<1>3. caller = "enter" /\ outcome = Pending /\ \A t \in Tasks : pc[t] = "new"
  BY DEF PullInv, CallerKnows, Enter
<1>4. TypeOK'
  BY <1>1, <1>2 DEF PullInv, TypeOK, Returned, input, shared
<1>5. LockHeld' /\ ClaimFresh' /\ GateClosed' /\ EndsKnowing'
  BY <1>1 DEF PullInv, LockHeld, ClaimFresh, GateClosed, EndsKnowing, input, shared
<1>6. ClaimedOnce' /\ Accounted'
  BY <1>1 DEF PullInv, ClaimedOnce, Accounted, input, shared
<1>7. CallerKnows'
  BY <1>1, <1>2, <1>3 DEF CallerKnows
<1>8. SameAsSerial'
  BY <1>1, <1>2, <1>3 DEF PullInv, SameAsSerial, Returned, Pending, Indices, TypeOK, input, shared
<1> QED BY <1>4, <1>5, <1>6, <1>7, <1>8 DEF PullInv

LEMMA SerialStep == PullInv /\ SerialCall => PullInv'
<1> SUFFICES ASSUME PullInv, SerialCall PROVE PullInv'
  OBVIOUS
<1> USE PullAssumption
<1>1. /\ UNCHANGED <<input, threads, lock, abort, failures, pc, index>>
      /\ Tasks' = Tasks /\ Busy' = Busy
  BY DEF SerialCall, Tasks, WorkerCount, Busy, input
<1>2. /\ caller = "serial" /\ outcome = Pending
      /\ \A t \in Tasks : pc[t] = "new"
      /\ failures = {} /\ abort = FALSE /\ Busy = {}
      /\ TypeOK
  BY DEF PullInv, CallerKnows, SerialCall, GateClosed, Busy, TypeOK
<1>3. \A i \in Indices : i < next_index => results[i] = Result(i) /\ i \notin failing
  <2>1. \A i \in Indices : Result(i) # Empty
    BY DEF Result, Empty, Indices
  <2> QED BY <1>2, <2>1 DEF PullInv, Accounted
<1>4. LockHeld' /\ ClaimFresh' /\ GateClosed' /\ ClaimedOnce' /\ EndsKnowing'
  BY <1>1, <1>2 DEF PullInv, LockHeld, ClaimFresh, GateClosed, ClaimedOnce, EndsKnowing, input
<1>5. CASE /\ next_index \in failing /\ caller' = "done" /\ outcome' = Raised(next_index)
           /\ UNCHANGED <<next_index, results>>
  <2>1. TypeOK' /\ Accounted' /\ CallerKnows'
    BY <1>1, <1>2, <1>5 DEF PullInv, TypeOK, Accounted, CallerKnows, Raised, input
  <2>2. \A i \in failing : next_index <= i
    BY <1>2, <1>3 DEF TypeOK, Indices
  <2>3. SameAsSerial'
    BY <1>1, <1>5, <2>2 DEF SameAsSerial, Raised, input
  <2> QED BY <1>4, <2>1, <2>3 DEF PullInv
<1>6. CASE /\ next_index \in Indices \ failing
           /\ results' = [results EXCEPT ![next_index] = Result(next_index)]
           /\ next_index' = next_index + 1
           /\ UNCHANGED <<caller, outcome>>
  <2>1. TypeOK'
    BY <1>1, <1>2, <1>6 DEF TypeOK, Indices, Result, input
  <2>2. Accounted'
    BY <1>1, <1>2, <1>3, <1>6 DEF PullInv, Accounted, TypeOK, Indices, input
  <2>3. CallerKnows' /\ SameAsSerial'
    BY <1>1, <1>2, <1>6 DEF CallerKnows, SameAsSerial, Pending, input
  <2> QED BY <1>4, <2>1, <2>2, <2>3 DEF PullInv
<1>7. CASE /\ next_index = Count /\ caller' = "done" /\ outcome' = Returned
           /\ UNCHANGED <<next_index, results>>
  <2>1. TypeOK' /\ Accounted' /\ CallerKnows'
    BY <1>1, <1>2, <1>7 DEF PullInv, TypeOK, Accounted, CallerKnows, Returned, input
  <2>2. \A i \in Indices : i < Count
    BY DEF Indices
  <2>3. SameAsSerial'
    BY <1>1, <1>2, <1>3, <1>7, <2>2 DEF SameAsSerial, Returned, TypeOK, input
  <2> QED BY <1>4, <2>1, <2>3 DEF PullInv
<1> QED BY <1>5, <1>6, <1>7 DEF SerialCall

LEMMA SubmitStep == ASSUME PullInv, NEW t \in Tasks, Submit(t) PROVE PullInv'
<1> USE PullAssumption
<1>1. /\ UNCHANGED <<input, lock, shared, index>>
      /\ Tasks' = Tasks /\ TypeOK
  BY DEF Submit, Tasks, WorkerCount, input, PullInv
<1>2. /\ caller = "submit" /\ outcome = Pending /\ pc[t] = "new"
      /\ pc' = [pc EXCEPT ![t] = "queued"]
      /\ threads' \in {threads, threads + 1}
      /\ \/ caller' \in {"submit", "join"} /\ outcome' = outcome
         \/ caller' = "leave" /\ outcome' = Broken
  BY DEF Submit, PullInv, CallerKnows
<1>3. Busy' = Busy
  BY <1>1, <1>2 DEF Busy, TypeOK
<1>4. TypeOK'
  BY <1>1, <1>2 DEF TypeOK, Broken, input, shared
<1>5. LockHeld' /\ ClaimFresh' /\ GateClosed' /\ EndsKnowing'
  BY <1>1, <1>2 DEF PullInv, TypeOK, LockHeld, ClaimFresh, GateClosed, EndsKnowing, shared
<1>6. ClaimedOnce' /\ Accounted'
  BY <1>1, <1>2, <1>3 DEF PullInv, TypeOK, ClaimedOnce, Accounted, input, shared
<1>7. CallerKnows' /\ SameAsSerial'
  BY <1>2 DEF CallerKnows, SameAsSerial, Pending, Broken
<1> QED BY <1>4, <1>5, <1>6, <1>7 DEF PullInv

\* Joining, being interrupted and leaving touch only caller and outcome.
LEMMA CallerFrame ==
    ASSUME PullInv, UNCHANGED <<input, threads, lock, shared, pc, index>>,
           caller' \in {"leave", "done"},
           outcome' \in [tag : {"none", "returned", "raised", "broken"}, index : Nat],
           CallerKnows', SameAsSerial'
    PROVE  PullInv'
<1>1. Tasks' = Tasks /\ Busy' = Busy
  BY DEF Tasks, WorkerCount, Busy, input
<1>2. TypeOK'
  BY <1>1 DEF PullInv, TypeOK, input, shared
<1>3. LockHeld' /\ ClaimFresh' /\ GateClosed' /\ EndsKnowing'
  BY <1>1 DEF PullInv, LockHeld, ClaimFresh, GateClosed, EndsKnowing, shared
<1>4. ClaimedOnce' /\ Accounted'
  BY <1>1 DEF PullInv, ClaimedOnce, Accounted, input, shared
<1> QED BY <1>2, <1>3, <1>4 DEF PullInv

LEMMA JoinStep == PullInv /\ Join => PullInv'
<1> SUFFICES ASSUME PullInv, Join PROVE PullInv'
  OBVIOUS
<1>1. /\ UNCHANGED <<input, threads, lock, shared, pc, index>>
      /\ Tasks' = Tasks /\ caller' = "leave" /\ outcome' = outcome
      /\ \A t \in Tasks : pc[t] = "ended"
      /\ outcome = Pending
  BY DEF Join, Tasks, WorkerCount, input, PullInv, CallerKnows
<1>2. CallerKnows' /\ SameAsSerial'
  BY <1>1 DEF CallerKnows, SameAsSerial, Pending
<1>3. outcome' \in [tag : {"none", "returned", "raised", "broken"}, index : Nat]
  BY <1>1 DEF Pending
<1> QED BY <1>1, <1>2, <1>3, CallerFrame

LEMMA InterruptStep == PullInv /\ Interrupt => PullInv'
<1> SUFFICES ASSUME PullInv, Interrupt PROVE PullInv'
  OBVIOUS
<1>1. /\ UNCHANGED <<input, threads, lock, shared, pc, index>>
      /\ caller' = "leave" /\ outcome' = Broken
  BY DEF Interrupt
<1>2. CallerKnows' /\ SameAsSerial'
  BY <1>1 DEF CallerKnows, SameAsSerial, Pending, Broken
<1>3. outcome' \in [tag : {"none", "returned", "raised", "broken"}, index : Nat]
  BY <1>1 DEF Broken
<1> QED BY <1>1, <1>2, <1>3, CallerFrame

\* With every task ended, all items are accounted for: published, or failed with
\* the first failing item among them.
LEMMA LeaveStep == PullInv /\ Leave => PullInv'
<1> SUFFICES ASSUME PullInv, Leave PROVE PullInv'
  OBVIOUS
<1> USE PullAssumption
<1>1. /\ UNCHANGED <<input, threads, lock, shared, pc, index>>
      /\ caller' = "done"
      /\ outcome' = IF outcome # Pending THEN outcome
                    ELSE IF failures # {} THEN FirstFailure
                    ELSE Returned
      /\ caller = "leave" /\ TypeOK
  BY DEF Leave, PullInv
<1>2. CallerKnows'
  BY <1>1 DEF CallerKnows
<1>3. CASE outcome # Pending
  <2>1. outcome' = Broken
    BY <1>1, <1>3 DEF PullInv, CallerKnows
  <2>2. SameAsSerial'
    BY <2>1 DEF SameAsSerial, Broken
  <2>3. Broken \in [tag : {"none", "returned", "raised", "broken"}, index : Nat]
    BY DEF Broken
  <2> QED BY <1>1, <1>2, <2>1, <2>2, <2>3, CallerFrame
<1>4. CASE outcome = Pending
  <2>1. Busy = {} /\ \A t \in Tasks : pc[t] = "ended"
    BY <1>1, <1>4 DEF PullInv, CallerKnows, Busy
  <2>2. \A i \in Indices : i < next_index => results[i] = Result(i) \/ i \in failures
    BY <2>1 DEF PullInv, Accounted
  <2>3. \A i \in Indices : i < next_index => i \notin failing \/ i \in failures
    <3>1. \A i \in Indices : Result(i) # Empty
      BY DEF Result, Empty, Indices
    <3> QED BY <2>2, <3>1 DEF PullInv, Accounted
  <2>4. CASE failures # {}
    <3>1. failures \in SUBSET (0..Count)
      BY <1>1 DEF TypeOK, Indices
    <3>2. PICK m \in failures : m = Min(failures) /\ \A y \in failures : m <= y
      BY <2>4, <3>1, MinIsSmallest
    <3>3. m \in failing /\ m < next_index /\ m \in Nat /\ failing \subseteq Indices
      BY <1>1, <3>2 DEF PullInv, Accounted, TypeOK, Indices
    <3>4. \A i \in failing : m <= i
      <4>1. SUFFICES ASSUME NEW i \in failing, i < m PROVE FALSE
        BY <3>3 DEF Indices
      <4>2. i \in Indices /\ i < next_index
        BY <1>1, <3>3, <4>1 DEF Indices, TypeOK
      <4>3. i \in failures
        BY <2>3, <4>1, <4>2
      <4> QED BY <3>2, <3>3, <4>1, <4>2, <4>3 DEF Indices
    <3>5. outcome' = Raised(m)
      BY <1>1, <1>4, <2>4, <3>2 DEF FirstFailure
    <3>6. SameAsSerial'
      <4>1. failing' = failing /\ outcome'.tag = "raised" /\ outcome'.index = m
        BY <1>1, <3>5 DEF Raised, input
      <4> QED BY <3>3, <3>4, <4>1 DEF SameAsSerial
    <3>7. Raised(m) \in [tag : {"none", "returned", "raised", "broken"}, index : Nat]
      BY <3>3 DEF Raised
    <3> QED BY <1>1, <1>2, <3>5, <3>6, <3>7, CallerFrame
  <2>5. CASE failures = {}
    <3>1. abort = FALSE
      BY <2>5, <1>1 DEF PullInv, GateClosed, TypeOK
    <3>2. next_index = Count
      BY <2>1, <3>1, <1>1, SomeTask DEF PullInv, EndsKnowing, TypeOK
    <3>3. \A i \in Indices : results[i] = Result(i) /\ i \notin failing
      BY <2>2, <2>3, <2>5, <3>2 DEF Indices
    <3>4. outcome' = Returned
      BY <1>1, <1>4, <2>5
    <3>5. SameAsSerial'
      BY <1>1, <3>3, <3>4 DEF SameAsSerial, Returned, TypeOK, input, shared
    <3>6. Returned \in [tag : {"none", "returned", "raised", "broken"}, index : Nat]
      BY DEF Returned
    <3> QED BY <1>1, <1>2, <3>4, <3>5, <3>6, CallerFrame
  <2> QED BY <2>4, <2>5
<1> QED BY <1>3, <1>4

-----------------------------------------------------------------------------
(* Steps of a task.                                                        *)

\* The calling thread's knowledge outlasts any step of a task it started.
LEMMA TaskFrame ==
    ASSUME PullInv, NEW t \in Tasks, NEW step, pc' = [pc EXCEPT ![t] = step],
           pc[t] \notin {"new", "ended"}, UNCHANGED <<input, caller, outcome>>,
           \A i \in Indices : results'[i] \in {results[i], Result(i)}
    PROVE  /\ Tasks' = Tasks
           /\ CallerKnows' /\ SameAsSerial'
           /\ pc'[t] = step
           /\ \A u \in Tasks : u # t => pc'[u] = pc[u]
<1>1. Tasks' = Tasks /\ failing' = failing
  BY DEF Tasks, WorkerCount, input
<1>2. pc'[t] = step /\ \A u \in Tasks : u # t => pc'[u] = pc[u]
  BY DEF PullInv, TypeOK
<1>3. CallerKnows'
  BY <1>1, <1>2 DEF PullInv, CallerKnows
<1>4. SameAsSerial'
  BY <1>1 DEF PullInv, SameAsSerial
<1> QED BY <1>1, <1>2, <1>3, <1>4

LEMMA RunStep == ASSUME PullInv, NEW t \in Tasks, Run(t) PROVE PullInv'
<1>1. /\ UNCHANGED <<input, caller, outcome, threads, lock, shared, index>>
      /\ pc[t] = "queued" /\ pc' = [pc EXCEPT ![t] = "wait"] /\ TypeOK
  BY DEF Run, PullInv
<1>2. /\ Tasks' = Tasks /\ CallerKnows' /\ SameAsSerial'
      /\ pc'[t] = "wait" /\ \A u \in Tasks : u # t => pc'[u] = pc[u]
  BY <1>1, TaskFrame DEF shared
<1>3. TypeOK'
  BY <1>1, <1>2 DEF TypeOK, input, shared
<1>4. Busy' = Busy
  BY <1>1, <1>2 DEF Busy
<1>5. LockHeld' /\ ClaimFresh' /\ GateClosed' /\ EndsKnowing'
  BY <1>1, <1>2 DEF PullInv, LockHeld, ClaimFresh, GateClosed, EndsKnowing, shared
<1>6. ClaimedOnce' /\ Accounted'
  BY <1>1, <1>2, <1>4 DEF PullInv, ClaimedOnce, Accounted, input, shared
<1> QED BY <1>2, <1>3, <1>5, <1>6 DEF PullInv

\* Taking the lock, before a claim or to record a failure.
LEMMA AcquireStep ==
    ASSUME PullInv, NEW t \in Tasks, EnterGate(t) \/ EnterFailure(t)
    PROVE  PullInv'
<1>1. PICK step \in {"gate", "record"} :
         /\ pc' = [pc EXCEPT ![t] = step]
         /\ step = "gate" => pc[t] = "wait"
         /\ step = "record" => pc[t] = "caught"
  BY DEF EnterGate, EnterFailure, Acquire
<1>2. /\ UNCHANGED <<input, caller, outcome, threads, shared, index>>
      /\ lock = 0 /\ lock' = t /\ TypeOK
  BY DEF EnterGate, EnterFailure, Acquire, PullInv
<1>3. /\ Tasks' = Tasks /\ CallerKnows' /\ SameAsSerial'
      /\ pc'[t] = step /\ \A u \in Tasks : u # t => pc'[u] = pc[u]
  BY <1>1, <1>2, TaskFrame DEF shared
<1>4. TypeOK'
  BY <1>1, <1>2, <1>3 DEF TypeOK, input, shared
<1>5. Busy' = Busy
  BY <1>1, <1>3 DEF Busy
<1>6. LockHeld'
  <2>1. 0 \notin Tasks
    BY DEF Tasks
  <2> QED BY <1>1, <1>2, <1>3, <2>1 DEF PullInv, LockHeld
<1>7. ClaimFresh' /\ GateClosed' /\ EndsKnowing'
  BY <1>1, <1>2, <1>3 DEF PullInv, ClaimFresh, GateClosed, EndsKnowing, shared
<1>8. ClaimedOnce'
  BY <1>2, <1>5 DEF PullInv, ClaimedOnce, shared
<1>9. Accounted'
  <2>1. \A u \in Tasks : pc'[u] \in {"caught", "record"} => pc[u] \in {"caught", "record"}
    BY <1>1, <1>3
  <2> QED BY <1>2, <1>3, <1>5, <2>1 DEF PullInv, Accounted, input, shared
<1> QED BY <1>3, <1>4, <1>6, <1>7, <1>8, <1>9 DEF PullInv

LEMMA GateStep == ASSUME PullInv, NEW t \in Tasks, Gate(t) PROVE PullInv'
<1> USE PullAssumption
<1>1. /\ UNCHANGED <<input, caller, outcome, threads, shared>>
      /\ pc[t] = "gate" /\ lock = t /\ TypeOK
  BY DEF Gate, PullInv, LockHeld
<1>2. \A u \in Tasks : pc[u] \in {"gate", "claim", "record", "close"} => u = t
  BY <1>1 DEF PullInv, LockHeld
<1>3. 0 \notin Tasks
  BY DEF Tasks
<1>4. CASE /\ abort \/ next_index >= Count
           /\ lock' = 0 /\ index' = index
           /\ pc' = [pc EXCEPT ![t] = "ended"]
  <2>1. /\ Tasks' = Tasks /\ CallerKnows' /\ SameAsSerial'
        /\ pc'[t] = "ended" /\ \A u \in Tasks : u # t => pc'[u] = pc[u]
    BY <1>1, <1>4, TaskFrame DEF shared
  <2>2. TypeOK'
    BY <1>1, <1>4, <2>1 DEF TypeOK, input, shared
  <2>3. Busy' = Busy
    BY <1>1, <2>1 DEF Busy
  <2>4. LockHeld'
    BY <1>1, <1>2, <1>3, <1>4, <2>1 DEF LockHeld
  <2>5. ClaimFresh'
    BY <1>1, <1>4, <2>1 DEF PullInv, ClaimFresh, shared
  <2>a. GateClosed'
    <3>1. \A u \in Tasks : pc[u] = "close" => u # t
      BY <1>1
    <3> QED BY <1>1, <2>1, <3>1 DEF PullInv, GateClosed, shared
  <2>6. EndsKnowing'
    <3>1. abort \/ next_index = Count
      BY <1>1, <1>4 DEF TypeOK
    <3> QED BY <1>1, <2>1, <3>1 DEF PullInv, EndsKnowing, shared
  <2>7. ClaimedOnce' /\ Accounted'
    BY <1>1, <1>4, <2>1, <2>3 DEF PullInv, ClaimedOnce, Accounted, input, shared
  <2> QED BY <2>1, <2>2, <2>4, <2>5, <2>a, <2>6, <2>7 DEF PullInv
<1>5. CASE /\ ~abort /\ next_index < Count
           /\ index' = [index EXCEPT ![t] = next_index]
           /\ pc' = [pc EXCEPT ![t] = "claim"] /\ lock' = lock
  <2>1. /\ Tasks' = Tasks /\ CallerKnows' /\ SameAsSerial'
        /\ pc'[t] = "claim" /\ \A u \in Tasks : u # t => pc'[u] = pc[u]
    BY <1>1, <1>5, TaskFrame DEF shared
  <2>2. /\ index'[t] = next_index /\ \A u \in Tasks : u # t => index'[u] = index[u]
        /\ index' \in [Tasks -> Nat]
    BY <1>1, <1>5 DEF TypeOK
  <2>3. TypeOK'
    BY <1>1, <1>5, <2>1, <2>2 DEF TypeOK, input, shared
  <2>4. Busy' = Busy /\ t \notin Busy
    BY <1>1, <2>1 DEF Busy
  <2>5. LockHeld'
    BY <1>1, <1>2, <1>5, <2>1 DEF LockHeld
  <2>6. ClaimFresh' /\ GateClosed'
    <3>1. failures = {}
      BY <1>1, <1>2, <1>5 DEF PullInv, GateClosed
    <3> QED BY <1>1, <1>2, <1>5, <2>1, <2>2, <3>1 DEF PullInv, ClaimFresh, GateClosed, shared
  <2>7. EndsKnowing'
    BY <1>1, <2>1 DEF PullInv, EndsKnowing, shared
  <2>8. \A u \in Busy : u \in Tasks /\ index'[u] = index[u]
    BY <2>2, <2>4 DEF Busy
  <2>9. ClaimedOnce'
    BY <1>1, <2>4, <2>8 DEF PullInv, ClaimedOnce, shared
  <2>10. Accounted'
    <3>1. \A u \in Tasks : pc'[u] \in {"caught", "record"} =>
             pc[u] \in {"caught", "record"} /\ index'[u] = index[u]
      BY <2>1, <2>2
    <3> QED BY <1>1, <2>1, <2>4, <2>8, <3>1 DEF PullInv, Accounted, input, shared
  <2> QED BY <2>1, <2>3, <2>5, <2>6, <2>7, <2>9, <2>10 DEF PullInv
<1> QED BY <1>4, <1>5 DEF Gate

\* The claimed index is the counter the task read: nobody moved it meanwhile.
LEMMA ClaimStep == ASSUME PullInv, NEW t \in Tasks, Claim(t) PROVE PullInv'
<1> USE PullAssumption
<1>1. /\ UNCHANGED <<input, caller, outcome, threads, abort, failures, results, index>>
      /\ pc[t] = "claim" /\ lock = t /\ lock' = 0 /\ TypeOK
      /\ index[t] = next_index /\ next_index < Count /\ failures = {}
      /\ next_index' = next_index + 1
      /\ pc' = [pc EXCEPT ![t] = "call"]
  BY DEF Claim, PullInv, LockHeld, ClaimFresh
<1>2. \A u \in Tasks : pc[u] \in {"gate", "claim", "record", "close"} => u = t
  BY <1>1 DEF PullInv, LockHeld
<1>3. 0 \notin Tasks /\ index[t] \in Indices /\ next_index \in Nat
  BY <1>1 DEF Tasks, Indices, TypeOK
<1>4. /\ Tasks' = Tasks /\ CallerKnows' /\ SameAsSerial'
      /\ pc'[t] = "call" /\ \A u \in Tasks : u # t => pc'[u] = pc[u]
  BY <1>1, TaskFrame
<1>5. TypeOK'
  BY <1>1, <1>3, <1>4 DEF TypeOK, input
<1>6. Busy' = Busy \cup {t} /\ t \notin Busy /\ Busy \subseteq Tasks
  BY <1>1, <1>4 DEF Busy
<1>7. LockHeld' /\ ClaimFresh'
  BY <1>1, <1>2, <1>3, <1>4 DEF LockHeld, ClaimFresh
<1>8. GateClosed' /\ EndsKnowing'
  BY <1>1, <1>4 DEF PullInv, GateClosed, EndsKnowing, TypeOK
<1>9. results[next_index] = Empty /\ \A u \in Busy : index[u] < next_index
  BY <1>1, <1>3 DEF PullInv, Accounted, ClaimedOnce, TypeOK
<1>10. \A u \in Tasks : index[u] \in Nat
  BY <1>1 DEF TypeOK
<1>11. ClaimedOnce'
  <2>1. SUFFICES ASSUME NEW u \in Busy'
                 PROVE  /\ index[u] < next_index + 1
                        /\ results[index[u]] = Empty
                        /\ index[u] \notin failures
                        /\ \A v \in Busy' : index[v] = index[u] => v = u
    BY <1>1 DEF ClaimedOnce
  <2>2. CASE u = t
    BY <2>2, <1>1, <1>3, <1>6, <1>9, <1>10
  <2>3. CASE u # t
    <3>1. u \in Busy /\ index[u] < next_index
      BY <2>1, <2>3, <1>6, <1>9
    <3>2. /\ results[index[u]] = Empty
          /\ \A v \in Busy : index[v] = index[u] => v = u
      BY <3>1 DEF PullInv, ClaimedOnce
    <3> QED BY <3>1, <3>2, <1>1, <1>3, <1>6, <1>10
  <2> QED BY <2>2, <2>3
<1>12. Accounted'
  <2>1. ASSUME NEW i \in Indices, i < next_index + 1
        PROVE  \/ results[i] = Result(i) \/ i \in failures
               \/ \E u \in Busy' : index[u] = i
    <3>1. i < next_index \/ i = index[t]
      BY <2>1, <1>1, <1>3 DEF Indices
    <3> QED BY <3>1, <2>1, <1>6 DEF PullInv, Accounted
  <2>2. \A i \in Indices : i >= next_index + 1 => results[i] = Empty
    BY <1>3 DEF PullInv, Accounted, Indices
  <2>3. \A u \in Tasks : pc'[u] \in {"caught", "record"} => pc[u] \in {"caught", "record"}
    BY <1>4
  <2> QED BY <2>1, <2>2, <2>3, <1>1, <1>4 DEF PullInv, Accounted, input
<1> QED BY <1>4, <1>5, <1>7, <1>8, <1>11, <1>12 DEF PullInv

LEMMA PublishStep == ASSUME PullInv, NEW t \in Tasks, Publish(t) PROVE PullInv'
<1> USE PullAssumption
<1>1. /\ UNCHANGED <<input, caller, outcome, threads, lock, next_index, abort, failures, index>>
      /\ pc[t] = "call" /\ index[t] \notin failing /\ TypeOK
      /\ results' = [results EXCEPT ![index[t]] = Result(index[t])]
      /\ pc' = [pc EXCEPT ![t] = "wait"]
  BY DEF Publish, PullInv
<1>2. /\ t \in Busy /\ index[t] < next_index
      /\ \A u \in Busy : index[u] = index[t] => u = t
      /\ \A u \in Busy : results[index[u]] = Empty /\ index[u] \notin failures
                           /\ index[u] < next_index
  <2>1. t \in Busy
    BY <1>1 DEF Busy
  <2> QED BY <2>1 DEF PullInv, ClaimedOnce
<1>3. index[t] \in Indices
  BY <1>1, <1>2 DEF TypeOK, Indices
<1>4. /\ results'[index[t]] = Result(index[t])
      /\ \A i \in Indices : i # index[t] => results'[i] = results[i]
      /\ results' \in [Indices -> {Empty} \cup Indices]
  BY <1>1, <1>3 DEF TypeOK, Result
<1>5. /\ Tasks' = Tasks /\ CallerKnows' /\ SameAsSerial'
      /\ pc'[t] = "wait" /\ \A u \in Tasks : u # t => pc'[u] = pc[u]
  <2>1. \A i \in Indices : results'[i] \in {results[i], Result(i)}
    BY <1>4
  <2> QED BY <1>1, <2>1, TaskFrame
<1>6. TypeOK'
  BY <1>1, <1>4, <1>5 DEF TypeOK, input
<1>7. Busy' = Busy \ {t}
  BY <1>1, <1>5 DEF Busy
<1>8. LockHeld' /\ ClaimFresh' /\ GateClosed' /\ EndsKnowing'
  BY <1>1, <1>5 DEF PullInv, LockHeld, ClaimFresh, GateClosed, EndsKnowing
<1>9. \A u \in Busy' : index[u] \in Indices /\ index[u] # index[t]
  <2>1. \A u \in Busy : index[u] \in Nat
    BY <1>1 DEF TypeOK, Busy
  <2> QED BY <2>1, <1>1, <1>2, <1>7 DEF TypeOK, Indices
<1>10. ClaimedOnce'
  <2>1. \A u \in Busy' : results'[index[u]] = results[index[u]] /\ u \in Busy
    BY <1>4, <1>7, <1>9
  <2> QED BY <1>1, <1>2, <2>1 DEF PullInv, ClaimedOnce
<1>11. Accounted'
  <2>1. ASSUME NEW i \in Indices, i < next_index
        PROVE  \/ results'[i] = Result(i) \/ i \in failures
               \/ \E u \in Busy' : index[u] = i
    <3>1. CASE i = index[t]
      BY <3>1, <1>4
    <3>2. CASE i # index[t]
      <4>1. \/ results[i] = Result(i) \/ i \in failures
            \/ \E u \in Busy : index[u] = i
        BY <2>1 DEF PullInv, Accounted
      <4> QED BY <3>2, <4>1, <1>4, <1>7
    <3> QED BY <3>1, <3>2
  <2>2. \A i \in Indices : results'[i] # Empty => results'[i] = Result(i) /\ i \notin failing
    BY <1>1, <1>4 DEF PullInv, Accounted
  <2>3. \A i \in Indices : i >= next_index => results'[i] = Empty
    <3>1. \A i \in Indices : i >= next_index => i # index[t]
      BY <1>1, <1>2, <1>3 DEF Indices, TypeOK
    <3> QED BY <1>4, <3>1 DEF PullInv, Accounted
  <2>4. \A u \in Tasks : pc'[u] \in {"caught", "record"} => pc[u] \in {"caught", "record"}
    BY <1>5
  <2> QED BY <2>1, <2>2, <2>3, <2>4, <1>1, <1>5 DEF PullInv, Accounted, input
<1> QED BY <1>5, <1>6, <1>8, <1>10, <1>11 DEF PullInv

LEMMA CatchStep == ASSUME PullInv, NEW t \in Tasks, Catch(t) PROVE PullInv'
<1>1. /\ UNCHANGED <<input, caller, outcome, threads, lock, shared, index>>
      /\ pc[t] = "call" /\ index[t] \in failing /\ TypeOK
      /\ pc' = [pc EXCEPT ![t] = "caught"]
  BY DEF Catch, PullInv
<1>2. /\ Tasks' = Tasks /\ CallerKnows' /\ SameAsSerial'
      /\ pc'[t] = "caught" /\ \A u \in Tasks : u # t => pc'[u] = pc[u]
  BY <1>1, TaskFrame DEF shared
<1>3. TypeOK'
  BY <1>1, <1>2 DEF TypeOK, input, shared
<1>4. Busy' = Busy
  BY <1>1, <1>2 DEF Busy
<1>5. LockHeld' /\ ClaimFresh' /\ GateClosed' /\ EndsKnowing'
  BY <1>1, <1>2 DEF PullInv, LockHeld, ClaimFresh, GateClosed, EndsKnowing, shared
<1>6. ClaimedOnce' /\ Accounted'
  BY <1>1, <1>2, <1>4 DEF PullInv, ClaimedOnce, Accounted, input, shared
<1> QED BY <1>2, <1>3, <1>5, <1>6 DEF PullInv

LEMMA RecordStep == ASSUME PullInv, NEW t \in Tasks, Record(t) PROVE PullInv'
<1> USE PullAssumption
<1>1. /\ UNCHANGED <<input, caller, outcome, threads, lock, next_index, abort, results, index>>
      /\ pc[t] = "record" /\ lock = t /\ TypeOK /\ index[t] \in failing
      /\ failures' = failures \cup {index[t]}
      /\ pc' = [pc EXCEPT ![t] = "close"]
  BY DEF Record, PullInv, LockHeld, Accounted
<1>2. /\ t \in Busy /\ index[t] < next_index
      /\ \A u \in Busy : index[u] = index[t] => u = t
  <2>1. t \in Busy
    BY <1>1 DEF Busy
  <2> QED BY <2>1 DEF PullInv, ClaimedOnce
<1>3. /\ Tasks' = Tasks /\ CallerKnows' /\ SameAsSerial'
      /\ pc'[t] = "close" /\ \A u \in Tasks : u # t => pc'[u] = pc[u]
  BY <1>1, TaskFrame
<1>4. TypeOK'
  BY <1>1, <1>3 DEF TypeOK, input
<1>5. Busy' = Busy \ {t}
  BY <1>1, <1>3 DEF Busy
<1>6. LockHeld' /\ ClaimFresh'
  <2>1. \A u \in Tasks : pc[u] \in {"gate", "claim", "record", "close"} => u = t
    BY <1>1 DEF PullInv, LockHeld
  <2> QED BY <1>1, <1>3, <2>1 DEF PullInv, LockHeld, ClaimFresh
<1>7. GateClosed' /\ EndsKnowing'
  BY <1>1, <1>3 DEF PullInv, GateClosed, EndsKnowing
<1>8. ClaimedOnce'
  BY <1>1, <1>2, <1>5 DEF PullInv, ClaimedOnce
<1>9. Accounted'
  <2>1. \A i \in Indices : i < next_index =>
           \/ results[i] = Result(i) \/ i \in failures'
           \/ \E u \in Busy' : index[u] = i
    BY <1>1, <1>5 DEF PullInv, Accounted
  <2>2. failures' \subseteq failing /\ \A i \in failures' : i < next_index
    BY <1>1, <1>2 DEF PullInv, Accounted
  <2>3. \A u \in Tasks : pc'[u] \in {"caught", "record"} => pc[u] \in {"caught", "record"}
    BY <1>3
  <2> QED BY <2>1, <2>2, <2>3, <1>1, <1>3 DEF PullInv, Accounted, input
<1> QED BY <1>3, <1>4, <1>6, <1>7, <1>8, <1>9 DEF PullInv

LEMMA CloseStep == ASSUME PullInv, NEW t \in Tasks, CloseGate(t) PROVE PullInv'
<1>1. /\ UNCHANGED <<input, caller, outcome, threads, next_index, failures, results, index>>
      /\ pc[t] = "close" /\ lock = t /\ lock' = 0 /\ TypeOK
      /\ failures # {} /\ abort' = TRUE
      /\ pc' = [pc EXCEPT ![t] = "ended"]
  BY DEF CloseGate, PullInv, LockHeld, GateClosed
<1>2. /\ Tasks' = Tasks /\ CallerKnows' /\ SameAsSerial'
      /\ pc'[t] = "ended" /\ \A u \in Tasks : u # t => pc'[u] = pc[u]
  BY <1>1, TaskFrame
<1>3. TypeOK'
  BY <1>1, <1>2 DEF TypeOK, input
<1>4. Busy' = Busy
  BY <1>1, <1>2 DEF Busy
<1>5. LockHeld' /\ ClaimFresh'
  <2>1. \A u \in Tasks : pc[u] \in {"gate", "claim", "record", "close"} => u = t
    BY <1>1 DEF PullInv, LockHeld
  <2>2. 0 \notin Tasks
    BY DEF Tasks
  <2> QED BY <1>1, <1>2, <2>1, <2>2 DEF PullInv, LockHeld, ClaimFresh
<1>6. GateClosed' /\ EndsKnowing'
  BY <1>1, <1>2 DEF PullInv, GateClosed, EndsKnowing
<1>7. ClaimedOnce' /\ Accounted'
  BY <1>1, <1>2, <1>4 DEF PullInv, ClaimedOnce, Accounted, input
<1> QED BY <1>2, <1>3, <1>5, <1>6, <1>7 DEF PullInv

LEMMA NextPull == PullInv /\ [Next]_vars => PullInv'
<1> SUFFICES ASSUME PullInv, [Next]_vars PROVE PullInv'
  OBVIOUS
<1>1. CASE Caller
  BY <1>1, EnterStep, SerialStep, SubmitStep, JoinStep, LeaveStep DEF Caller
<1>2. CASE Interrupt
  BY <1>2, InterruptStep
<1>3. ASSUME NEW t \in Tasks, Task(t) PROVE PullInv'
  BY <1>3, RunStep, AcquireStep, GateStep, ClaimStep, PublishStep, CatchStep,
     RecordStep, CloseStep DEF Task
<1>4. CASE UNCHANGED vars
  <2>1. /\ UNCHANGED <<input, threads, lock, shared, pc, index>>
        /\ caller' = caller /\ outcome' = outcome
        /\ Tasks' = Tasks /\ Busy' = Busy
    BY <1>4 DEF vars, Tasks, WorkerCount, Busy, input
  <2>2. TypeOK'
    BY <2>1 DEF PullInv, TypeOK, input, shared
  <2>3. LockHeld' /\ ClaimFresh' /\ GateClosed' /\ EndsKnowing'
    BY <2>1 DEF PullInv, LockHeld, ClaimFresh, GateClosed, EndsKnowing, shared
  <2>4. ClaimedOnce' /\ Accounted'
    BY <2>1 DEF PullInv, ClaimedOnce, Accounted, input, shared
  <2>5. CallerKnows' /\ SameAsSerial'
    BY <2>1 DEF PullInv, CallerKnows, SameAsSerial, input, shared
  <2> QED BY <2>2, <2>3, <2>4, <2>5 DEF PullInv
<1> QED BY <1>1, <1>2, <1>3, <1>4 DEF Next, Finished

-----------------------------------------------------------------------------
(* The theorems.                                                           *)

\* The inductive invariant holds throughout (all of _ordered_pull.py).
THEOREM PullInvariance == Spec => []PullInv
<1> QED BY InitPull, NextPull, PTL DEF Spec

\* Every state of a call has its types, for any number of workers asked for: the counter
\* never passes the last item, the lock is free or a task's (_ordered_pull.py:32-60).
THEOREM PullTypeCorrect == Spec => []TypeOK
<1>1. PullInv => TypeOK
  BY DEF PullInv
<1> QED BY <1>1, PullInvariance, PTL

\* For every number of items and workers the call ends as the serial loop does:
\* all results in order, or the exception of the first item that fails.
THEOREM PullIsSerial == Spec => []SameAsSerial
<1>1. PullInv => SameAsSerial
  BY DEF PullInv
<1> QED BY <1>1, PullInvariance, PTL

\* No item is handed to two tasks, or to one after its result is in.
THEOREM ItemsAreClaimedOnce == Spec => []ClaimedOnce
<1>1. PullInv => ClaimedOnce
  BY DEF PullInv
<1> QED BY <1>1, PullInvariance, PTL

\* No step claims an item once a failure is on record.
THEOREM FailureClosesGate == Spec => GateCloses
<1>1. PullInv /\ [Next]_vars => (failures # {} => next_index' = next_index)
  <2> SUFFICES ASSUME PullInv, [Next]_vars, failures # {}
               PROVE  next_index' = next_index
    OBVIOUS
  <2>1. ASSUME NEW t \in Tasks, Task(t) PROVE next_index' = next_index
    <3>1. ~Claim(t)
      BY DEF Claim, PullInv, ClaimFresh
    <3> QED BY <2>1, <3>1 DEF Task, Run, EnterGate, EnterFailure, Acquire, Gate, Publish,
                              Catch, Record, CloseGate, shared
  <2>2. ~SerialCall
    BY DEF SerialCall, PullInv, CallerKnows, GateClosed
  <2>3. CASE Caller
    BY <2>2, <2>3 DEF Caller, Enter, Submit, Join, Leave, shared
  <2>4. CASE Interrupt \/ Finished \/ UNCHANGED vars
    BY <2>4 DEF Interrupt, Finished, vars, shared
  <2> QED BY <2>1, <2>3, <2>4 DEF Next
<1>2. [][PullInv /\ [Next]_vars => (failures # {} => next_index' = next_index)]_vars
  BY <1>1, PTL
<1> QED BY <1>1, PullInvariance, PTL DEF Spec, GateCloses
=============================================================================
