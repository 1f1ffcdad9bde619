---------------------------- MODULE OrderedPull ----------------------------
(***************************************************************************)
(* The bounded ordered map that Builder encodes candidates with            *)
(* (_ordered_pull.py): pool tasks claim indices under one lock, call fn    *)
(* outside it, and close the claim gate when a call fails.  The lock's     *)
(* critical sections are split into the reads and writes they consist of.  *)
(***************************************************************************)
EXTENDS Integers, FiniteSets, FiniteSetsExt

CONSTANTS
    Count,       \* number of items
    Requests,    \* worker counts a caller may ask for
    SpawnFails,  \* TRUE: the system may refuse to start a thread
    Interrupts   \* TRUE: the calling thread may get a KeyboardInterrupt

ASSUME PullAssumption == /\ Count \in Nat
                         /\ Requests \subseteq Int
                         /\ SpawnFails \in BOOLEAN
                         /\ Interrupts \in BOOLEAN

VARIABLES
    workers,     \* input: the worker count asked for
    failing,     \* input: the items fn raises on
    caller,      \* next step of the calling thread
    outcome,     \* what the call returns or raises
    threads,     \* threads the pool has started
    lock,        \* task holding claim_lock, 0 when it is free
    next_index, abort, failures, results,
    pc,          \* task -> its next step in pull
    index        \* task -> its local index

input == <<workers, failing>>
shared == <<next_index, abort, failures, results>>
vars == <<input, caller, outcome, threads, lock, shared, pc, index>>

Indices == 0..(Count - 1)
Empty == -1             \* None in a result slot
Result(i) == i          \* fn(items[i])

WorkerCount == Max({1, Min({workers, Count})})
Tasks == 1..WorkerCount

Pending == [tag |-> "none", index |-> 0]
Returned == [tag |-> "returned", index |-> 0]
Raised(i) == [tag |-> "raised", index |-> i]
Broken == [tag |-> "broken", index |-> 0]     \* interrupt, or no thread to be had

Init == /\ workers \in Requests
        /\ failing \in SUBSET Indices
        /\ caller = "enter"
        /\ outcome = Pending
        /\ threads = 0
        /\ lock = 0
        /\ next_index = 0
        /\ abort = FALSE
        /\ failures = {}
        /\ results = [i \in Indices |-> Empty]
        /\ pc = [t \in Tasks |-> "new"]
        /\ index = [t \in Tasks |-> 0]

-----------------------------------------------------------------------------
(* The calling thread.                                                     *)

Enter ==
    /\ caller = "enter"
    /\ \/ /\ Count = 0
          /\ caller' = "done"
          /\ outcome' = Returned
       \/ /\ Count > 0
          /\ caller' = IF WorkerCount = 1 THEN "serial" ELSE "submit"
          /\ UNCHANGED outcome
    /\ UNCHANGED <<input, threads, lock, shared, pc, index>>

\* One worker means no pool: fn runs item by item in the calling thread, which
\* is the reference for every other worker count.
SerialCall ==
    /\ caller = "serial"
    /\ \/ /\ next_index \in failing
          /\ caller' = "done"
          /\ outcome' = Raised(next_index)
          /\ UNCHANGED <<next_index, results>>
       \/ /\ next_index \in Indices \ failing
          /\ results' = [results EXCEPT ![next_index] = Result(next_index)]
          /\ next_index' = next_index + 1
          /\ UNCHANGED <<caller, outcome>>
       \/ /\ next_index = Count
          /\ caller' = "done"
          /\ outcome' = Returned
          /\ UNCHANGED <<next_index, results>>
    /\ UNCHANGED <<input, threads, lock, abort, failures, pc, index>>

Running == {t \in Tasks : pc[t] \notin {"new", "queued", "ended"}}

\* The pool queues the task, then starts a thread unless one is idle.
Submit(t) ==
    /\ caller = "submit"
    /\ pc[t] = "new"
    /\ \A u \in Tasks : u < t => pc[u] # "new"
    /\ pc' = [pc EXCEPT ![t] = "queued"]
    /\ \/ /\ \/ threads' = threads + 1
             \/ threads > Cardinality(Running) /\ UNCHANGED threads
          /\ caller' = IF t = WorkerCount THEN "join" ELSE "submit"
          /\ UNCHANGED outcome
       \/ /\ SpawnFails
          /\ caller' = "leave"
          /\ outcome' = Broken
          /\ UNCHANGED threads
    /\ UNCHANGED <<input, lock, shared, index>>

\* future.result() of every task: pull itself never raises.
Join ==
    /\ caller = "join"
    /\ \A t \in Tasks : pc[t] = "ended"
    /\ caller' = "leave"
    /\ UNCHANGED <<input, outcome, threads, lock, shared, pc, index>>

\* Nothing tells the tasks of it: the gate stays open.
Interrupt ==
    /\ Interrupts
    /\ caller \in {"submit", "join"}
    /\ caller' = "leave"
    /\ outcome' = Broken
    /\ UNCHANGED <<input, threads, lock, shared, pc, index>>

LastFailure == Raised(Max(failures))     \* slip: not the first in item order
FirstFailure == Raised(Min(failures))

\* Leaving the with block waits for the threads, and so for all queued tasks
\* unless no thread was ever started.
Leave ==
    /\ caller = "leave"
    /\ threads > 0 => \A t \in Tasks : pc[t] \in {"new", "ended"}
    /\ caller' = "done"
    /\ outcome' = IF outcome # Pending THEN outcome
                  ELSE IF failures # {} THEN FirstFailure
                  ELSE Returned
    /\ UNCHANGED <<input, threads, lock, shared, pc, index>>

Caller == Enter \/ SerialCall \/ (\E t \in Tasks : Submit(t)) \/ Join \/ Leave

-----------------------------------------------------------------------------
(* One pool task in pull().                                                *)

Run(t) ==
    /\ pc[t] = "queued"
    /\ Cardinality(Running) < threads
    /\ pc' = [pc EXCEPT ![t] = "wait"]
    /\ UNCHANGED <<input, caller, outcome, threads, lock, shared, index>>

AcquireAnyway(t, from, to) ==            \* slip: the lock is not waited for
    /\ pc[t] = from
    /\ lock' = t
    /\ pc' = [pc EXCEPT ![t] = to]
    /\ UNCHANGED <<input, caller, outcome, threads, shared, index>>

Acquire(t, from, to) ==
    /\ pc[t] = from
    /\ lock = 0
    /\ lock' = t
    /\ pc' = [pc EXCEPT ![t] = to]
    /\ UNCHANGED <<input, caller, outcome, threads, shared, index>>

EnterGate(t) == Acquire(t, "wait", "gate")

GateOneMore(t) ==                        \* slip: > for >=
    /\ pc[t] = "gate"
    /\ \/ /\ abort \/ next_index > Count
          /\ lock' = 0
          /\ pc' = [pc EXCEPT ![t] = "ended"]
          /\ UNCHANGED index
       \/ /\ ~abort /\ next_index <= Count
          /\ index' = [index EXCEPT ![t] = next_index]
          /\ pc' = [pc EXCEPT ![t] = "claim"]
          /\ UNCHANGED lock
    /\ UNCHANGED <<input, caller, outcome, threads, shared>>

\* With the gate closed or the items used up the task returns, else it reads
\* next_index ...
Gate(t) ==
    /\ pc[t] = "gate"
    /\ \/ /\ abort \/ next_index >= Count
          /\ lock' = 0
          /\ pc' = [pc EXCEPT ![t] = "ended"]
          /\ UNCHANGED index
       \/ /\ ~abort /\ next_index < Count
          /\ index' = [index EXCEPT ![t] = next_index]
          /\ pc' = [pc EXCEPT ![t] = "claim"]
          /\ UNCHANGED lock
    /\ UNCHANGED <<input, caller, outcome, threads, shared>>

\* ... and writes it back.
Claim(t) ==
    /\ pc[t] = "claim"
    /\ next_index' = index[t] + 1
    /\ lock' = 0
    /\ pc' = [pc EXCEPT ![t] = "call"]
    /\ UNCHANGED <<input, caller, outcome, threads, abort, failures, results, index>>

Publish(t) ==
    /\ pc[t] = "call"
    /\ index[t] \notin failing
    /\ results' = [results EXCEPT ![index[t]] = Result(index[t])]
    /\ pc' = [pc EXCEPT ![t] = "wait"]
    /\ UNCHANGED <<input, caller, outcome, threads, lock, next_index, abort, failures, index>>

Catch(t) ==
    /\ pc[t] = "call"
    /\ index[t] \in failing
    /\ pc' = [pc EXCEPT ![t] = "caught"]
    /\ UNCHANGED <<input, caller, outcome, threads, lock, shared, index>>

EnterFailure(t) == Acquire(t, "caught", "record")

Record(t) ==
    /\ pc[t] = "record"
    /\ failures' = failures \cup {index[t]}
    /\ pc' = [pc EXCEPT ![t] = "close"]
    /\ UNCHANGED <<input, caller, outcome, threads, lock, next_index, abort, results, index>>

LeaveGateOpen(t) ==                      \* slip: abort is never set
    /\ pc[t] = "close"
    /\ lock' = 0
    /\ pc' = [pc EXCEPT ![t] = "ended"]
    /\ UNCHANGED <<input, caller, outcome, threads, shared, index>>

KeepLock(t) ==                           \* slip: a failing task keeps the lock
    /\ pc[t] = "close"
    /\ abort' = TRUE
    /\ pc' = [pc EXCEPT ![t] = "ended"]
    /\ UNCHANGED <<input, caller, outcome, threads, lock, next_index, failures, results, index>>

CloseGate(t) ==
    /\ pc[t] = "close"
    /\ abort' = TRUE
    /\ lock' = 0
    /\ pc' = [pc EXCEPT ![t] = "ended"]
    /\ UNCHANGED <<input, caller, outcome, threads, next_index, failures, results, index>>

Task(t) == \/ Run(t) \/ EnterGate(t) \/ Gate(t) \/ Claim(t) \/ Publish(t)
           \/ Catch(t) \/ EnterFailure(t) \/ Record(t) \/ CloseGate(t)

Finished == caller = "done" /\ UNCHANGED vars

Next == Caller \/ Interrupt \/ (\E t \in Tasks : Task(t)) \/ Finished

Spec == Init /\ [][Next]_vars

\* The system runs every thread again and again, and fn returns or raises.  The
\* lock need not be fair.
MaxTasks == Max({1, Count})
FairSpec == /\ Spec
            /\ WF_vars(Caller)
            /\ \A t \in 1..MaxTasks : WF_vars(t \in Tasks /\ Task(t))

-----------------------------------------------------------------------------
(* What must hold.                                                         *)

\* Every variable has the shape the code gives it (_ordered_pull.py:32-52).
TypeOK ==
    /\ workers \in Int /\ failing \in SUBSET Indices
    /\ caller \in {"enter", "serial", "submit", "join", "leave", "done"}
    /\ outcome \in [tag : {"none", "returned", "raised", "broken"}, index : Nat]
    /\ threads \in Nat
    /\ lock \in {0} \cup Tasks
    /\ next_index \in 0..Count
    /\ abort \in BOOLEAN
    /\ failures \in SUBSET Indices
    /\ results \in [Indices -> {Empty} \cup Indices]
    /\ pc \in [Tasks -> {"new", "queued", "wait", "gate", "claim", "call", "caught",
                         "record", "close", "ended"}]
    /\ index \in [Tasks -> Nat]

\* Whatever the number of workers and their interleaving, the call ends as the
\* serial loop does: with every slot filled by its own item's result, or with
\* the exception of the first item that fails (_ordered_pull.py:25-30, 72-74;
\* builder.py:265-267 calls the one-worker build the oracle of the others).
SameAsSerial ==
    /\ outcome.tag = "returned" => /\ failing = {}
                                   /\ \A i \in Indices : results[i] = Result(i)
    /\ outcome.tag = "raised" => /\ outcome.index \in failing
                                 /\ \A i \in failing : outcome.index <= i

\* No item is called twice: tasks past a claim hold different items, claimed
\* already and with nothing published for them (_ordered_pull.py:48-54).
Busy == {t \in Tasks : pc[t] \in {"call", "caught", "record"}}
ClaimedOnce ==
    \A t \in Busy : /\ index[t] < next_index
                    /\ results[index[t]] = Empty
                    /\ index[t] \notin failures
                    /\ \A u \in Busy : index[u] = index[t] => u = t

\* Once a failure is on record no further item is claimed, although recording
\* it and closing the gate are two steps (_ordered_pull.py:27-28, 55-61).
GateCloses == [][failures # {} => next_index' = next_index]_vars

\* The call always ends: no lost wakeup, no task waiting for a lock forever,
\* also after an interrupt or a thread that could not be started.
Ends == <>(caller = "done")
=============================================================================
