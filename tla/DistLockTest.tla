---------------------------- MODULE DistLockTest ----------------------------
(***************************************************************************)
(* The command _testDistLockWithSyncCluster of client/distlock_test.cpp:   *)
(* run() starts threads that each try a number of times to take one        *)
(* DistributedLock without waiting for it, and under it add to the static  *)
(* counters count, gotit and errors, which are plain ints.  The command    *)
(* reports success when count == gotit * 2000 and errors == 0.             *)
(*                                                                         *)
(* A step is one access of a thread to shared memory: x++ on a static int  *)
(* is a load and a store.  The lock is what the command tests and is not   *)
(* part of it: it is modelled by its contract, lock_try succeeding exactly *)
(* when no thread holds the lock, or, with Excludes false, as the lock the *)
(* command is there to catch, which a thread may get while another has it. *)
(***************************************************************************)
EXTENDS Naturals, FiniteSets

CONSTANTS
    Threads,        \* the threads run() starts (4 in the source)
    Iterations,     \* the attempts of a thread (1000 in the source)
    Increments,     \* the count++ of one holder (2000 in the source)
    Excludes        \* whether the lock under test keeps its contract

ASSUME
    /\ IsFiniteSet(Threads) /\ Threads # {}
    /\ Iterations \in Nat /\ Increments \in Nat \ {0}
    /\ Excludes \in BOOLEAN

VARIABLES
    mem,        \* the static ints count, gotit and errors
    holders,    \* the threads that have *current locked
    overlapped, \* history: some thread got the lock while another had it
    pc,         \* the statement each thread stands before
    loaded,     \* whether the thread has done the load of the x++ it stands at
    reg,        \* the value that load gave it
    i, j,       \* the loop variables of runThread
    before,     \* int before = count
    main,       \* where run() stands
    result      \* what run() returns

vars == <<mem, holders, overlapped, pc, loaded, reg, i, j, before, main, result>>

Statics == {"count", "gotit", "errors"}

Init ==
    /\ mem = [x \in Statics |-> 0]
    /\ holders = {}
    /\ overlapped = FALSE
    /\ pc = [t \in Threads |-> "unborn"]
    /\ loaded = [t \in Threads |-> FALSE]
    /\ reg = [t \in Threads |-> 0]
    /\ i = [t \in Threads |-> 0]
    /\ j = [t \in Threads |-> 0]
    /\ before = [t \in Threads |-> 0]
    /\ main = "spawn"
    /\ result = FALSE

goto(t, label) == pc' = [pc EXCEPT ![t] = label]

(***************************************************************************)
(* DistributedLock, by its contract.                                       *)
(***************************************************************************)
\* lock_try may return true
mayGet == holders = {} \/ ~Excludes

\* lock_try may return false
mayMiss == holders # {}

(***************************************************************************)
(* runThread                                                               *)
(***************************************************************************)
\* The i++ of for ( int i=0; i<1000; i++ )
nextIteration(t) == [i EXCEPT ![t] = @ + 1]

\* Faulty variant: one attempt too many.
moreAttemptsInclusive(t) == i[t] <= Iterations

moreAttempts(t) == i[t] < Iterations

\* for ( int i=0; i<1000; i++ )
For(t) ==
    /\ pc[t] = "for"
    /\ goto(t, IF moreAttempts(t) THEN "lock_try" ELSE "returned")
    /\ UNCHANGED <<mem, holders, overlapped, loaded, reg, i, j, before, main, result>>

\* if ( current->lock_try( "test" ) ): without the lock the thread goes on
\* to its next attempt.
LockTry(t) ==
    /\ pc[t] = "lock_try"
    /\ \/ /\ mayGet
          /\ holders' = holders \cup {t}
          /\ overlapped' = (overlapped \/ holders # {})
          /\ goto(t, "gotit")
          /\ UNCHANGED i
       \/ /\ mayMiss
          /\ i' = nextIteration(t)
          /\ goto(t, "for")
          /\ UNCHANGED <<holders, overlapped>>
    /\ UNCHANGED <<mem, loaded, reg, j, before, main, result>>

\* The load of x++
Load(t, x) ==
    /\ pc[t] = x
    /\ ~loaded[t]
    /\ reg' = [reg EXCEPT ![t] = mem[x]]
    /\ loaded' = [loaded EXCEPT ![t] = TRUE]
    /\ UNCHANGED <<mem, holders, overlapped, pc, i, j, before, main, result>>

\* The store of x++, and the statement the thread goes on to
Store(t, x, label) ==
    /\ pc[t] = x
    /\ loaded[t]
    /\ mem' = [mem EXCEPT ![x] = reg[t] + 1]
    /\ loaded' = [loaded EXCEPT ![t] = FALSE]
    /\ goto(t, label)
    /\ UNCHANGED <<holders, overlapped, reg, i, before, main, result>>

\* gotit++
GotIt(t) ==
    \/ Load(t, "gotit")
    \/ Store(t, "gotit", "before") /\ UNCHANGED j

\* Faulty variant: j is not set back for the next block.
BeforeKeepingJ(t) ==
    /\ pc[t] = "before"
    /\ before' = [before EXCEPT ![t] = mem["count"]]
    /\ goto(t, "count")
    /\ UNCHANGED <<mem, holders, overlapped, loaded, reg, i, j, main, result>>

\* int before = count, and the head of for ( int j=0; j<2000; j++ )
Before(t) ==
    /\ pc[t] = "before"
    /\ before' = [before EXCEPT ![t] = mem["count"]]
    /\ j' = [j EXCEPT ![t] = 0]
    /\ goto(t, "count")
    /\ UNCHANGED <<mem, holders, overlapped, loaded, reg, i, main, result>>

\* Faulty variant: the inner loop ends one count++ early.
CountOneShort(t) ==
    \/ Load(t, "count")
    \/ /\ Store(t, "count", IF j[t] + 2 < Increments THEN "count" ELSE "after")
       /\ j' = [j EXCEPT ![t] = @ + 1]

\* count++, j++ and the test of j
Count(t) ==
    \/ Load(t, "count")
    \/ /\ Store(t, "count", IF j[t] + 1 < Increments THEN "count" ELSE "after")
       /\ j' = [j EXCEPT ![t] = @ + 1]

\* Faulty variant: the comparison against the wrong bound.
AfterOffByOne(t) ==
    /\ pc[t] = "after"
    /\ goto(t, IF before[t] + Increments + 1 # mem["count"] THEN "errors" ELSE "unlock")
    /\ UNCHANGED <<mem, holders, overlapped, loaded, reg, i, j, before, main, result>>

\* int after = count; if ( before + 2000 != after )
After(t) ==
    /\ pc[t] = "after"
    /\ goto(t, IF before[t] + Increments # mem["count"] THEN "errors" ELSE "unlock")
    /\ UNCHANGED <<mem, holders, overlapped, loaded, reg, i, j, before, main, result>>

\* errors++
Errors(t) ==
    \/ Load(t, "errors")
    \/ Store(t, "errors", "unlock") /\ UNCHANGED j

\* Faulty variant: the thread goes on to its next attempt with the lock.
UnlockKept(t) ==
    /\ pc[t] = "unlock"
    /\ i' = nextIteration(t)
    /\ goto(t, "for")
    /\ UNCHANGED <<mem, holders, overlapped, loaded, reg, j, before, main, result>>

\* current->unlock(), and the i++ of the outer loop
Unlock(t) ==
    /\ pc[t] = "unlock"
    /\ holders' = holders \ {t}
    /\ UNCHANGED overlapped
    /\ i' = nextIteration(t)
    /\ goto(t, "for")
    /\ UNCHANGED <<mem, loaded, reg, j, before, main, result>>

runThread(t) ==
    \/ For(t) \/ LockTry(t) \/ GotIt(t) \/ Before(t)
    \/ Count(t) \/ After(t) \/ Errors(t) \/ Unlock(t)

(***************************************************************************)
(* run                                                                     *)
(***************************************************************************)
\* l.push_back( ... new boost::thread( runThread ) ): a thread runs from the
\* moment it is made, while the others are still being made.
Spawn(t) ==
    /\ main = "spawn"
    /\ pc[t] = "unborn"
    /\ goto(t, "for")
    /\ UNCHANGED <<mem, holders, overlapped, loaded, reg, i, j, before, main, result>>

\* The joins, and return count == gotit * 2000 && errors == 0
Join ==
    /\ main = "spawn"
    /\ \A t \in Threads : pc[t] = "returned"
    /\ main' = "done"
    /\ result' = (mem["count"] = mem["gotit"] * Increments /\ mem["errors"] = 0)
    /\ UNCHANGED <<mem, holders, overlapped, pc, loaded, reg, i, j, before>>

Next ==
    \/ \E t \in Threads : Spawn(t) \/ runThread(t)
    \/ Join

Spec == Init /\ [][Next]_vars

\* Every thread that can take a step is scheduled in the end, and so is
\* run().
FairSpec ==
    /\ Spec
    /\ \A t \in Threads : WF_vars(Spawn(t) \/ runThread(t))
    /\ WF_vars(Join)

(***************************************************************************)
(* What is checked.                                                        *)
(***************************************************************************)
Labels == {"unborn", "for", "lock_try", "gotit", "before", "count", "after",
           "errors", "unlock", "returned"}

\* The type of every variable; a thread is between the load and the store
\* of an x++ only where the source has one, and holds the lock from gotit++
\* to unlock().
TypeOK ==
    /\ mem \in [Statics -> Nat]
    /\ holders \subseteq Threads
    /\ overlapped \in BOOLEAN
    /\ pc \in [Threads -> Labels]
    /\ loaded \in [Threads -> BOOLEAN]
    /\ reg \in [Threads -> Nat]
    /\ i \in [Threads -> 0 .. Iterations]
    /\ j \in [Threads -> 0 .. Increments]
    /\ before \in [Threads -> Nat]
    /\ main \in {"spawn", "done"}
    /\ result \in BOOLEAN
    /\ \A t \in Threads : loaded[t] => pc[t] \in Statics

\* With a lock that excludes the test passes: run() returns true whatever
\* the schedule of the threads.  The statics are plain ints and every x++
\* of runThread a load and a store; that none of them is lost rests on all
\* of them lying between lock_try and unlock().
TestPasses == (Excludes /\ main = "done") => result

\* The three counters are related while the test runs, not only when run()
\* looks at them: under a lock that excludes, count lags behind gotit only
\* by what the holder has still to add, and catches up when it unlocks.
CountWithinHolders ==
    Excludes =>
        /\ mem["gotit"] <= Cardinality(Threads) * Iterations
        /\ mem["count"] <= mem["gotit"] * Increments
        /\ holders = {} => mem["count"] = mem["gotit"] * Increments

\* The test blames the lock only when the lock is to blame: whatever the
\* lock does, run() returns false only if some thread got the lock while
\* another had it.  The comparison before + 2000 != after and the check of
\* run() allow for everything the threads do by themselves.
FailureMeansOverlap == (main = "done" /\ ~result) => overlapped

\* run() returns, and with the lock free: lock_try does not wait, so a
\* thread that never gets the lock still comes to the end of its attempts
\* and the joins end; and every way through the body of the loop, the one
\* through errors++ included, ends in unlock(), so that no thread returns
\* with the lock that run() then drops (distlock_test.cpp:74).
RunReturns == <>(main = "done" /\ holders = {})

=============================================================================
