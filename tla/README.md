# TLA+ models of the capped storage engine, the query optimizer cursor and the lock test

This directory holds the TLA+ specifications kept beside the repository's
capped-collection storage code (`src/db/cap.cpp`), the test suite of the query
optimizer cursor (`src/src/mongo/dbtests/queryoptimizercursortests.cpp`) and
the distributed lock test (`src/client/distlock_test.cpp`), the TLC
configurations that check them, and `PROJECT.json`, which lists components,
runs, the faulty variants each property is tested against, the map from
definitions to source lines, findings and hazards.

Run a check with `tlc -workers 2 -config <cfg> <module>`, for example
`tlc -workers 2 -config MCCapped_structure.cfg MCCapped`.

## 1. The system

The specification (`spec.md`) describes a query execution core (cursors, plan
generator, multi-plan racer, `$or` driver) over a storage layer with capped
collections. Of these the repository's `src/` holds the implementation of the
capped storage engine and of the lock test command, and the test suite that
drives the query optimizer cursor; the implementation of the cursor itself is
not in `src/`, and the other parts are present as declarations (`btree.h`,
`Value.h`, `ExpressionFieldPath.h`) or as tests of pure functions
(`jsobjtests.cpp`).

| Part | Source | State | Operations | Model |
|---|---|---|---|---|
| Capped storage engine | `db/cap.cpp` 57-105, 131-263, 284-450 | `deletedList[0..1]`, `capExtent`, `capFirstNewRecord`, `stats.nrecords`, per extent `firstRecord`/`lastRecord`, record and deleted-record headers | `compact`, `advanceCapExtent`, `__capAlloc`, `cappedAlloc`, `cappedTruncateAfter`, `emptyCappedCollection` | `Capped`, `CappedQueue` |
| Legacy-format migration | `db/cap.cpp` 107-129 | the per-bucket deleted lists, `nextDeleted`, `capExtent`, `capFirstNewRecord` | `cappedCheckMigrate` | `CappedMigrate` |
| Collection, indexes, recorded plans | not in `src/` (specification) | documents by location, indexes, multikey flags, plan cache, write count | insert, remove, update, ensureIndex, dropIndex, drop, invalidate | `QueryData` |
| Cursors, multi-plan racer, DupSet, CachedMatchCounter, plan generator, `$or` driver | not in `src/` (specification), pinned down by the tests | one child per plan with its position and match counter, the queue of the rotation, the dup set, the clause, the cursor that took over | `newQueryOptimizerCursor`, `advance`, `currentMatches`, `getsetdup`, `noteIterate`, `prepareToYield`, `recoverFromYield`, touch-earlier-iterate, `abortOutOfOrderPlans`, kill | `QueryOptimizerCursor` |
| Cursor generator | not in `src/` (specification), pinned down by the tests | none of its own: it reads the collection and the parsed query | `NamespaceDetailsTransient::getCursor` | `CursorGenerator` |
| Explain output | not in `src/` (specification), pinned down by the tests | per clause its counters and one plan info per plan, each with its copy of the cursor's `nscanned` and `isMultiKey` | `notePlan`, `noteIterate`, `noteDone`, `notePicked`, `noteYield`, `bson` | `Explain` |
| Test suite of the cursor | `dbtests/queryoptimizercursortests.cpp` 49-4093 | the collection, `_c`, the locals of a test | class `Base` and 135 tests | `QueryOptimizerCursorTests`, `QueryTestsRace`, `QueryTestsPlans`, `QueryTestsYield`, `QueryTestsOrder`, `QueryTestsPlanChecking`, `QueryTestsGetCursor`, `QueryTestsExplain` |
| A scan that yields to a writer | `Base` (lines 203-240) and the writes of the yield tests | as above, with a second client | `setQueryOptimizerCursor`, `advance`, `prepareToYield`, `recoverFromYield`; insert, remove, update, dropIndex, dropCollection, invalidate, kill | `QueryYield` |
| Distributed lock test | `client/distlock_test.cpp` 36-96 | the static ints `count`, `gotit`, `errors`; who has the lock | `run`, `runThread` on four threads | `DistLockTest` |
| Nonce and authentication commands | `db/security.cpp` | none | reads the random device | not modelled (I/O) |
| B-tree, Value, ExpressionFieldPath, BSON tests | headers, tests | none in `src/` | none | not modelled |

How the capped engine's parts interact: an insert calls `cappedAlloc`, which
loops over `__capAlloc` (take free space in `capExtent`), `advanceCapExtent`
(move to the next extent, cyclically), `deleteRecord` of the oldest record and
`compact` (merge the free space of `capExtent`). `cappedTruncateAfter` deletes
from the new end, calls `compact` after every delete and moves `capExtent`
*backwards*, rebuilding the two cached pointers `capFirstNewRecord` and
`cappedLastDelRecLastExtent()`. All of them share the one deleted list and the
four namespace fields, and each relies on what the others left there.

What makes it hard: the state is a pointer structure with cached positions
that every operation must keep in step; allocation skips extents, deletes as
it searches and may fail after it has deleted; truncation undoes allocation's
moves from states allocation never thought of; the migration writes field by
field into a mapped file and may be killed between writes. None of it is
concurrent: the callers hold the database write lock, so a call is one step.

How the query side interacts: a query optimizer cursor stands in front of one
child cursor per candidate plan. Each `advance` gives the next child of a
rotation one step; the caller (class `Base`) shows a document only if it
matches and `getsetdup` has not seen its location. The first child to finish
ends the clause, a child with 101 matches takes the rest of the query over and
its plan is recorded for the query pattern; a later query of that pattern
starts with the recorded plan alone and gets the others when it disappoints.
Between two documents the caller may yield the lock: each child saves its
position, other clients write, and `recoverFromYield` puts every child back on
an entry that still exists, or loses it.

`getCursor` stands in front of the racer: where one plan is certain to be
right (no constraints, an equality on `_id`, a hint, a single candidate) it
hands out the cursor of that plan, and the racer otherwise; the caller's
policy (`any`, `indexOnly`, `idElseNatural`) and `$snapshot` take part in the
choice. With `$explain` the racer keeps an explain tree, which is told of
every step from three sides: by each plan when it looks at a document, by the
client when it has decided about one (`noteIterate`), and by the cursor that
has taken the query over.

What makes that hard: which document comes next depends on the rotation, on
the counters of every child and on what was written during every yield; a test
fixes one interleaving, and the properties (nothing twice, nothing skipped,
nothing read that is gone) are about all of them.

The lock test is the one program of `src/` with threads: four threads of one
process share three plain ints and one `DistributedLock`, and the command's
verdict on the lock is computed from those ints.

## 2. Modules

### `Capped.tla`

The state is the persisted namespace: the variables carry the names of the
fields (`deletedList`, `capExtent`, `capFirstNewRecord`, `nrecords`, `ext`,
`rec`, `drec`), and `ret` records how the last call ended. A `DiskLoc` is a
record `[a, ofs]`, `a` being the extent and `ofs` the offset in its record
area; `Null` and `Invalid` are the two reserved values that the tri-state
`capFirstNewRecord` needs.

Every method of `cap.cpp` is an operator from a storage image (a record of
all fields) to a storage image, with the method's name; its loops are
`RECURSIVE` operators (`AllocLoop`, `TruncateLoop`, the walks of the deleted
list). An action (`Insert`, `TruncateAfter`, `EmptyCapped`) applies the whole
call to the current state. An `assert` or `massert` that fails ends the call
with its code in `ret` and with whatever had been written before it
(`Fail`); the codes in `Faults` stop the behaviour (`Running`), the user-level
outcomes (`DocumentTooLarge`, `uassert13415`, `massert13425`, `massert13426`)
do not.

The code that `cap.cpp` calls in other files (`addDeletedRec`,
`deleteRecord`, the split of an allocated region and the linking of the new
record by the insert path) is not in `src/`; it is modelled from the
specification and marked `spec_modelled` in the map. So is the order in
which a forward capped cursor reads the collection (`NaturalOrder`), which
the properties need.

Abstracted: record payloads (a record is its location and length), the
`extentOfs` field (the extent is part of the location), logging,
`ClientCursor::invalidate`, `assertOk`, the bound `len < 400000000`, and
`datasize` (implied by the tiling of the extents).

### `CappedQueue.tla`

The abstract specification: what the collection promises its readers. The
state is a sequence of records, oldest first. `Insert` appends one record and
may drop records from the old end; `TruncateAfter` drops from the new end and
never the last record; `Empty` clears; the refused calls leave the queue as
it is, except `InsertRefused`, which leaves it empty (finding 5 below).
`Capped` instantiates it with `queue <- NaturalOrder, outcome <- ret`, and
`QueueSpec` states that every behaviour of `Capped` is one of `CappedQueue`.

### `CappedMigrate.tla`

`cappedCheckMigrate`, one action per write to the mapped namespace (`Call`
for the test of line 110 and the write of line 112, `Bucket` for the loop
head and the walk, `Link`, `Head`, `Clear` for lines 120, 121, 122, `Finish`
for line 127). `Kill` ends the process between any two of them: the written
fields stay, the local variables `i`, `first`, `last` are lost, and `Call`
runs the method again, as opening the collection does. `Close` closes a
migrated collection so that the method is called once more on the new format.
`WalkForever` is the walk of line 119 on a list that does not end. `Init`
enumerates every layout of the deleted records on the lists of the old
format.

The deleted records are model values: their sizes and extents play no part in
the method.

### `DistLockTest.tla`

`run()` and `runThread` of `distlock_test.cpp`. A thread has a program
counter `pc` over the statements of `runThread` (`for`, `lock_try`, `gotit`,
`before`, `count`, `after`, `errors`, `unlock`) and its locals `i`, `j`,
`before`; `mem` holds the statics. A step is one access to shared memory:
every `x++` is a `Load` into the thread's `reg` and a `Store` of `reg + 1`,
which is what an increment of a plain int compiles to and what makes a lost
update possible. `Spawn` starts a thread, which runs while the others are
still being made; `Join` is enabled when all have returned and computes the
result of line 81.

The lock is the thing under test and its code is not in `src/`. It is
modelled by what `lock_try` may answer: with `Excludes` true, success exactly
when nobody has the lock; with `Excludes` false, also while another thread
has it, the lock the command exists to catch. `holders` is the set of threads
that have it, and the history variable `overlapped` remembers whether two
ever had it at once.

### `QueryData.tla`

The collection as the query side sees it. A document is a function from field
names to sets of integers (a scalar is a singleton, an array has one element
per member, which is what makes an index multikey); a location is a natural
number handed out in increasing order; a predicate is a set of closed
intervals per field; an index is the set of its entries `<<key, location>>` in
key order. `db` is a record `[docs, nextLoc, indexes, multikey, cap, cache,
writes, epoch]`, and every write of the database client is an operator from
`db` to `db`: `Insert` (which removes the oldest document of a full capped
collection), `Remove`, `Update`, `EnsureIndex`, `DropIndex`,
`DropCollection`, `InvalidateCursors`. Values that are not numbers (null, a
string, a boolean) are keys outside `MinKey..MaxKey`, in the order of the BSON
types. Every write counts against the
recorded plans (`NoteWrite`), which are dropped after `CacheWrites` writes.
All of it is modelled from the specification.

### `QueryOptimizerCursor.tla`

The racer. The cursor `c` is a record: the query and the clause it is in, the
children `ops` (each with its index, position, match counter and error flag),
the `queue` of the rotation and the child `cur` whose turn it was, the dup set,
the cursor `tk` that took over, and the flags `done`, `threw`, `killed`,
`yielded`. Every operation of the cursor is an operator from a world
`[db, c]` to the world after it: `NewCursor`, `Advance` (which runs `RunOp`
on the next child, and through it `MayAdvance`, `EndClause`, `Takeover`,
`AddRemainingPlans`), `NoteDup`, `PrepareToYield`, `RecoverFromYield`,
`RecoverFromTouchingEarlierIterate`, `WithoutOutOfOrderPlans`, `Kill`,
`NoteMatch` (what `currentMatches` caches) and `NoteIterateCall`. The plan
generator is `CandidatePlans`, `Admitted` (a plan that does not give the
order, for a caller that cannot sort), `Permitted` (the policy), `AllPlans`,
`Recorded`, `Plans` and `RecordPlan`; `Scanner` decides whether a `$or` is
run clause by clause (`RunAsOr`, `UselessOr`); the `$or`
driver is `ClausePossible`, `NextClause` and `PoppedBy`; `SmallDupSet` and
`CachedMatchCounter` are operators on their own records.

The implementation is not in `src/`: the module is written from the
specification and marked `spec_modelled` in the map. Where the specification
and the tests disagree the module follows the tests (findings 6 to 9), and
run `query_tests` is what holds it to them.

The race is a recursion (a step may end a clause, which starts the next,
whose first step may end it); each of its operators computes the state it
branches on once and hands it to a helper (`Ran`, `Racing`, `Started`, the
`Takeover...` operators), so that no intermediate state is written twice.

On recovery from a yield a child is `Lost` when the cursors of the namespace
were invalidated since it yielded (by a drop of an index or of the
collection, or by `ClientCursor::invalidate`), wherever it stands, or when it
is a table scan whose record a capped collection has overwritten. A lost
child is dropped (`DropLostChild`): it is not a child that finished its scan,
and no plan is recorded for it.

Abstracted: keys are integers and indexes have one field; BSON, projections
other than "the fields of one index", and the client-cursor registry (a
holder and an epoch stand for it).

### `Explain.tla`

The explain tree. A plan info is a record with the plan's counters `n` and
`nscannedObjects`, its flags, and its own copy of the cursor's `nscanned` and
`isMultiKey`, which `NotePlan`, `NoteIterate` and `NoteDone` refresh and
nothing else does. A clause info holds the counters of the client's
`noteIterate`, the yields and the plan infos; `VirtualPickedPlan` is the plan
the clause reports as its own. `QueryBson` is the output: the clause itself
when there is one, else the clauses and their sums, without `nChunkSkips`.
The output is a record of the fields the tests read, not a document of
strings: `"BtreeCursor a_1"` is `<<"BtreeCursor", "a">>`, index bounds are the
constraint of the field. In `QueryOptimizerCursor`, `Explained` and
`PlanNoted` are where the racer tells the tree (`Racing`, `OpMatches`, `Ran`,
`TakeoverScan`, `TakeoverClauseDone`, `RecoverFromYield`).

### `CursorGenerator.tla`

`NamespaceDetailsTransient::getCursor`. `Generate` is the method: the
shortcuts `OptimalNatural` and `OptimalId` (only when
`MayShortcutQueryOptimizer`: no `$min`/`$max`, no projection, no hint), the
cursor of a single plan (`MaySinglePlanCursor`, `SinglePlanCursor`), and
`Race` otherwise. `Hint` orders the hints: `$min`/`$max`, the query's own,
`$snapshot`'s `_id` when the collection has that index, the policy's. A
parsed query is a record of the parts the generator reads; the cursor of one
plan is the racer's record after takeover with the class of the cursor in
`class`. `SimpleEqualityMatch` is what the method stores through its
pointer argument.

### `QueryOptimizerCursorTests.tla` and the `QueryTests*` modules

The test suite, as programs. A test class is a sequence of instructions:
`Call` (a method of the client or of the cursor), `Expect` (an `ASSERT`),
`ExpectAt`, `ExpectHas` and `ExpectSize` (an `ASSERT` about the element of the
explain output at a path), `Jump` and `Goto` (the branches of `while`, `if`
and `do`), `Try` and `Throws` (the beginning and the end of an
`ASSERT_THROWS`), `Set` and `Inc` (a local). The helpers of class `Base`
are instruction sequences with the methods' names and the methods' control
flow (`SetQueryOptimizerCursor`, `BaseAdvance` with its loop over
`mayReturnCurrent`, `Itcount`, `BaseRecoverFromYield`); a `for` loop with
constant bounds is the concatenation of its bodies, a `while` loop is a jump
back. A test class is translated statement by statement under its own name,
and the map gives its lines.

The state is the test being run (`test`), its instruction (`pc`), the world
`w` and the locals `r`. One step executes one instruction: `DoCall` applies
the whole method to the world and, if it threw, goes on at the end of the
`ASSERT_THROWS` the test is in, or at the end of the test when it is in
none,
`DoAssert` passes an assertion, `DoJump`, `DoGoto`, `DoSet` and `DoInc` are
the control flow, `DoTry` enters an `ASSERT_THROWS` and `DoCatch` leaves it.
An accessor of the cursor that asserts `ok()` (the ones `Empty` expects to
throw, lines 262-275) is a `Call` of `access` where a test expects the
exception, and one of the observations `AssertsOk` where a test reads its
value. `Init` starts any of
the tests on an empty namespace, as `Base`'s constructor does. The suites are
`RaceTests` (DupSet, match counter, interleaving, takeover, `$or`),
`PlanTests` (manual matching, multikey, recorded plans, range elimination),
`YieldTests`, `OrderTests` (order, kill, nscanned, touch-earlier-iterate,
client cursors), `PlanCheckingTests`, `GetCursorTests` (namespace
`GetCursor` with `RequireIndex` and `IdElseNatural`), `ExplainTests`
(namespace `Explain`) and `RecordedPlanTests`
(`RequireIndex::RecordedUnindexedPlan`, which runs an explain query first);
the map gives each list the lines of class `All` that register its tests.

### `QueryYield.tla`

The interleavings no test replays. A client scans through `Base`'s methods
(`setQueryOptimizerCursor`, `advance`, `prepareToYield`, `recoverFromYield`,
each a whole method with its loop over `mayReturnCurrent`); while it is
yielded a writer inserts, removes, updates, drops an index (`dropIndex`,
as in `YieldDropIndex`), drops the collection (`dropCollection`, as in
`YieldDrop` and `YieldDropOr`) or invalidates, in any number and order within
the bounds; `kill` interrupts the operation at any time. The
scan starts on any of the collections, with any of the queries and in any
of the orders of the configuration; a scan with an order is one whose caller
cannot sort, as `Base`'s is. The history variables `returned`, `again`,
`initial`, `touched` and `hit` record what the client was shown and what was
written;
`parity` counts the client's steps modulo 2 for the fairness condition.

### `MCCapped.tla`, `MCCappedMigrate.tla`, `MCDistLockTest.tla`, `MCQueryTests.tla`, `MCQueryYield.tla`

The values the configurations give the constants: extent layouts, sets of
record lengths, the set of deleted records, the sets of threads and their
symmetry, the list of all tests, and the collections, queries and writes of
the yielding scan.

## 3. Runs

| Run | Configuration | Bounds | Checks | Result |
|---|---|---|---|---|
| `structure` | `MCCapped_structure.cfg` | extents 96, 96, 96; lengths 28, 40; no record limit | `QueueSpec`, `TypeOK`, `DeletedListWellFormed`, `ExtentsTiled`, `RecordChainsWellFormed`, `CapExtentDeletedReachable`, `CapExtentHoldsNewest`, `NoAssertionFails` | pass, 1451 states |
| `fifo` | `MCCapped_fifo.cfg` | extents 128, 128; lengths 28, 48, 108; at most 4 records | `MaxObjectsRespected`, `NoAssertionFails`, `QueueSpec`, `TruncateAfterExact` | pass, 4235 states |
| `skipping` | `MCCapped_skipping.cfg` | extents 160, 64; lengths 28, 48, 140 | `DeletedListWellFormed`, `ExtentsTiled`, `CapExtentDeletedReachable`, `InsertRefusedOnlyIfTooLarge` | pass |
| `assert382` | `MCCapped_assert382.cfg` | extents 96, 96, 96; lengths 28, 40; at most 4 records | `NoAssertionFails` | violated |
| `emptyextent` | `MCCapped_emptyextent.cfg` | extents 96, 64, 96; lengths 28, 48 | `CapExtentHoldsNewest` | violated |
| `migrate_safety` | `MCCappedMigrate_safety.cfg` | 3 buckets, 3 deleted records, at most 2 kills; fair | `TypeOK`, `UnkilledMigrationWellFormed`, `NoDeletedRecordLost`, `MarkedMigratedLast`, `CompletesKilledOnce` | pass, 2700 states |
| `migrate_rerun` | `MCCappedMigrate_rerun.cfg` | same, at most 1 kill | `MigratedListWellFormed` | violated |
| `distlock_excluding` | `MCDistLockTest_excluding.cfg` | 3 threads, 2 attempts, 2 increments; the lock excludes; threads symmetric | `TypeOK`, `TestPasses`, `CountWithinHolders` | pass, 4632 states |
| `distlock_faulty` | `MCDistLockTest_faulty.cfg` | 2 threads, 2 attempts, 2 increments; the lock does not exclude; fair | `FailureMeansOverlap`, `RunReturns` | pass, 172446 states |
| `query_tests` | `MCQueryTests_all.cfg` | the 135 tests with the numbers of the server: takeover at 101 matches, dup set of 540, plans dropped after 1000 writes | `TypeOK`, `AssertionsHold`, `ExceptionsExpected` | pass, 105304 states |
| `query_yield` | `MCQueryYield_scan.cfg` | 3 collections of 3 documents, 4 queries, 2 orders, 2 scans, 2 yields, 2 writes; takeover at 2 matches, dup set of 2; fair | `TypeOK`, `UntouchedReturnedOnce`, `UntouchedMatchesReturned`, `PositionsAreEntries`, `OverwriteNoticed`, `RecordedPlansExist`, `ScanEnds`, `OrderPreserved` | pass, 229918 states |

### Why these bounds

The state space of `Capped` is finite without any counter being capped: the
extents are fixed and a record is at least 28 bytes, so TLC explores every
sequence of calls to the end.

* Lengths are multiples of 4, as allocation sizes are. 28 and 40 (or 48) give
  two to four records per extent, free remainders both above and below the
  24-byte reserve, and merges in `compact`; with one length only, every
  extent would tile the same way and `compact` would never merge.
* Three equal extents (`structure`) exercise advancing, looping and backing up
  through a middle extent. Two extents of 128 (`fifo`) keep the
  refinement check, which evaluates the natural order in both states of every
  step, within minutes. The length 108 fits no extent of 128 with the
  reserve, so `DocumentTooLarge` happens.
* `skipping` has a second extent that the 48-byte records do not fit with
  their reserve (64 < 48 + 24): allocation skips it, meets empty extents and
  comes around. Assertions do fail in this layout (finding 2), so this run
  does not claim `NoAssertionFails`, its invariants speak of the states in
  which the last call returned, and deadlock is not checked because a
  behaviour ends where an assertion failed.
* A record limit of 4 is below what two extents of 128 hold (8 records of
  28), so the limit decides when the oldest record goes for short records and
  the space for long ones. `structure` checks the refinement without a limit.
* `MinMaxPasses` is 5000 as in the source; no run comes near it.
* The migration is checked with 3 buckets (bucket 0, which collects; bucket 1,
  which the new format reads as `cappedLastDelRecLastExtent()`; one more) and
  3 deleted records: enough for a bucket list of two records to be linked in
  front of a non-empty bucket 0, which is what the kill scenarios need. Two
  kills are the least that make the walk spin, which is why
  `CompletesKilledOnce` speaks of executions with at most one.
* The lock test runs 4 threads, 1000 attempts and 2000 increments. What the
  properties tell apart needs two threads under the lock at once, a second
  attempt of a thread after its first (so that `j` and `before` are set
  again and a failed attempt meets a later success), and an inner loop of
  more than one `count++` (so that an overlap can fall inside or outside
  it): 2 attempts and 2 increments. Three threads are used where the lock
  excludes and the state space allows it; with the faulty lock two threads
  already give every overlap of a pair. `count` stays below 8,000,000 in the
  source, far from the width of an int, so the counters are naturals.
  Deadlock is not checked in these runs: `run()` returns and the behaviour
  ends there.

* `query_tests` runs the tests with the numbers of the server and of the
  tests themselves (collections of up to 450 documents, takeover at 101
  matches, a dup set that overflows at 540): a test is deterministic, so its
  behaviour is one path, and the 135 paths together are 105304 states. Keys run
  from -1, the least value a predicate of the tests names, to 1000.
* `query_yield` scales the numbers down so that every case happens within
  three documents: takeover after 2 matches (so that a scan is taken over
  before, at and after a yield), a dup set that overflows at 2, other plans
  added as soon as the recorded plan has scanned what it did when it was
  recorded. The collections are one with scalar keys and two indexes, one with
  an array (a multikey index, where one document has two entries), and a
  capped collection that is full, so that the writer's first insert
  overwrites. The queries are a conjunction on both indexed fields (three
  plans race), two `$or`s (one whose second clause overlaps the first) and the
  empty query (table scan). A scan asks for no order or for the order of
  `a`, as a caller that cannot sort: for the conjunction the index on `b`
  and the table scan are then out of order and only the index on `a` may
  run, for a `$or` every clause must be scanned in the order of `a`, and
  the plan a scan without order recorded may be one the ordered scan of
  the same predicate must not take. Two scans let the second start from
  the plan the first recorded; two yields with two writes between them give remove
  after remove, update after insert, and a write in each of two yields. The
  writer inserts one document, removes by two predicates and updates by one:
  each changes the entries of at least one index a child stands on; it drops
  the index on `a` or on `b`, whichever the collection has, or the
  collection: with two writes both indexes go, or an index and then the
  collection, and with two scans the second starts on what is left, with the
  plan cache the drop emptied. Deadlock is not checked: a scan that is done, with the bounds used up, stops.

### Fairness

`Capped` has only safety properties: nothing in it must eventually happen.
`CompletesKilledOnce` is checked under `WF_vars(Step)`, `Step` being the steps
of the method itself: a process that is not killed executes its next
instruction. No fairness is assumed for `Kill` or `Close`; `MaxKills` bounds
the kills, as a liveness property needs a last one.

`RunReturns` is checked under weak fairness of every thread's steps and of
`Join`: the threads are `boost::thread`s of a preemptive scheduler, each of
which runs when it can, and a step of a thread is enabled until it is taken
(`lock_try` never waits). No fairness is assumed about which answer
`lock_try` gives.

`ScanEnds` is checked under weak fairness of the client's own steps,
`advance` and `recoverFromYield`: the client is one thread that goes on with
its scan, advancing when it holds the lock and recovering when it gets the
lock back. No fairness is assumed for the writer, for `kill`, for
`prepareToYield` (a client need not yield) or for starting another scan.
The condition is written on states, `[]<>(pc \notin {"open", "yielded"}) \/
([]<>parity /\ []<>~parity)`: one of the two steps is enabled exactly when
the scan is open or yielded, and they are the steps that flip `parity`, so
the formula says what `WF_vars(advance \/ recoverFromYield)` says. TLC
evaluates it once per state, where the action of a `WF` formula is evaluated
for every pair of states, which the recursive operators of the race make too
costly. The tests need no fairness: `query_tests` checks invariants of
deterministic programs.

## 4. Properties

Each property is stated in a comment above its definition. In short:

* `DeletedListWellFormed`, `ExtentsTiled`, `RecordChainsWellFormed`: the
  deleted list is a list of exactly the deleted records, every byte of every
  extent belongs to exactly one record, the record chains are doubly linked
  and counted.
* `CapExtentDeletedReachable`, `CapExtentHoldsNewest`: the cached pointers
  `cappedLastDelRecLastExtent()`, `capExtent` and `capFirstNewRecord` say what
  the allocator takes them to say, after moves forward and backward.
* `NoAssertionFails`: no `assert` or `massert` of `cap.cpp` fails.
* `MaxObjectsRespected`: the record limit.
* `QueueSpec`: the refinement of `CappedQueue` (properties 5 and 6 and
  scenario S6 of the specification).
* `TruncateAfterExact`: a truncation that returns removed exactly what lay
  behind `end`.
* `InsertRefusedOnlyIfTooLarge`: an insert is refused only if no extent could
  hold the record.
* `MigratedListWellFormed`, `NoDeletedRecordLost`, `MarkedMigratedLast`,
  `CompletesKilledOnce`: the result of the migration, what a kill may not
  destroy, and termination of a migration that was killed at most once.
  `UnkilledMigrationWellFormed` is the first of them for a migration that was
  never killed. `MigrationCompletes`, termination after any number of kills,
  is defined and does not hold (finding 4).
* `TestPasses`, `CountWithinHolders`: with a lock that excludes, no increment
  of the plain ints is lost and the command reports success, in every
  schedule.
* `FailureMeansOverlap`: the command reports failure only if two threads did
  have the lock at once. The converse is not claimed by the source and is
  not checked: an overlap that loses no update goes unnoticed.
* `RunReturns`: `run()` returns, with the lock free.
* `AssertionsHold`, `ExceptionsExpected`: every `ASSERT` of every test class
  holds in the model when the test comes to it; the statement inside an
  `ASSERT_THROWS` throws, no statement outside one does, and no test reads
  an accessor that asserts `ok()` on a cursor that is not ok. These hold the model of the cursor, which
  is written from the specification, to what the code in `src/` says of it.
* `UntouchedReturnedOnce`: the client is shown a document a second time only
  if it was written to in between, whichever plans race, whichever takes
  over and wherever the scan yields.
* `UntouchedMatchesReturned`: a scan that ends without an exception has
  returned every document that matched when it began and was not written to.
* `PositionsAreEntries`: whenever the client holds the lock, every child
  stands on an entry of its index as it is now, and that index is one the
  collection still has.
* `RecordedPlansExist`: a plan recorded for a query pattern is the table
  scan or an index the collection has, whether the scan that chose it ended
  before an index was dropped or was yielded over the drop.
* `OverwriteNoticed`: a table scan that stood on a record which was
  overwritten while it was yielded does not go on from it.
* `ScanEnds`: every scan ends.
* `OrderPreserved`: a scan that asked for an order never steps back in it
  from one document it shows to the next, among the documents nobody wrote
  to, wherever it yielded and whichever plan was recorded. It is an action
  property, `[][InOrderStep]_vars`: it compares the document the client
  stood on before a step with the one it stands on after it.
* `TypeOK` of the two query modules includes the shape of the race: the queue
  holds every child that is not lost exactly once, and a cursor is racing,
  taken over or done, never two of these.

Every property of a passing run is also checked against a faulty variant of
the model, defined next to the definition it replaces (`SetFirstDeletedAtHead`,
`CoalesceDroppingLength`, `keepLastDelRecLastExtent`, `backUpKeepingFirstNew`,
`maxPassesNoFloor`, `mayAllocAlways`, `newestInCapExtent`,
`anyExtentAfterEmpty`, `stopsAtEndAlways`, `blankKeepingCount`, `NoReserve`,
`walkPastEnd`, `noWalk`, `LinkNothing`, `LinkToNewHead`,
`moreBucketsButLast`, `moreAttemptsInclusive`, `BeforeKeepingJ`,
`CountOneShort`, `AfterOffByOne`, `UnlockKept`, `AbortedLeftInQueue`, `AdmittedInAnyOrder`,
`AdvanceUnchecked`, `KillIgnored`, `FinishedKeepingChildren`, `matchesOnly`,
`RecoveredOpSkipping`, `RecoveredOpInPlace`, `LostByEpochOnly`,
`CompleteLostChild`, `advanceLoopInPlace`): with the variant in place TLC reports the property
violated. `PROJECT.json` lists the pairs.

## 5. Findings

1. **`assert(!theCapExtent()->firstRecord.isNull())`, cap.cpp:382, fails.**
   Run `assert382`. With a record limit the collection loops while the last
   extent has never been written; a truncation that deletes
   `capFirstNewRecord` in the first extent backs into that empty extent. The
   assertion comes after `capExtent` has been written.
2. **`capExtent` is left at an empty extent, cap.cpp:333.** Run `emptyextent`.
   Before the first loop the truncation backs up to `xprev`, which allocation
   may have skipped. An inclusive truncation returns in that state; a
   non-inclusive one fails `assert(!curr.isNull())` at line 298.
3. **The migration is not idempotent under a kill, cap.cpp:120-122.** Run
   `migrate_rerun`: killed once and run again, it returns with a circular
   deleted list.
4. **The migration may never return, cap.cpp:119.** Killed twice, the walk
   of line 119 meets the circular list of finding 3 and has no bound.
   `MigrationCompletes` (in `CappedMigrate`) states termination for any number
   of kills; put in the place of `CompletesKilledOnce` in
   `MCCappedMigrate_safety.cfg` it is violated.
5. **A refused insert empties the collection, cap.cpp:243.** Not a violation:
   the specification does not say what `DocumentTooLarge` leaves behind, and
   the abstract `InsertRefused` records what the code does.
6. **`nscanned` is not the minimum across the plans,
   queryoptimizercursortests.cpp:1897.** The specification says that before
   takeover the reported `nscanned` is the minimum across the children; test
   `Nscanned` asserts 2 for a cursor whose two plans have each scanned one
   document.
7. **`completePlanOfHybridSetScanAndOrderRequired`, lines 2551, 2705, 2788.**
   The specification makes it true once an in-order plan completes; the tests
   assert false in that case, and true when, among plans of both kinds, the
   plan that completed does not give the order.
8. **No takeover by records scanned, line 2289.** The specification lets any
   plan take over after about 120 scanned records; `NoTakeoverByOutOfOrderPlan`
   asserts that the ordered plan takes over although the table scan has
   scanned and matched more.
9. **How a failed recovery is reported, lines 1311, 1530, 2150, 2187.** The
   specification does not say. The cursor throws when its only plan is lost,
   goes on silently when another plan is left, and
   `ClientCursor::recoverFromYield` throws before takeover (with a TODO in the
   test that it might better return false) and returns false after it.

10. **`$snapshot` without the `_id` index, line 3175.** The specification
   says: if the primary key index exists, use it; else use a table scan.
   `GetCursor::SnapshotWithoutIdIndex` runs a `$snapshot` query on a capped
   collection, which has no `_id` index, and expects `BtreeCursor a_1`:
   without the `_id` index `$snapshot` is ignored and the plans are chosen
   as for any query.

11. **A child at its end when an index is dropped, line 1332.** The
   specification leaves a gap. It says that a child whose recovery fails is
   dropped, that the winner of a race is cached, and that the cache is
   emptied when an index is dropped. It does
   not say what becomes of a child that had come to its end before the
   yield and has not had its turn since; `YieldDropIndex` asserts only
   `!ok()` after the recovery. Were such a child, or any child that lost its
   cursor, completed like one that finished its scan, its plan would be
   recorded after `dropIndex` emptied the cache, and the next query of the
   pattern would start on the dropped index: `RecordedPlansExist` fails with
   `CompleteLostChild` in place of `DropLostChild`. The model takes every
   child of an invalidated namespace for lost and records nothing for it.

Findings 6 to 11 have no run of their own: the model follows the tests, and
`query_tests` passing is what shows that the tests are consistent with one
another under that reading.

What does hold is as much a result: on layouts whose extents all fit every
record, with or without a record limit below the space, the structure is
kept, the order is first-in first-out and exact under truncation; and the
migration, however often it is killed, loses no deleted record and never
marks a half-migrated collection as migrated; the lock test never blames a
lock that excluded, and always returns. Of the query side:
the 135 tests are consistent with one model of the cursor, of the cursor
generator and of the explain output; and in every interleaving of a scan with
two writes in two yields, on plain, multikey and capped collections, no
untouched document comes twice or is skipped, no child is left on an entry
that is gone or on an index that was dropped, no recorded plan names a
dropped index, an overwritten table scan is noticed, an ordered scan stays
in order, and the scan ends.

## 6. Not modelled

* A crash in the middle of `cappedAlloc`, `compact` or `cappedTruncateAfter`:
  these write through the durability layer, which is not in `src/`; the model
  takes a call as atomic. `cappedCheckMigrate` is modelled write by write
  because its own comment reckons with being killed.
* The composition of `Capped` with the cursors. The capped collection of the
  query side is a queue of documents that loses its oldest when full, which
  is what `CappedQueue` says `Capped` implements; the extents and the deleted
  list are not under the cursor, because the extent image multiplied by the
  race is beyond what TLC enumerates.
* Of `queryoptimizercursortests.cpp`, nine tests:
  * `DurationTimerStop`, and the `millis` of the explain output: wall-clock
    time.
  * `ManualMatchingUsingCurrKey`: a regular expression on strings. The
    bounds of its index scan are every string while it matches some; a
    constraint of `QueryData` is one set of intervals for both, and its
    strings are a single key.
  * `OrderMultiIndex`, `TakeoverOrDedups`, `GetCursor::BestSavedOptimal`,
    `RequireIndex::IndexedQuery` and
    `RequireIndex::SecondOrClauseUnindexedUndetected`: an index on several
    fields. Which such index is optimal, how the bounds of its fields
    combine, and what a finished `$or` clause cuts out of the later ones
    when the index has more than one field is decided in the plan
    generator and the range code, which are not in `src/` and which the
    specification describes for one field; five tests, none of which looks
    at a bound, do not pin it down, and a model fitted to them would say
    nothing of the code.
  * `GetCursor::Geo` and `GeoNumWanted`: the cursor of a geo index plugin.
* `ensureIndex` while a scan is yielded. No test creates an index under a
  yielded cursor, and neither the tests nor the specification say whether
  the cursors of the namespace survive it; `QueryYield`'s writer therefore
  drops indexes and does not create them. What is at stake is the
  specification's "after creating an index the next query of any pattern is
  a full race": a scan that went on over the creation would record, at its
  end, a plan chosen without the new index.
* Of `getCursor`: the keys a `$min` or `$max` starts and ends the scan at,
  `skip` and `limit`; no test reads them.
* `DistributedLock` itself (its pings, its lock documents, its timeouts):
  not in `src/`; `DistLockTest` knows only what `lock_try` may answer.
* `security.cpp`: `getNonce` reads the random device, the command returns
  false; no state. `btree.h`, `Value.h`, `ExpressionFieldPath.h`:
  declarations without bodies. `jsobjtests.cpp`: sequential tests of
  comparison and formatting functions whose implementation is not in `src/`.

## 7. Plan

Done: `Capped` with its abstract specification, `CappedMigrate`,
`DistLockTest`, the model of the query optimizer cursor, of the cursor
generator and of the explain output with 135 tests replayed against them,
the yielding scan, ordered and not, with a concurrent writer that also
drops indexes and the collection; eleven runs.

Next, in this order:

1. An abstract specification of a scan (the set of matching documents, each
   once, in the order asked for) that `QueryYield` refines for scans without
   writes. `UntouchedReturnedOnce`, `UntouchedMatchesReturned` and
   `OrderPreserved` state the same promise as properties of `QueryYield`
   today.
2. Indexes on several fields, once the plan generator and the range code
   are in `src/`: a key as a tuple in `QueryData`, and with it the five
   tests listed under "Not modelled".
3. The composition of `Capped` with a forward capped cursor over the extent
   image, in the place of the queue of documents `QueryYield` scans.
4. `DistLockTest` with the lock's own time-out and forced takeover, should
   the lock's source be added to `src/`.
