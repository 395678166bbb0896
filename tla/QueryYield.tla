----------------------------- MODULE QueryYield -----------------------------
(***************************************************************************)
(* A client that scans a collection through the query optimizer cursor the *)
(* way class Base of queryoptimizercursortests.cpp does, and gives up the  *)
(* lock between two documents.  While it is yielded another client writes  *)
(* to the collection: it inserts (and so overwrites the oldest record of a *)
(* capped collection), removes, updates, drops an index or the collection, *)
(* or invalidates the cursors of the namespace; an operator may interrupt  *)
(* the scan at any time.                                                   *)
(*                                                                         *)
(* The test classes replay a handful of these interleavings each; here     *)
(* every one of them within the bounds is taken, for every query, every    *)
(* order and every collection of the model.                                *)
(***************************************************************************)
EXTENDS QueryOptimizerCursor

CONSTANTS
    Collections,    \* the collections a scan may start on
    Queries,        \* the queries the client may ask
    Orders,         \* the orders it may ask them in
    NewDocs,        \* the documents the writer may insert
    Removals,       \* the predicates the writer may remove by
    Updates,        \* the updates <<predicate, field, value>> the writer may make
    Fields,         \* the fields the writer may drop the index of
    MaxCursors,     \* bound on the queries the client asks, one after the other
    MaxYields,      \* bound on the yields of the client
    MaxWrites       \* bound on the writes of the other client

VARIABLES
    db,         \* the collection
    c,          \* the client's cursor, Base::_c
    pc,         \* "idle", "open", "yielded" or "done"
    raised,     \* the scan ended with an exception
    cursors,    \* the queries asked so far
    yields,     \* the yields so far
    writes,     \* the writes so far
    returned,   \* history: the locations the client was shown
    again,      \* history: those it was shown more than once
    initial,    \* history: the locations of the collection when the scan began
    touched,    \* history: the locations written to since
    hit,        \* history: a record a table scan stood on was overwritten
    parity      \* history: whether the steps of the scan so far are odd in number

history == <<returned, again, initial, touched, hit>>
vars    == <<db, c, pc, raised, cursors, yields, writes, history, parity>>

-----------------------------------------------------------------------------
(* class Base, on a world x = [db, c]. *)

\* Faulty variant: the matcher alone, without getsetdup.
matchesOnly(x) ==
    [x |-> x, ret |-> CurrentMatches(x.db, x.c)]

\* Base::mayReturnCurrent: the matcher, then getsetdup of the location.
mayReturnCurrent(x) ==
    IF CurrentMatches(x.db, x.c)
    THEN [x |-> World(x.db, NoteDup(x.db, NoteMatch(x.db, x.c))), ret |-> ~IsDup(x.db, x.c)]
    ELSE [x |-> World(x.db, NoteMatch(x.db, x.c)), ret |-> FALSE]

RECURSIVE ifOkAndNotMayReturnCurrentAdvance(_)
\* The cursor goes on from a document that may not be returned.
unlessReturned(m) ==
    IF m.ret THEN m.x ELSE ifOkAndNotMayReturnCurrentAdvance(Advance(m.x.db, m.x.c))

\* if ( ok() && !mayReturnCurrent() ) { advance(); }
ifOkAndNotMayReturnCurrentAdvance(x) ==
    IF ~Ok(x.c) THEN x ELSE unlessReturned(mayReturnCurrent(x))

\* Faulty variant: the loop without the call of _c->advance().
advanceLoopInPlace(x) == x

\* while( _c->advance() && !mayReturnCurrent() );
advanceLoop(x) == ifOkAndNotMayReturnCurrentAdvance(Advance(x.db, x.c))

Matches(doc, q) == \E j \in DOMAIN q : MatchesClause(doc, q[j])

\* The query the client asked: its clauses, raced one by one or checked by
\* the matcher of a single scan when the $or cannot be run clause by clause.
Asked(cursor) == IF cursor.filter # <<>> THEN cursor.filter ELSE cursor.q

\* The client is shown the document the cursor stands on.
Shown(x) ==
    /\ returned' = IF Ok(x.c) THEN returned \cup {CurrLoc(x.c)} ELSE returned
    /\ again' = IF Ok(x.c) /\ CurrLoc(x.c) \in returned THEN again \cup {CurrLoc(x.c)} ELSE again

\* The outcome x of a method of Base becomes the state.
Becomes(x) ==
    /\ db' = x.db
    /\ c' = [x.c EXCEPT !.threw = FALSE]
    /\ raised' = x.c.threw
    /\ pc' = IF Ok(x.c) THEN "open" ELSE "done"

-----------------------------------------------------------------------------
Init ==
    /\ db \in Collections
    /\ c = NoCursor
    /\ pc = "idle"
    /\ raised = FALSE
    /\ cursors = 0 /\ yields = 0 /\ writes = 0
    /\ returned = {} /\ again = {} /\ initial = {} /\ touched = {} /\ hit = FALSE
    /\ parity = FALSE

\* The first document of a scan is shown.
ShownFirst(x) ==
    /\ Becomes(x)
    /\ returned' = IF Ok(x.c) THEN {CurrLoc(x.c)} ELSE {}

\* Base::setQueryOptimizerCursor, for the first query or for the next one
\* after a scan has ended.
setQueryOptimizerCursor(q, order) ==
    /\ pc \in {"idle", "done"}
    /\ cursors < MaxCursors
    /\ cursors' = cursors + 1
    /\ ShownFirst(ifOkAndNotMayReturnCurrentAdvance(NewCursor(db, q, order, TRUE, NoHint)))
    /\ again' = {} /\ touched' = {} /\ hit' = FALSE
    /\ initial' = DOMAIN db.docs
    /\ UNCHANGED <<yields, writes, parity>>

\* The next document of a scan is shown.
ShownNext(x) == Becomes(x) /\ Shown(x)

\* Base::advance.
advance ==
    /\ pc = "open"
    /\ ShownNext(advanceLoop(World(db, c)))
    /\ parity' = ~parity
    /\ UNCHANGED <<cursors, yields, writes, initial, touched, hit>>

\* Base::prepareToYield.
prepareToYield ==
    /\ pc = "open"
    /\ yields < MaxYields
    /\ yields' = yields + 1
    /\ c' = PrepareToYield(db, c)
    /\ pc' = "yielded"
    /\ UNCHANGED <<db, raised, cursors, writes, history, parity>>

\* A cursor that comes back on the document the client has already been
\* shown, and does not know it for one it returned, stays on it: the client
\* is not shown it again.
ShownOnRecovery(x) ==
    /\ Becomes(x)
    /\ IF Ok(x.c) /\ Ok(c) /\ CurrLoc(x.c) = CurrLoc(c) /\ CurrLoc(c) \notin touched
       THEN UNCHANGED <<returned, again>>
       ELSE Shown(x)

\* Base::recoverFromYield.
recoverFromYield ==
    /\ pc = "yielded"
    /\ ShownOnRecovery(ifOkAndNotMayReturnCurrentAdvance(RecoverFromYield(db, c)))
    /\ parity' = ~parity
    /\ UNCHANGED <<cursors, yields, writes, initial, touched, hit>>

\* killCurrentOp: the next advance of the cursor throws.
kill ==
    /\ pc \in {"open", "yielded"}
    /\ ~c.killed
    /\ c' = Kill(c)
    /\ UNCHANGED <<db, pc, raised, cursors, yields, writes, history, parity>>

-----------------------------------------------------------------------------
(* The other client, while the scan is yielded. *)

Writing ==
    /\ pc = "yielded"
    /\ writes < MaxWrites
    /\ writes' = writes + 1
    /\ UNCHANGED <<c, pc, raised, cursors, yields, returned, again, initial, parity>>

\* The records a child of the race, or the cursor that took over, stands on
\* with a table scan.
TableScanLocs ==
    {c.ops[i].pos[2] : i \in {j \in DOMAIN c.ops : c.ops[j].idx = Natural /\ c.ops[j].pos # End}}
        \cup (IF c.taken /\ c.tk.idx = Natural /\ c.tk.pos # End THEN {c.tk.pos[2]} ELSE {})

insert(doc) ==
    /\ Writing
    /\ db' = Insert(db, doc)
    /\ touched' = touched \cup (DOMAIN db.docs \ DOMAIN db'.docs)
    /\ hit' = (hit \/ TableScanLocs \cap (DOMAIN db.docs \ DOMAIN db'.docs) # {})

\* Documents of a capped collection are not removed.
remove(clause) ==
    /\ Writing
    /\ db.cap = 0
    /\ db' = Remove(db, clause)
    /\ touched' = touched \cup (DOMAIN db.docs \ DOMAIN db'.docs)
    /\ UNCHANGED hit

update(u) ==
    /\ Writing
    /\ db' = Update(db, u[1], u[2], u[3])
    /\ touched' = touched \cup {l \in DOMAIN db.docs : db'.docs[l] # db.docs[l]}
    /\ UNCHANGED hit

\* ClientCursor::invalidate: the cursors of the namespace are gone.
invalidate ==
    /\ Writing
    /\ db' = InvalidateCursors(db)
    /\ touched' = touched \cup DOMAIN db.docs
    /\ UNCHANGED hit

\* _cli.dropIndex( ns(), ... ): an index the collection has goes, and with it
\* the cursors of the namespace, those on other indexes too (SERVER-2454).
dropIndex(f) ==
    /\ Writing
    /\ f \in IndexFields(db)
    /\ db' = DropIndex(db, f)
    /\ touched' = touched \cup DOMAIN db.docs
    /\ UNCHANGED hit

\* _cli.dropCollection( ns() ): the documents go with the cursors.
dropCollection ==
    /\ Writing
    /\ db' = DropCollection(db)
    /\ touched' = touched \cup DOMAIN db.docs
    /\ UNCHANGED hit

-----------------------------------------------------------------------------
Client ==
    \/ \E q \in Queries, order \in Orders : setQueryOptimizerCursor(q, order)
    \/ advance
    \/ prepareToYield
    \/ recoverFromYield

Writer ==
    \/ \E doc \in NewDocs : insert(doc)
    \/ \E clause \in Removals : remove(clause)
    \/ \E u \in Updates : update(u)
    \/ invalidate
    \/ \E f \in Fields : dropIndex(f)
    \/ dropCollection

Next == Client \/ Writer \/ kill

Spec == Init /\ [][Next]_vars

\* The client is one thread that goes on with its scan: it advances when it
\* holds the lock and recovers when it has yielded.  This is weak fairness
\* of advance \/ recoverFromYield, stated on states: one of the two is
\* enabled exactly when the scan is open or yielded (an advance of a cursor
\* that is ok moves it or ends it, a recovery leaves the yield), and they are
\* the steps that change parity.  TLC evaluates a condition on states once
\* for a state, and the action of a fairness formula anew for every pair of
\* states, which the operators of the racer make too costly.
FairSpec ==
    Spec /\ \/ []<>(pc \notin {"open", "yielded"})
            \/ []<>parity /\ []<>~parity

-----------------------------------------------------------------------------
\* The positions of the cursor: those of the children of the race, or that
\* of the cursor that took over.
Positions ==
    IF c.taken THEN {<<c.tk.idx, c.tk.pos>>}
    ELSE {<<c.ops[i].idx, c.ops[i].pos>> : i \in DOMAIN c.ops}

\* The shape of the state.  A cursor is racing, taken over or done, never
\* two of these; while it races the queue holds every child that is not
\* lost, once.
TypeOK ==
    /\ pc \in {"idle", "open", "yielded", "done"}
    /\ raised \in BOOLEAN /\ hit \in BOOLEAN /\ parity \in BOOLEAN
    /\ cursors \in 0..MaxCursors /\ yields \in 0..MaxYields /\ writes \in 0..MaxWrites
    /\ again \subseteq returned /\ returned \subseteq 1..(db.nextLoc - 1)
    /\ c.cur \in {0} \cup DOMAIN c.ops
    /\ {c.queue[i] : i \in DOMAIN c.queue} = {i \in DOMAIN c.ops : ~c.ops[i].err}
    /\ Len(c.queue) <= Len(c.ops)
    /\ c.taken \/ c.done => c.ops = <<>>
    /\ pc = "open" => Ok(c)
    /\ raised => pc = "done"

\* No document is returned twice (getsetdup in Base::mayReturnCurrent, the
\* locations of the race kept after takeover, the ranges of earlier $or
\* clauses cut out of later ones): whichever plans race, whichever takes
\* over and wherever the scan yields, the client is shown a document a second
\* time only if it was written to in between.
UntouchedReturnedOnce == again \subseteq touched

\* A scan that ends without an exception has returned every document that
\* matched the query when it began and was not written to since: neither the
\* end of a clause by the first plan to finish, nor takeover, nor the
\* repositioning of recoverFromYield skips a document.
UntouchedMatchesReturned ==
    pc = "done" /\ ~raised /\ ~c.killed =>
        \A l \in (initial \cap DOMAIN db.docs) \ touched :
            Matches(db.docs[l], Asked(c)) => l \in returned

\* Yield-delete safety: when the client holds the lock, every child of the
\* race and the cursor that took over stand on an entry of their index as it
\* is now, whatever was removed, moved or overwritten while the scan was
\* yielded (recoverFromYield repositions each of them), so that current()
\* is never a document that is gone.
PositionsAreEntries ==
    pc = "open" =>
        \A P \in Positions : P[2] # End =>
            /\ P[1] \in IndexFields(db) \cup {Natural}
            /\ P[2] \in Entries(db, c, P[1])

\* Plan cache invalidation (dropIndex while a scan is yielded, YieldDropIndex;
\* the plan a race records when it ends): a plan recorded for a query pattern
\* is the table scan or an index the collection has now, so that the next
\* query of the pattern never starts on an index that was dropped, whether
\* the scan that chose the plan ended before the drop or was yielded over it.
RecordedPlansExist ==
    \A p \in DOMAIN db.cache : db.cache[p].idx \in IndexFields(db) \cup {Natural}

\* Capped overwrite (the records cap.cpp reuses under a yielded cursor,
\* cap.cpp:248 and 411): a table scan that stood on a record which was
\* overwritten while it was yielded does not go on as if nothing had
\* happened; the scan ends, or goes on with the plans that are left.
OverwriteNoticed ==
    hit /\ pc = "open" => CurrIdx(c) # Natural

\* A cursor that was asked for an order gives it (the out of order plans
\* that QueryPlanSet leaves out for a caller that cannot sort, the
\* repositioning of recoverFromYield): from one document the client is shown
\* to the next the key of the order never falls, wherever the scan yielded
\* and whatever was written in between, as long as neither of the two
\* documents was written to.  A document with an array has no one key and is
\* not compared.
InOrderStep ==
    pc \in {"open", "yielded"} /\ pc' = "open" /\ c.order # NoOrder =>
        LET Key(l) == Keys(db'.docs[l], c.order) IN
        /\ {CurrLoc(c), CurrLoc(c')} \subseteq DOMAIN db'.docs \ touched'
        /\ Cardinality(Key(CurrLoc(c))) = 1 /\ Cardinality(Key(CurrLoc(c'))) = 1
        => \A k \in Key(CurrLoc(c)), m \in Key(CurrLoc(c')) : k <= m

OrderPreserved == [][InOrderStep]_vars

\* Every scan ends: the loop of Base::advance and the race come to the end of
\* the documents, however the writer adds to them within its bounds, and an
\* interrupted scan ends with its next advance.
ScanEnds == (pc \in {"open", "yielded"}) ~> (pc = "done")

=============================================================================
