--------------------- MODULE QueryOptimizerCursorTests ---------------------
(***************************************************************************)
(* The test classes of queryoptimizercursortests.cpp, replayed against the *)
(* racer of module QueryOptimizerCursor.                                   *)
(*                                                                         *)
(* A test is a program: a sequence of instructions that call the database  *)
(* client and the cursor, assert what they observe and branch on it.  The  *)
(* helpers of class Base are instruction sequences of their own, and a     *)
(* test's `for' loop with constant bounds is the concatenation of its      *)
(* bodies.  One step of the specification executes one instruction of one  *)
(* test, so every assertion of a test is a state TLC visits.               *)
(***************************************************************************)
EXTENDS CursorGenerator, TLC

CONSTANT Tests  \* the test programs to run

VARIABLES
    test,       \* the test being run, an index of Tests
    pc,         \* the instruction it is at
    w,          \* the world: the collection and the cursor _c
    r           \* the locals of the test and of the helper it is in

vars == <<test, pc, w, r>>

-----------------------------------------------------------------------------
(* Instructions. *)

Call(f, x)          == [op |-> "call", f |-> f, x |-> x]
Expect(obs, v)      == [op |-> "assert", obs |-> obs, rel |-> "=", v |-> v]
ExpectNot(obs, v)   == [op |-> "assert", obs |-> obs, rel |-> "#", v |-> v]
ExpectLess(obs, v)  == [op |-> "assert", obs |-> obs, rel |-> "<", v |-> v]
ExpectIn(obs, v)    == [op |-> "assert", obs |-> obs, rel |-> "in", v |-> v]
ExpectMore(obs, v)  == [op |-> "assert", obs |-> obs, rel |-> ">", v |-> v]
Jump(obs, v, to)    == [op |-> "jump", obs |-> obs, rel |-> "=", v |-> v, to |-> to]
JumpNot(obs, v, to) == [op |-> "jump", obs |-> obs, rel |-> "#", v |-> v, to |-> to]
JumpNotLess(obs, v, to) == [op |-> "jump", obs |-> obs, rel |-> ">=", v |-> v, to |-> to]
Goto(to)            == [op |-> "goto", to |-> to]
Try                 == [op |-> "try"]
Throws              == [op |-> "throws"]
ExpectAt(path, v)   == [op |-> "assert", obs |-> "explain", rel |-> "=", v |-> v, path |-> path]
ExpectHas(path, v)  == [op |-> "assert", obs |-> "explain.has", rel |-> "=", v |-> v, path |-> path]
ExpectSize(path, v) == [op |-> "assert", obs |-> "explain.size", rel |-> "=", v |-> v, path |-> path]
Set(reg, v)         == [op |-> "set", reg |-> reg, v |-> v]
Inc(reg)            == [op |-> "inc", reg |-> reg]

(* The concatenation of ss[lo] to ss[hi], by halves to keep the evaluation
   shallow for the loops of several hundred rounds. *)
RECURSIVE Concat(_, _, _)
Concat(ss, lo, hi) ==
    IF lo > hi THEN <<>>
    ELSE IF lo = hi THEN ss[lo]
    ELSE Concat(ss, lo, (lo + hi) \div 2) \o Concat(ss, (lo + hi) \div 2 + 1, hi)

Flat(ss) == Concat(ss, 1, Len(ss))

(* for ( i = from; i < to; ++i ) body( i ) *)
For(from, to, body(_)) == Flat([n \in 1..(to - from) |-> body(from + n - 1)])

(* while ( obs == v ) body *)
While(obs, v, body) ==
    <<JumpNot(obs, v, Len(body) + 2)>> \o body \o <<Goto(-(Len(body) + 1))>>

(* while ( obs != v ) body *)
WhileNot(obs, v, body) ==
    <<Jump(obs, v, Len(body) + 2)>> \o body \o <<Goto(-(Len(body) + 1))>>

(* while ( obs < v ) body *)
WhileLess(obs, v, body) ==
    <<JumpNotLess(obs, v, Len(body) + 2)>> \o body \o <<Goto(-(Len(body) + 1))>>

(* do body while ( obs == v ) *)
DoWhile(body, obs, v) == body \o <<Jump(obs, v, -Len(body))>>

(* if ( obs == v ) then else otherwise *)
IfElse(obs, v, then, otherwise) ==
    <<JumpNot(obs, v, Len(then) + 2)>> \o then \o <<Goto(Len(otherwise) + 1)>> \o otherwise

If(obs, v, then) == IfElse(obs, v, then, <<>>)

(* ASSERT_THROWS( stmt ): what stmt throws is caught, and it must throw. *)
AssertThrows(stmt) == <<Try>> \o stmt \o <<Throws>>

-----------------------------------------------------------------------------
(* Documents and queries as the tests write them. *)

Id(i)       == "_id" :> {i}
IdA(i, a)   == ("_id" :> {i}) @@ ("a" :> {a})
IdAs(i, as) == ("_id" :> {i}) @@ ("a" :> as)
A(a)        == "a" :> {a}
AB(a, b)    == ("a" :> {a}) @@ ("b" :> {b})
IdAB(i, a, b) == ("_id" :> {i}) @@ ("a" :> {a}) @@ ("b" :> {b})

All          == <<>>                                    \* BSONObj()
On(f, cons)  == f :> <<cons>>
Between(f, lo, hi) == f :> <<Gt(lo), Lt(hi)>>
Query(clause) == <<clause>>
IdIs(i)       == On("_id", Eq(i))
IdAndA(id, a) == Query(On("_id", id) @@ On("a", a))
Or(clauses)   == clauses

(* The documents a capped collection of so many bytes holds.  The tests
   need no more of the number than that the documents they insert first
   fit and that later inserts overwrite them. *)
CappedDocs(bytes) == IF bytes <= 1000 THEN 3 ELSE 300

(* Milliseconds a client cursor may stay idle unless it has the option
   QueryOption_NoCursorTimeout. *)
IdleTimeout == 600000

-----------------------------------------------------------------------------
(* The instruction the test is at. *)

Code  == Tests[test]
AtEnd == pc > Len(Code)
Instr == Code[pc]

-----------------------------------------------------------------------------
(* The locals. *)

NoLocals ==
    [ret |-> FALSE, count |-> 0, raised |-> FALSE, trying |-> FALSE, loc |-> 0, id |-> 0, flag |-> FALSE,
     n |-> 0, seen |-> {}, obj |-> <<>>, holder |-> "none", flag2 |-> FALSE,
     mc |-> MatchCounter(0), agg |-> 0, d |-> EmptyDupSet, simpleEqualityMatch |-> FALSE,
     loadedObject |-> FALSE, explain |-> <<>>, cursors |-> <<>>, plans |-> <<>>]

Value(doc, f) == CHOOSE v \in doc[f] : TRUE

(* _explain[ f ][ i ]...: the element of a BSON object a path leads to. *)
RECURSIVE At(_, _)
At(bson, path) == IF path = <<>> THEN bson ELSE At(bson[Head(path)], Tail(path))

(* nNsCursors: the client cursors of the namespace.  The holder is one, and
   a yielded racer has one more for each of its children. *)
NNsCursors ==
    IF r.holder = "none" \/ w.c.epoch # w.db.epoch THEN 0
    ELSE 1 + (IF w.c.yielded THEN Len(w.c.ops) ELSE 0)

(* What an assertion or a branch looks at. *)
Obs(name) ==
    CASE name = "ok"        -> Ok(w.c)
      [] name = "ret"       -> r.ret
      [] name = "count"     -> r.count
      [] name = "flag"      -> r.flag
      [] name = "flag2"     -> r.flag2
      [] name = "saved"     -> r.obj
      [] name = "n"         -> r.n
      [] name = "db.count"  -> Cardinality(DOMAIN w.db.docs)
      [] name = "db.count(first)" -> IF 1 \in DOMAIN w.db.docs THEN 1 ELSE 0
      [] name = "db.count(x:299)" ->
            Cardinality({l \in DOMAIN w.db.docs : MatchesClause(w.db.docs[l], On("x", Eq(299)))})
      [] name = "current"   -> Current(w.db, w.c)
      [] name = "_id"       -> Value(Current(w.db, w.c), "_id")
      [] name = "a"         -> Value(Current(w.db, w.c), "a")
      [] name = "b"         -> Value(Current(w.db, w.c), "b")
      [] name = "x"         -> Value(Current(w.db, w.c), "x")
      [] name = "sameId"    -> Value(Current(w.db, w.c), "_id") = r.id
      [] name = "id<n"      -> r.id < r.n
      [] name = "sameObj"   -> Current(w.db, w.c) = r.obj
      [] name = "deleted.count" -> IF CurrLoc(w.c) \in r.seen THEN 1 ELSE 0
      [] name = "deleted.size"  -> Cardinality(r.seen)
      [] name = "nNsCursors"    -> NNsCursors
      [] name = "currLoc"   -> IF Ok(w.c) THEN CurrLoc(w.c) ELSE 0
      [] name = "sameLoc"   -> Ok(w.c) /\ CurrLoc(w.c) = r.loc
      [] name = "index"     -> CurrIdx(w.c)
      [] name = "key"       -> CurrPos(w.c)[1]
      [] name = "keyFieldsOnly" -> KeyFieldsOnly(w.c)
      [] name = "mayRunInOrderPlan" -> MayRunInOrderPlan(w.db, [w.c EXCEPT !.clause = 1])
      [] name = "mayRunOutOfOrderPlan" -> MayRunOutOfOrderPlan(w.db, [w.c EXCEPT !.clause = 1])
      [] name = "runningInitialInOrderPlan" -> RunningInitialInOrderPlan(w.c)
      [] name = "runningInitialCachedPlan"  -> RunningInitialCachedPlan(w.c)
      [] name = "currentPlanScanAndOrderRequired" -> CurrentPlanScanAndOrderRequired(w.c)
      [] name = "completePlanOfHybridSetScanAndOrderRequired" -> w.c.scanAndOrder
      [] name = "initialFieldRangeSet" -> w.c.has /\ ~w.c.taken
      [] name = "ok && initialFieldRangeSet" -> Ok(w.c) /\ ~w.c.taken
      [] name = "matches"   -> CurrentMatches(w.db, w.c)
      [] name = "nscanned"  -> NScanned(w.c)
      [] name = "cursor"    -> w.c.has
      [] name = "type"      -> Type(w.c)
      [] name = "matcher"   -> w.c.matcher
      [] name = "simpleEqualityMatch" -> r.simpleEqualityMatch
      [] name = "indexForPattern" ->
            IF Pattern(w.c, w.c.q[1]) \in DOMAIN w.db.cache
            THEN w.db.cache[Pattern(w.c, w.c.q[1])].idx ELSE NoHint
      [] name = "indexKeys.size" -> Cardinality(r.seen)
      [] name = "_nYields=nYields" -> r.count = r.explain.nYields
      [] name = "mc.count"  -> r.mc.count
      [] name = "mc.cumulativeCount" -> CumulativeCount(r.mc)
      [] name = "mc.knowMatch" -> r.mc.known
      [] name = "mc.nscanned" -> r.mc.nscanned
      [] name = "mc.aggregateNscanned" -> r.agg

(* What a test looks at through an accessor that throws on a cursor that
   is not ok (assertOk, lines 262-275). *)
AssertsOk ==
    {"current", "_id", "a", "b", "x", "sameId", "sameObj", "key", "matcher",
     "initialFieldRangeSet", "currentPlanScanAndOrderRequired", "keyFieldsOnly",
     "runningInitialInOrderPlan", "runningInitialCachedPlan"}

(* What an assertion about the explain output looks at: the element at a
   path, whether there is one, or the size of the array there. *)
ObsAt(name, path) ==
    CASE name = "explain"      -> At(r.explain, path)
      [] name = "explain.has"  ->
            path[Len(path)] \in DOMAIN At(r.explain, SubSeq(path, 1, Len(path) - 1))
      [] name = "explain.size" -> Len(At(r.explain, path))

Observed(i) == IF "path" \in DOMAIN i THEN ObsAt(i.obs, i.path) ELSE Obs(i.obs)

Related(x, rel, v) ==
    CASE rel = "="  -> x = v
      [] rel = "#"  -> x # v
      [] rel = "<"  -> x < v
      [] rel = ">"  -> x > v
      [] rel = ">=" -> x >= v
      [] rel = "in" -> x \in v

Holds(i) == Related(Observed(i), i.rel, i.v)

(* An argument of a call that the test takes from a local. *)
Flag(name) ==
    CASE name = "true"  -> TRUE
      [] name = "false" -> FALSE
      [] name = "loadedObject" -> r.loadedObject
      [] name = "n%2=0" -> r.n % 2 = 0

-----------------------------------------------------------------------------
(* The calls.  Each gives the world and the locals after it; `raised' says
   that it threw. *)

After2(db, c, loc) == [w |-> World(db, c), r |-> loc]

Returned(x, ret) ==
    After2(x.db, [x.c EXCEPT !.threw = FALSE], [r EXCEPT !.ret = ret, !.raised = x.c.threw])

(* An accessor that asserts ok (Call "access") throws on a cursor that is
   not ok; the others (Call "observe") never do. *)
Accessed(ret) == After2(w.db, w.c, [r EXCEPT !.ret = ret, !.raised = ~Ok(w.c)])

(* NamespaceDetailsTransient::getCursor( ns, query, order, policy,
   &simpleEqualityMatch, parsedQuery ) *)
GetCursorCall(x, simple) ==
    After2(x.db, [x.c EXCEPT !.threw = FALSE],
           [r EXCEPT !.ret = Ok(x.c), !.raised = x.c.threw, !.simpleEqualityMatch = simple])

(* Base::mayReturnCurrent: the matcher, then getsetdup. *)
MayReturnCurrent ==
    IF CurrentMatches(w.db, w.c)
    THEN After2(w.db, NoteDup(w.db, NoteMatch(w.db, w.c)), [r EXCEPT !.ret = ~IsDup(w.db, w.c)])
    ELSE After2(w.db, NoteMatch(w.db, w.c), [r EXCEPT !.ret = FALSE])

Apply(i) ==
    LET db == w.db
        c  == w.c
        Db(d)  == After2(d, c, r)
        Cur(x) == Returned(x, Ok(x.c))
    IN  CASE i.f = "insert"         -> Db(Insert(db, i.x))
          [] i.f = "insertN"        -> Db(Insert(db, [f \in i.x |-> {r.n}]))
          [] i.f = "ensureIndex"    -> Db(EnsureIndex(db, i.x))
          [] i.f = "remove"         -> Db(Remove(db, i.x))
          [] i.f = "removeId"       -> Db(Remove(db, "_id" :> <<Eq(r.id)>>))
          [] i.f = "getIntField"    -> After2(db, c, [r EXCEPT !.id = Value(Current(db, c), i.x)])
          [] i.f = "update"         -> Db(Update(db, i.x[1], i.x[2], i.x[3]))
          [] i.f = "dropCollection" -> Db(DropCollection(db))
          [] i.f = "dropIndex"      -> Db(DropIndex(db, i.x))
          [] i.f = "createCollection" -> Db(CreateCapped(db, CappedDocs(i.x)))
          [] i.f = "invalidate"     -> Db(InvalidateCursors(db))
          [] i.f = "newQueryOptimizerCursor" ->
                Cur(NewCursor(db, i.x[1], i.x[2], i.x[3], NoHint))
          [] i.f = "Projection"     -> After2(db, [c EXCEPT !.fields = i.x], r)
          [] i.f = "nPlans"         -> After2(db, c, [r EXCEPT !.n = NPlans(db, i.x[1], i.x[2])])
          [] i.f = "indexKeyPattern" -> After2(db, c, [r EXCEPT !.obj = CurrIdx(c)])
          [] i.f = "range.equality" ->
                After2(db, c, [r EXCEPT !.ret = /\ i.x \in DOMAIN c.q[1]
                                                 /\ Shape(c.q[1][i.x][1]) = "equality"])
          [] i.f = "getCursor"      -> Cur(NewCursor(db, i.x[1], i.x[2], ~i.x[3], i.x[4]))
          [] i.f = "NamespaceDetailsTransient::getCursor" ->
                GetCursorCall(Generate(db, i.x[1], i.x[2], i.x[3], i.x[4]),
                              SimpleEqualityMatch(db, i.x[1], i.x[2], i.x[3], i.x[4]))
          [] i.f = "abortOutOfOrderPlans" -> After2(db, WithoutOutOfOrderPlans(c), r)
          [] i.f = "clearIndexesForPatterns" -> Db(ClearRecordedPlan(db, c))
          [] i.f = "advance"        -> Cur(Advance(db, c))
          [] i.f = "ok"             -> Cur(World(db, c))
          [] i.f = "mayReturnCurrent" -> MayReturnCurrent
          [] i.f = "currentMatches" ->
                After2(db, NoteMatch(db, c),
                       [r EXCEPT !.ret = Ok(c) /\ CurrentMatches(db, c), !.raised = ~Ok(c),
                                 !.loadedObject = Ok(c) /\ LoadsRecord(db, c, CurrIdx(c))])
          [] i.f = "noteIterate"    ->
                After2(db, NoteIterateCall(db, c, Flag(i.x[1]), Flag(i.x[2]), Flag(i.x[3])), r)
          [] i.f = "explainQueryInfo.bson" -> After2(db, c, [r EXCEPT !.explain = QueryBson(c.ex)])
          [] i.f = "indexKeys.insert" -> After2(db, c, [r EXCEPT !.seen = @ \cup {CurrIdx(c)}])
          [] i.f = "shared_ptr<Cursor>" ->
                After2(db, c, [r EXCEPT !.cursors = Append(@, TakeoverCursor(db, c))])
          [] i.f = "notePlan"       ->
                After2(db, c, [r EXCEPT !.plans = Append(@, NotePlan(r.cursors[i.x], FALSE, FALSE))])
          [] i.f = "plan.noteIterate" ->
                After2(db, c, [r EXCEPT !.plans[i.x[1]] =
                                    NoteIterate(@, i.x[2], i.x[3], r.cursors[i.x[1]])])
          [] i.f = "clause.bson"    ->
                After2(db, c, [r EXCEPT !.explain = ClauseBson(NewClauseInfo(r.plans))])
          [] i.f = "getsetdup"      ->
                IF Ok(c) THEN After2(db, NoteDup(db, c), [r EXCEPT !.ret = IsDup(db, c)])
                ELSE Accessed(FALSE)
          [] i.f = "access"         -> Accessed(FALSE)
          [] i.f = "observe"        -> After2(db, c, r)
          [] i.f = "currLoc"        -> After2(db, c, [r EXCEPT !.loc = IF Ok(c) THEN CurrLoc(c) ELSE 0])
          [] i.f = "prepareToYield" -> After2(db, PrepareToYield(db, c), [r EXCEPT !.ret = TRUE])
          [] i.f = "recoverFromYield" -> Cur(RecoverFromYield(db, c))
          [] i.f = "prepareToTouchEarlierIterate" -> After2(db, PrepareToYield(db, c), r)
          [] i.f = "recoverFromTouchingEarlierIterate" ->
                Cur(World(db, RecoverFromTouchingEarlierIterate(db, c)))
          [] i.f = "kill"           -> After2(db, Kill(c), r)
          [] i.f = "saveCurrent"    -> After2(db, c, [r EXCEPT !.obj = Current(db, c)])
          [] i.f = "deleted.insert" -> After2(db, c, [r EXCEPT !.seen = @ \cup {CurrLoc(c)}])
          [] i.f = "ClientCursor"   ->
                After2(db, [c EXCEPT !.epoch = db.epoch], [r EXCEPT !.holder = i.x])
          [] i.f = "ClientCursor::prepareToYield" -> After2(db, PrepareToYield(db, c), r)
          [] i.f = "ClientCursor::recoverFromYield" ->
                Returned(RecoverFromYield(db, c), ~TakeoverLost(db, c))
          [] i.f = "idleTimeReport" ->
                Db(IF r.holder = "timeout" /\ i.x > IdleTimeout THEN InvalidateCursors(db) ELSE db)
          [] i.f = "CachedMatchCounter" ->
                After2(db, c, [r EXCEPT !.mc = MatchCounter(i.x[2]), !.agg = i.x[1]])
          [] i.f = "mc.resetMatch"  -> After2(db, c, [r EXCEPT !.mc = ResetMatch(@)])
          [] i.f = "mc.setMatch"    -> After2(db, c, [r EXCEPT !.mc = SetMatch(@, i.x)])
          [] i.f = "mc.countMatch"  -> After2(db, c, [r EXCEPT !.mc = CountMatch(@, i.x)])
          [] i.f = "mc.setCheckDups" -> After2(db, c, [r EXCEPT !.mc.checkDups = i.x])
          [] i.f = "mc.updateNscanned" ->
                After2(db, c, [r EXCEPT !.mc = UpdateNscanned(@, i.x),
                                        !.agg = @ + i.x - r.mc.nscanned])
          [] i.f = "SmallDupSet"    -> After2(db, c, [r EXCEPT !.d = EmptyDupSet])
          [] i.f = "d.getsetdup"    ->
                After2(db, c, [r EXCEPT !.ret = GetDup(r.d, i.x), !.d = SetDup(@, i.x)])
          [] i.f = "d.getdup"       -> After2(db, c, [r EXCEPT !.ret = GetDup(r.d, i.x)])

-----------------------------------------------------------------------------
(* class Base, lines 203-240. *)

IfOkAndNotMayReturnCurrent(stmt) ==
    <<Jump("ok", FALSE, Len(stmt) + 3), Call("mayReturnCurrent", <<>>),
      Jump("ret", TRUE, Len(stmt) + 1)>> \o stmt

(* Faulty variant: advance without the loop over mayReturnCurrent. *)
AdvanceUnchecked == <<Call("advance", <<>>)>>

BaseAdvance ==
    <<Call("advance", <<>>), Jump("ret", FALSE, 3), Call("mayReturnCurrent", <<>>),
      Jump("ret", FALSE, -3), Call("ok", <<>>)>>

SetQueryOptimizerCursorWithoutAdvancing(query, order) ==
    <<Call("newQueryOptimizerCursor", <<query, order, TRUE>>)>>

SetQueryOptimizerCursor(query, order) ==
    SetQueryOptimizerCursorWithoutAdvancing(query, order)
        \o IfOkAndNotMayReturnCurrent(BaseAdvance)

Itcount == <<Set("count", 0)>> \o While("ok", TRUE, <<Inc("count")>> \o BaseAdvance)

BaseRecoverFromYield ==
    <<Call("recoverFromYield", <<>>)>> \o IfOkAndNotMayReturnCurrent(BaseAdvance)

(* Shorthands for the statements the tests are made of. *)
Insert1(doc)      == <<Call("insert", doc)>>
EnsureIndex1(f)   == <<Call("ensureIndex", f)>>
AssertOk          == <<Expect("ok", TRUE)>>
AssertNotOk       == <<Expect("ok", FALSE)>>
AssertCurrent(d)  == <<Expect("current", d)>>
AssertAdvance     == BaseAdvance \o <<Expect("ret", TRUE)>>
AssertNotAdvance  == BaseAdvance \o <<Expect("ret", FALSE)>>
AssertItcount(n)  == Itcount \o <<Expect("count", n)>>

(* The same on the cursor itself, without the matching and deduping of Base. *)
AssertPrepareToYield == <<Call("prepareToYield", <<>>), Expect("ret", TRUE)>>
RawRecoverFromYield  == <<Call("recoverFromYield", <<>>)>>
RawAdvance        == <<Call("advance", <<>>)>>
RawAssertAdvance(ret)   == <<Call("advance", <<>>), Expect("ret", ret)>>
RawAssertMatches(ret)   == <<Call("currentMatches", <<>>), Expect("ret", ret)>>
RawAssertGetsetdup(ret) == <<Call("getsetdup", <<>>), Expect("ret", ret)>>
NewQueryOptimizerCursor(query) == SetQueryOptimizerCursorWithoutAdvancing(query, NoOrder)

-----------------------------------------------------------------------------
(* Running a test, one instruction at a time. *)

(* Base::Base: the namespace is created and dropped, so a test starts
   without its collection. *)
Init ==
    /\ test \in DOMAIN Tests
    /\ pc = 1
    /\ w = World(NoCollection, NoCursor)
    /\ r = NoLocals

(* Where an exception thrown at p is caught: the end of the ASSERT_THROWS
   the test is in, or nowhere, which ends the test. *)
Handler(p) ==
    LET H == {q \in (p + 1)..Len(Code) : Code[q].op = "throws"}
    IN  IF r.trying THEN CHOOSE q \in H : \A h \in H : q <= h ELSE Len(Code) + 1

(* The outcome x of a call becomes the state; a call that threw goes on at
   its handler. *)
Outcome(x) ==
    /\ w' = x.w
    /\ r' = x.r
    /\ pc' = IF x.r.raised THEN Handler(pc) ELSE pc + 1

DoCall ==
    /\ ~AtEnd /\ Instr.op = "call"
    /\ Outcome(Apply(Instr))
    /\ UNCHANGED test

DoAssert ==
    /\ ~AtEnd /\ Instr.op = "assert"
    /\ pc' = pc + 1
    /\ UNCHANGED <<test, w, r>>

DoJump ==
    /\ ~AtEnd /\ Instr.op = "jump"
    /\ pc' = IF Holds(Instr) THEN pc + Instr.to ELSE pc + 1
    /\ UNCHANGED <<test, w, r>>

DoGoto ==
    /\ ~AtEnd /\ Instr.op = "goto"
    /\ pc' = pc + Instr.to
    /\ UNCHANGED <<test, w, r>>

DoTry ==
    /\ ~AtEnd /\ Instr.op = "try"
    /\ r' = [r EXCEPT !.trying = TRUE]
    /\ pc' = pc + 1
    /\ UNCHANGED <<test, w>>

DoCatch ==
    /\ ~AtEnd /\ Instr.op = "throws"
    /\ r' = [r EXCEPT !.raised = FALSE, !.trying = FALSE]
    /\ pc' = pc + 1
    /\ UNCHANGED <<test, w>>

DoSet ==
    /\ ~AtEnd /\ Instr.op = "set"
    /\ r' = [r EXCEPT ![Instr.reg] = Instr.v]
    /\ pc' = pc + 1
    /\ UNCHANGED <<test, w>>

DoInc ==
    /\ ~AtEnd /\ Instr.op = "inc"
    /\ r' = [r EXCEPT ![Instr.reg] = @ + 1]
    /\ pc' = pc + 1
    /\ UNCHANGED <<test, w>>

Next == DoCall \/ DoAssert \/ DoJump \/ DoGoto \/ DoTry \/ DoCatch \/ DoSet \/ DoInc

Spec == Init /\ [][Next]_vars

-----------------------------------------------------------------------------
(* The shape of the state.  Of the cursor: while plans race, the queue
   holds every child that is not lost once and the current child is one of
   them; a cursor
   is racing, taken over or done, never two of these. *)
TypeOK ==
    /\ test \in DOMAIN Tests
    /\ pc \in 1..(Len(Code) + 1)
    /\ r.ret \in BOOLEAN /\ r.raised \in BOOLEAN /\ r.count \in Nat
    /\ w.c.cur \in {0} \cup DOMAIN w.c.ops
    /\ {w.c.queue[i] : i \in DOMAIN w.c.queue} = {i \in DOMAIN w.c.ops : ~w.c.ops[i].err}
    /\ Len(w.c.queue) <= Len(w.c.ops)
    /\ w.c.taken \/ w.c.done => w.c.ops = <<>>
    /\ w.c.has /\ ~w.c.done => w.c.clause \in DOMAIN w.c.q

(* Every ASSERT of every test holds when the test comes to it
   (ASSERT, ASSERT_EQUALS and ASSERT_NOT_EQUALS of the test classes). *)
AssertionsHold == ~AtEnd /\ Instr.op = "assert" => Holds(Instr)

(* A test sees an exception exactly where it has an ASSERT_THROWS: the
   statement inside one throws; a statement outside one that throws ends the
   test with the exception still raised; and where a test reads the value of
   an accessor that asserts ok() (assertOk of the cursor, lines 262-275 of
   the tests), the cursor is ok. *)
ExceptionsExpected ==
    /\ ~AtEnd /\ Instr.op = "throws" => r.raised
    /\ AtEnd => ~r.raised
    /\ ~AtEnd /\ Instr.op \in {"assert", "jump"} /\ Instr.obs \in AssertsOk => Ok(w.c)

=============================================================================
