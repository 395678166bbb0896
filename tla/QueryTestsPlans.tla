-------------------------- MODULE QueryTestsPlans --------------------------
(***************************************************************************)
(* The tests in which the client of the cursor does the matching and the   *)
(* deduping by hand, the tests of the recorded plan that does worse than   *)
(* recorded, and the tests of what the clauses of a $or leave to each      *)
(* other (queryoptimizercursortests.cpp, lines 603 to 1061).               *)
(***************************************************************************)
EXTENDS QueryOptimizerCursorTests

AAndB(a, b)   == Query(On("a", a) @@ On("b", b))

(* One document the cursor stands on: what it is, whether it matches,
   whether it was returned before; the next turn follows. *)
NoMatchAt(id)   == <<Expect("_id", id)>> \o RawAssertMatches(FALSE)
MatchAt(id, dup) == <<Expect("_id", id)>> \o RawAssertMatches(TRUE) \o RawAssertGetsetdup(dup)

ManualMatchingDeduping ==
    Insert1(IdA(0, 10)) \o Insert1(IdA(10, 0)) \o Insert1(IdA(11, 12))
    \o Insert1(IdA(12, 11)) \o EnsureIndex1("a")
    \o NewQueryOptimizerCursor(IdAndA(Gt(5), Gt(5))) \o AssertOk
    \o NoMatchAt(10) \o RawAssertAdvance(TRUE)
    \o NoMatchAt(0) \o RawAssertAdvance(TRUE)
    \o NoMatchAt(0) \o RawAssertAdvance(TRUE)
    \o AssertCurrent(IdA(11, 12)) \o MatchAt(11, FALSE) \o RawAssertAdvance(TRUE)
    \o AssertCurrent(IdA(12, 11)) \o MatchAt(12, FALSE) \o RawAssertAdvance(TRUE)
    \o NoMatchAt(10) \o RawAssertAdvance(TRUE)
    \o AssertCurrent(IdA(12, 11)) \o MatchAt(12, TRUE) \o RawAssertAdvance(TRUE)
    \o AssertCurrent(IdA(11, 12)) \o MatchAt(11, TRUE) \o RawAssertAdvance(TRUE)
    \o MatchAt(11, TRUE)
    \o RawAssertAdvance(FALSE) \o AssertNotOk
    \* again, with the winning plan recorded
    \o NewQueryOptimizerCursor(IdAndA(Gt(5), Gt(5))) \o AssertOk
    \o NoMatchAt(10) \o RawAssertAdvance(TRUE)
    \o AssertCurrent(IdA(11, 12)) \o MatchAt(11, FALSE) \o RawAssertAdvance(TRUE)
    \o AssertCurrent(IdA(12, 11)) \o MatchAt(12, FALSE)
    \o RawAssertAdvance(FALSE) \o AssertNotOk

ManualMatchingDedupingTakeover ==
    For(0, 150, LAMBDA i : Insert1(IdA(i, 0)))
    \o Insert1(IdA(300, 1)) \o EnsureIndex1("a")
    \o NewQueryOptimizerCursor(Or(<<On("_id", Lt(300)), On("a", Eq(1))>>))
    \o For(0, 151, LAMBDA i :
            AssertOk \o RawAssertMatches(TRUE) \o RawAssertGetsetdup(FALSE) \o RawAdvance)
    \o AssertNotOk

(* The document's a is the string "10", which no bound on numbers admits. *)
Singlekey ==
    Insert1("a" :> {AString}) \o EnsureIndex1("a")
    \o NewQueryOptimizerCursor(Query(Between("a", 1, 5)))
    \o AssertNotOk

Multikey ==
    Insert1("a" :> {1, 10}) \o EnsureIndex1("a")
    \o SetQueryOptimizerCursor(Query(Between("a", 5, 3)), NoOrder)
    \o AssertOk

-----------------------------------------------------------------------------
(* A recorded plan that does worse than when it was recorded. *)

(* The first query of the AddOtherPlans tests: three plans see the one
   match in turn, and {a:1} is recorded. *)
RecordPlanA ==
    NewQueryOptimizerCursor(AAndB(Eq(0), Eq(0)))
    \o AssertCurrent(IdAB(0, 0, 0)) \o <<Expect("index", "a")>> \o RawAssertAdvance(TRUE)
    \o AssertCurrent(IdAB(0, 0, 0)) \o <<Expect("index", "b")>> \o RawAssertAdvance(TRUE)
    \o AssertCurrent(IdAB(0, 0, 0)) \o <<Expect("index", Natural)>> \o RawAssertAdvance(FALSE)

TwoIndexes == EnsureIndex1("a") \o EnsureIndex1("b")

AddOtherPlans ==
    Insert1(IdAB(0, 0, 0)) \o Insert1(IdAB(1, 1, 0))
    \o For(100, 150, LAMBDA i : Insert1(IdAB(i, 100, i)))
    \o TwoIndexes \o RecordPlanA
    \o NewQueryOptimizerCursor(AAndB(Eq(100), Eq(149)))
    \o For(0, 12, LAMBDA i : <<ExpectNot("b", 149)>> \o RawAssertAdvance(TRUE))
    \o <<Set("flag", FALSE)>>
    \o DoWhile(If("index", "b", <<Expect("b", 149), Expect("flag", FALSE), Set("flag", TRUE)>>)
               \o RawAdvance, "ret", TRUE)
    \o <<Expect("flag", TRUE)>>

(* int id = current()._id; advance(); then remove that document under
   prepareToTouchEarlierIterate. *)
AdvanceAndRemoveCurrent ==
    <<Call("getIntField", "_id")>> \o RawAdvance
    \o <<Call("prepareToTouchEarlierIterate", <<>>), Call("removeId", <<>>),
         Call("recoverFromTouchingEarlierIterate", <<>>)>>

(* while ( c->ok() ) if ( c->currentMatches() ) { seen; ++count; remove it } else advance *)
CountAndRemoveMatches(seen) ==
    While("ok", TRUE,
        IfElse("matches", TRUE, seen \o <<Inc("count")>> \o AdvanceAndRemoveCurrent, RawAdvance))

AddOtherPlansDelete ==
    Insert1(IdAB(0, 0, 0)) \o Insert1(IdAB(1, 1, 0))
    \o For(100, 120, LAMBDA i : Insert1(IdAB(i, 100, i)))
    \o For(0, 50, LAMBDA i : Insert1(IdAB(199 - i, 100, 150)))
    \o TwoIndexes \o RecordPlanA
    \o NewQueryOptimizerCursor(AAndB(Eq(100), Eq(150)))
    \o For(0, 12, LAMBDA i :
            <<ExpectNot("b", 150), Expect("index", "a")>> \o RawAssertAdvance(TRUE))
    \o <<Expect("index", "b"), Expect("b", 150), Expect("matches", TRUE)>>
    \o AdvanceAndRemoveCurrent
    \o <<Set("count", 1)>> \o CountAndRemoveMatches(<<>>)
    \o <<Expect("count", 50)>>

BothBetween(lo, hi) == Query(("a" :> <<Gte(lo), Lte(hi)>>) @@ ("b" :> <<Gte(lo), Lte(hi)>>))

AddOtherPlansContinuousDelete ==
    Insert1(IdAB(0, 0, 0)) \o Insert1(IdAB(1, 1, 0))
    \o For(100, 400, LAMBDA i : Insert1(IdAB(i, i, 499 - i)))
    \o TwoIndexes
    \o NewQueryOptimizerCursor(BothBetween(-1, 0))
    \o DoWhile(RawAdvance, "ret", TRUE)
    \o NewQueryOptimizerCursor(BothBetween(100, 400))
    \o <<Set("count", 0)>> \o CountAndRemoveMatches(RawAssertGetsetdup(FALSE))
    \o <<Expect("count", 300), Expect("db.count", 2)>>

-----------------------------------------------------------------------------
(* What the clauses of a $or leave to each other. *)

OrRangeElimination ==
    Insert1(Id(1))
    \o NewQueryOptimizerCursor(Or(<<On("_id", Gt(0)), IdIs(1)>>))
    \o AssertOk \o RawAssertAdvance(FALSE)

OrDedup ==
    For(0, 150, LAMBDA i : Insert1(IdA(i, i))) \o EnsureIndex1("a")
    \o NewQueryOptimizerCursor(Or(<<On("_id", Lt(140)), IdIs(145), On("a", Eq(145))>>))
    \o WhileLess("_id", 140, RawAssertAdvance(TRUE))
    \o <<Expect("_id", 145)>> \o RawAssertMatches(TRUE) \o RawAssertAdvance(TRUE)
    \o <<Expect("_id", 145)>> \o RawAssertMatches(FALSE) \o RawAssertAdvance(FALSE)

EarlyDups ==
    Insert1("a" :> {0, 1, 200}) \o For(2, 150, LAMBDA i : Insert1(A(i))) \o EnsureIndex1("a")
    \o SetQueryOptimizerCursor(Query(On("a", Gt(-1))), NoOrder)
    \o AssertItcount(149)

OrPopInTakeover ==
    For(0, 150, LAMBDA i : Insert1(Id(i)))
    \o NewQueryOptimizerCursor(Or(<<On("_id", Lte(147)), IdIs(148), IdIs(149)>>))
    \o For(0, 150, LAMBDA i : AssertOk \o <<Expect("_id", i)>> \o RawAdvance)
    \o AssertNotOk

OrCollectionScanAbort ==
    Insert1(Id(0) @@ ("a" :> 1..5) @@ ("b" :> {4}))
    \o Insert1(Id(1) @@ ("a" :> 6..10) @@ ("b" :> {4}))
    \o EnsureIndex1("a")
    \o NewQueryOptimizerCursor(Or(<<On("a", Lt(6)) @@ On("b", Eq(4)),
                                    On("a", Gte(6)) @@ On("b", Eq(4))>>))
    \o AssertOk
    \o MatchAt(0, FALSE) \o RawAdvance          \* _id 0 on {a:1}
    \o MatchAt(0, TRUE) \o RawAdvance           \* _id 0 on {$natural:1}
    \o MatchAt(0, TRUE) \o RawAdvance           \* _id 0 on {a:1}
    \o MatchAt(1, FALSE) \o RawAdvance          \* _id 1 on {$natural:1}
    \o MatchAt(0, TRUE) \o RawAdvance           \* _id 0 on {a:1}
    \o AssertNotOk                              \* {$natural:1} finished

PlanTests ==
    <<ManualMatchingDeduping, ManualMatchingDedupingTakeover, Singlekey, Multikey,
      AddOtherPlans, AddOtherPlansDelete, AddOtherPlansContinuousDelete,
      OrRangeElimination, OrDedup, EarlyDups, OrPopInTakeover, OrCollectionScanAbort>>

=============================================================================
