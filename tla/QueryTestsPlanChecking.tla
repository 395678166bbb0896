----------------------- MODULE QueryTestsPlanChecking -----------------------
(***************************************************************************)
(* The tests of plans that do not give the requested order, of covered     *)
(* indexes and of the candidate plans of a cursor                          *)
(* (queryoptimizercursortests.cpp, lines 1827 to 1850 and 2245 to 2853).   *)
(***************************************************************************)
EXTENDS QueryTestsOrder

(* newQueryOptimizerCursor( ns, query, fields, order, any(), false ) *)
NewCursorAnyOrder(query, order) == <<Call("newQueryOptimizerCursor", <<query, order, FALSE>>)>>

(* _cli.query( ns, QUERY( query ).sort( order ) )->more(): the query runs
   with a parsed query, to the end of its first batch. *)
ClientQueryMore(query, order) ==
    <<Call("getCursor", <<query, order, TRUE, NoHint>>)>>
    \o IfOkAndNotMayReturnCurrent(BaseAdvance) \o Itcount \o <<ExpectMore("count", 0)>>

RecordedOrderInvalid ==
    Insert1(AB(1, 1)) \o Insert1(AB(2, 2)) \o Insert1(AB(3, 3))
    \o EnsureIndex1("a") \o EnsureIndex1("b")
    \o ClientQueryMore(Query(On("a", Eq(2))), "b")
    \o SetQueryOptimizerCursorWithoutAdvancing(Query(On("a", Eq(2))), "b")
    \o For(0, 3, LAMBDA i : AssertOk \o RawAdvance)
    \o AssertNotOk

AllowOutOfOrderPlan ==
    NewCursorAnyOrder(Query(All), "a") \o <<Expect("cursor", TRUE)>>

NoTakeoverByOutOfOrderPlan ==
    EnsureIndex1("a")
    \o For(0, 150, LAMBDA i : Insert1(AB(2, 1)))
    \o For(0, 150, LAMBDA i : Insert1(AB(1, 5)))
    \o For(0, 150, LAMBDA i : Insert1(AB(3, 10)))
    \o NewCursorAnyOrder(Query(On("a", Lt(3)) @@ On("b", Eq(1))), "a")
    \o <<Expect("cursor", TRUE)>>
    \o While("ok", TRUE, <<Call("indexKeyPattern", <<>>)>> \o RawAdvance)
    \o <<Expect("saved", "a")>>

OutOfOrderOnlyTakeover ==
    EnsureIndex1("a")
    \o For(0, 300, LAMBDA i : Insert1(A(1)) \o Insert1(A(2)))
    \o NewCursorAnyOrder(Query(On("a", Eq(1))), "b") \o <<Expect("cursor", TRUE)>>
    \o DoWhile(RawAdvance, "ret", TRUE)
    \o <<ExpectLess("nscanned", 500)>>

(* The loop of the covered index tests: the plan on { a:1 } has the fields
   of the projection in its key, the plan on { b:1 } has not. *)
FindCovered(keys) ==
    While("ok", TRUE,
        If("index", "a", <<Set("flag", TRUE), Expect("keyFieldsOnly", TRUE),
                           ExpectIn("key", keys)>>)
        \o If("index", "b", <<Set("flag2", TRUE), Expect("keyFieldsOnly", FALSE)>>)
        \o RawAdvance)
    \o <<Expect("flag", TRUE), Expect("flag2", TRUE)>>

CoveredIndex ==
    EnsureIndex1("a") \o EnsureIndex1("b") \o Insert1(AB(1, 10))
    \o NewCursorAnyOrder(AGte0BGte0, "a") \o <<Call("Projection", {"a"})>>
    \o FindCovered({1})

CoveredIndexTakeover ==
    EnsureIndex1("a") \o EnsureIndex1("b")
    \o For(0, 150, LAMBDA i : Insert1(AB(1, 1))) \o Insert1(A(2))
    \o NewCursorAnyOrder(Or(<<On("a", Eq(1)), On("b", Eq(1)), On("a", Eq(2))>>), NoOrder)
    \o <<Call("Projection", {"a"})>>
    \o FindCovered({1, 2})

-----------------------------------------------------------------------------
(* class PlanChecking and class PossiblePlans. *)

NPlans1(n, query, order) == <<Call("nPlans", <<query, order>>), Expect("n", n)>>

GetCursor(query, order) ==
    <<Call("getCursor", <<query, order, TRUE, NoHint>>), Expect("cursor", TRUE)>>

RunQuery(query, order) == GetCursor(query, order) \o DoWhile(RawAdvance, "ret", TRUE)

CheckCursor(mayRunInOrderPlan, mayRunOutOfOrderPlan, runningInitialInOrderPlan, runningInitialCachedPlan) ==
    <<Expect("mayRunInOrderPlan", mayRunInOrderPlan),
      Expect("mayRunOutOfOrderPlan", mayRunOutOfOrderPlan),
      Expect("runningInitialInOrderPlan", runningInitialInOrderPlan),
      Expect("runningInitialCachedPlan", runningInitialCachedPlan)>>

RunCursor(checkIterate, completePlanOfHybridSetScanAndOrderRequired) ==
    While("ok", TRUE, checkIterate \o RawAdvance)
    \o <<Expect("completePlanOfHybridSetScanAndOrderRequired",
                completePlanOfHybridSetScanAndOrderRequired)>>

RunCursorUntilTakeover(checkIterate) ==
    While("ok && initialFieldRangeSet", TRUE, checkIterate \o RawAdvance)

CheckTakeoverCursor(currentPlanScanAndOrderRequired) ==
    <<Expect("initialFieldRangeSet", FALSE),
      Expect("currentPlanScanAndOrderRequired", currentPlanScanAndOrderRequired),
      Expect("completePlanOfHybridSetScanAndOrderRequired", FALSE),
      Expect("runningInitialInOrderPlan", FALSE),
      Expect("runningInitialCachedPlan", FALSE)>>

RangeEquality(f, is) == <<Call("range.equality", f), Expect("ret", is)>>

ClearIndexesForPatterns == <<Call("clearIndexesForPatterns", <<>>)>>

A4 == Query(On("a", Eq(4)))

(* The sort { b:1, c:1 }, which no index of the tests gives. *)
BThenC == "b,c"

SaveGoodIndex ==
    EnsureIndex1("a") \o EnsureIndex1("b")
    \o NPlans1(3, A4, "b") \o RunQuery(A4, "b")
    \o NPlans1(1, A4, "b") \o NPlans1(1, A4, "b")
    \o EnsureIndex1("c")
    \o NPlans1(3, A4, "b") \o RunQuery(A4, "b") \o NPlans1(1, A4, "b")
    \o For(0, 334, LAMBDA i :
            <<Call("insert", "i" :> {i}), Call("update", <<On("i", Eq(i)), "i", i + 1>>),
              Call("remove", On("i", Eq(i + 1)))>>)
    \o NPlans1(3, A4, "b")
    \o <<Call("getCursor", <<A4, NoOrder, TRUE, Natural>>)>> \o DoWhile(RawAdvance, "ret", TRUE)
    \o NPlans1(3, A4, "b")
    \o <<Call("getCursor", <<A4, BThenC, TRUE, NoHint>>)>> \o DoWhile(RawAdvance, "ret", TRUE)
    \o NPlans1(3, A4, "b")
    \o RunQuery(A4, "b") \o NPlans1(1, A4, "b")

AX(a, x) == Query(On("a", Eq(a)) @@ On("x", Eq(x)))
ABIs(a, b) == Query(On("a", Eq(a)) @@ On("b", Eq(b)))
A3X1(i) == ("a" :> {3}) @@ ("x" :> {1})

InOrderIterate ==
    <<Expect("currentPlanScanAndOrderRequired", FALSE),
      Expect("completePlanOfHybridSetScanAndOrderRequired", FALSE)>>

PossibleInOrderPlans ==
    LET checkCursor(cached) == CheckCursor(TRUE, FALSE, TRUE, cached)
        setCursor(a)        == GetCursor(AX(a, 1), NoOrder)
    IN  EnsureIndex1("a") \o Insert1(A(1)) \o For(0, 20, LAMBDA i : Insert1(A(2)))
        \o NPlans1(2, AX(1, 1), NoOrder)
        \o setCursor(1) \o checkCursor(FALSE)
        \o RangeEquality("a", TRUE) \o RangeEquality("b", FALSE) \o RangeEquality("x", TRUE)
        \o setCursor(1) \o checkCursor(FALSE)
        \o RunCursor(InOrderIterate, FALSE)
        \o NPlans1(1, AX(1, 1), NoOrder)
        \o setCursor(1) \o checkCursor(TRUE)
        \o setCursor(2) \o checkCursor(TRUE)
        \o For(0, 10, LAMBDA i : RawAdvance)
        \o checkCursor(FALSE)
        \o NPlans1(1, AX(2, 1), NoOrder)
        \o RunCursor(InOrderIterate, FALSE)
        \o NPlans1(1, AX(2, 1), NoOrder)
        \o setCursor(2) \o checkCursor(TRUE)
        \o ClearIndexesForPatterns
        \o NPlans1(2, AX(2, 1), NoOrder)
        \o setCursor(2) \o checkCursor(FALSE)
        \o For(0, 120, LAMBDA i : Insert1(A3X1(i)))
        \o setCursor(3) \o checkCursor(FALSE)
        \o RunCursorUntilTakeover(InOrderIterate) \o AssertOk \o CheckTakeoverCursor(FALSE)
        \o setCursor(3) \o checkCursor(TRUE)
        \o RunCursorUntilTakeover(InOrderIterate) \o CheckTakeoverCursor(FALSE)

OutOfOrderIterate ==
    <<Expect("currentPlanScanAndOrderRequired", TRUE),
      Expect("completePlanOfHybridSetScanAndOrderRequired", FALSE)>>

PossibleOutOfOrderPlans ==
    LET checkCursor(cached) == CheckCursor(FALSE, TRUE, FALSE, cached)
        setCursor(a, b)     == GetCursor(ABIs(a, b), "x")
    IN  EnsureIndex1("a") \o EnsureIndex1("b")
        \o Insert1(AB(1, 1)) \o For(0, 20, LAMBDA i : Insert1(A(2))) \o Insert1("b" :> {2})
        \o NPlans1(3, ABIs(1, 1), "x")
        \o setCursor(1, 1) \o checkCursor(FALSE)
        \o RangeEquality("a", TRUE) \o RangeEquality("b", TRUE) \o RangeEquality("x", FALSE)
        \o setCursor(1, 1) \o checkCursor(FALSE)
        \o RunCursor(OutOfOrderIterate, FALSE)
        \o NPlans1(1, ABIs(1, 1), "x")
        \o setCursor(1, 1) \o checkCursor(TRUE)
        \o setCursor(2, 2) \o checkCursor(TRUE)
        \o For(0, 10, LAMBDA i : RawAdvance)
        \o checkCursor(FALSE)
        \o RunCursor(OutOfOrderIterate, FALSE)
        \o setCursor(1, 1) \o checkCursor(TRUE)
        \o ClearIndexesForPatterns
        \o GetCursor(AX(2, 1), "x") \o checkCursor(FALSE)
        \o For(0, 120, LAMBDA i : Insert1(AB(3, 3)))
        \o setCursor(3, 3) \o checkCursor(FALSE)
        \o RunCursorUntilTakeover(OutOfOrderIterate) \o AssertOk \o CheckTakeoverCursor(TRUE)
        \o setCursor(3, 3) \o checkCursor(TRUE)
        \o RunCursorUntilTakeover(OutOfOrderIterate) \o CheckTakeoverCursor(TRUE)

BothIterate ==
    IfElse("index", "b", <<Expect("currentPlanScanAndOrderRequired", FALSE)>>,
                         <<Expect("currentPlanScanAndOrderRequired", TRUE)>>)
    \o <<Expect("completePlanOfHybridSetScanAndOrderRequired", FALSE)>>

PossibleBothPlans ==
    LET checkCursor(inOrder, cached) == CheckCursor(TRUE, TRUE, inOrder, cached)
        setCursor(a, b)              == GetCursor(ABIs(a, b), "b")
    IN  EnsureIndex1("a") \o EnsureIndex1("b")
        \o Insert1(AB(1, 1)) \o Insert1(AB(2, 1))
        \o For(0, 20, LAMBDA i :
                Insert1(A(2)) \o (IF i % 10 = 0 THEN Insert1("b" :> {2}) ELSE <<>>))
        \o NPlans1(3, ABIs(1, 1), "b")
        \o setCursor(1, 1) \o checkCursor(TRUE, FALSE)
        \o RangeEquality("a", TRUE) \o RangeEquality("b", TRUE) \o RangeEquality("x", FALSE)
        \o setCursor(1, 1) \o checkCursor(TRUE, FALSE)
        \o RunCursor(BothIterate, TRUE)
        \o NPlans1(1, ABIs(1, 1), "b")
        \o setCursor(1, 1) \o checkCursor(FALSE, TRUE)
        \o setCursor(2, 2) \o checkCursor(FALSE, TRUE)
        \o For(0, 10, LAMBDA i : RawAdvance)
        \o checkCursor(TRUE, FALSE)
        \o RunCursor(BothIterate, FALSE)
        \o setCursor(1, 1) \o checkCursor(TRUE, TRUE)
        \o ClearIndexesForPatterns
        \o setCursor(2, 1) \o checkCursor(TRUE, FALSE)
        \o For(0, 120, LAMBDA i : Insert1(AB(3, 3)))
        \o setCursor(3, 3) \o checkCursor(TRUE, FALSE)
        \o RunCursorUntilTakeover(BothIterate) \o AssertOk \o CheckTakeoverCursor(FALSE)
        \o <<Expect("index", "b")>>
        \o setCursor(3, 3) \o checkCursor(TRUE, TRUE)
        \o RunCursorUntilTakeover(BothIterate) \o CheckTakeoverCursor(FALSE)
        \o <<Expect("index", "b")>>

-----------------------------------------------------------------------------

BIsNull == On("b", Eq(NullKey))

(* abortOutOfOrderPlans, advance, and what the cursor returns from then on *)
AbortAndCheck ==
    <<Call("abortOutOfOrderPlans", <<>>)>> \o RawAdvance \o AssertOk
    \o While("ok", TRUE, <<Expect("index", "a")>> \o RawAdvance)
    \o <<Expect("completePlanOfHybridSetScanAndOrderRequired", FALSE)>>

UntilNatural == WhileNot("index", Natural, RawAdvance)

AbortOutOfOrderPlans ==
    EnsureIndex1("a") \o For(0, 10, LAMBDA i : Insert1(A(1)))
    \o GetCursor(Query(On("a", Eq(1)) @@ BIsNull), "a")
    \o UntilNatural
    \o AbortAndCheck

AbortOutOfOrderPlanOnLastMatch ==
    EnsureIndex1("a") \o For(0, 10, LAMBDA i : Insert1("a" :> {1, 2}))
    \o GetCursor(Query(On("a", Gte(1)) @@ BIsNull), "a")
    \o For(0, 10, LAMBDA i : UntilNatural \o RawAdvance)
    \o AbortAndCheck

TakeoverOrRangeElimination ==
    EnsureIndex1("a")
    \o For(0, 120, LAMBDA i : Insert1(A(1)))
    \o For(0, 20, LAMBDA i : Insert1(A(2)))
    \o For(0, 20, LAMBDA i : Insert1(A(3)))
    \o GetCursor(Or(<<On("a", Lte(2)), On("a", Gte(2)), On("a", Eq(9))>>), NoOrder)
    \o <<Set("count", 0)>>
    \o While("ok", TRUE, RawAdvance \o <<Inc("count")>>)
    \o <<Expect("count", 160)>>

PlanCheckingTests ==
    <<RecordedOrderInvalid, AllowOutOfOrderPlan, NoTakeoverByOutOfOrderPlan,
      OutOfOrderOnlyTakeover, CoveredIndex, CoveredIndexTakeover, SaveGoodIndex,
      PossibleInOrderPlans, PossibleOutOfOrderPlans, PossibleBothPlans,
      AbortOutOfOrderPlans, AbortOutOfOrderPlanOnLastMatch, TakeoverOrRangeElimination>>

=============================================================================
