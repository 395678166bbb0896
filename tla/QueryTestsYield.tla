-------------------------- MODULE QueryTestsYield --------------------------
(***************************************************************************)
(* The tests that yield the cursor, change the collection under it and     *)
(* recover it (queryoptimizercursortests.cpp, lines 1064 to 1732).         *)
(***************************************************************************)
EXTENDS QueryOptimizerCursorTests

IdGt0     == Query(On("_id", Gt(0)))
AtId(i)   == <<Expect("_id", i)>>
Remove1(clause) == <<Call("remove", clause)>>
IdX(i)    == ("_id" :> {i}) @@ ("x" :> {i})

YieldNoOp ==
    Insert1(Id(1)) \o Insert1(Id(2))
    \o SetQueryOptimizerCursor(IdGt0, NoOrder) \o AtId(1) \o AssertPrepareToYield
    \o BaseRecoverFromYield \o AssertOk \o AtId(2) \o AssertNotAdvance \o AssertNotOk
    \o AssertPrepareToYield \o BaseRecoverFromYield

YieldDelete ==
    Insert1(Id(1))
    \o SetQueryOptimizerCursor(Query(IdIs(1)), NoOrder) \o AtId(1) \o AssertPrepareToYield
    \o Remove1(IdIs(1))
    \o BaseRecoverFromYield \o AssertNotOk \o AssertNotAdvance

YieldDeleteContinue ==
    Insert1(Id(1)) \o Insert1(Id(2))
    \o SetQueryOptimizerCursor(IdGt0, NoOrder) \o AtId(1) \o AssertPrepareToYield
    \o Remove1(IdIs(1))
    \o BaseRecoverFromYield \o AssertOk \o AtId(2) \o AssertNotAdvance \o AssertNotOk

YieldDeleteContinueFurther ==
    Insert1(Id(1)) \o Insert1(Id(2)) \o Insert1(Id(3))
    \o SetQueryOptimizerCursor(IdGt0, NoOrder) \o AtId(1) \o AssertPrepareToYield
    \o Remove1(IdIs(1))
    \o BaseRecoverFromYield \o AssertOk \o AtId(2) \o AssertAdvance \o AtId(3)
    \o AssertNotAdvance \o AssertNotOk

YieldUpdate ==
    Insert1(A(1)) \o Insert1(A(2)) \o EnsureIndex1("a")
    \o SetQueryOptimizerCursor(Query(On("a", Gt(0))), NoOrder)
    \o <<Expect("a", 1)>> \o AssertPrepareToYield
    \o <<Call("update", <<On("a", Eq(1)), "a", 3>>)>>
    \o BaseRecoverFromYield \o AssertOk \o <<Expect("a", 2)>>
    \o AssertNotAdvance \o AssertNotOk

YieldDrop ==
    Insert1(Id(1)) \o Insert1(Id(2))
    \o SetQueryOptimizerCursor(IdGt0, NoOrder) \o AtId(1) \o AssertPrepareToYield
    \o <<Call("dropCollection", <<>>)>>
    \o BaseRecoverFromYield \o AssertNotOk

OneOrTwo == Or(<<IdIs(1), IdIs(2)>>)

YieldDropOr ==
    Insert1(Id(1)) \o Insert1(Id(2))
    \o SetQueryOptimizerCursor(OneOrTwo, NoOrder) \o AtId(1) \o AssertPrepareToYield
    \o <<Call("dropCollection", <<>>)>>
    \o AssertThrows(BaseRecoverFromYield) \o AssertNotOk

YieldRemoveOr ==
    Insert1(Id(1)) \o Insert1(Id(2))
    \o SetQueryOptimizerCursor(OneOrTwo, NoOrder) \o AtId(1) \o AssertPrepareToYield
    \o Remove1(IdIs(1))
    \o BaseRecoverFromYield \o AssertOk \o AtId(2)

(* int n = first; while ( count of the first document > 0 ) insert( {fields: ++n} ) *)
OverwriteFirst(fields) ==
    <<Set("n", 1)>>
    \o WhileNot("db.count(first)", 0, <<Inc("n"), Call("insertN", fields)>>)

CreateCollection(bytes) == <<Call("createCollection", bytes)>>

YieldCappedOverwrite ==
    CreateCollection(1000) \o Insert1(IdX(1))
    \o SetQueryOptimizerCursor(Query(On("x", Gt(0))), NoOrder)
    \o <<Expect("x", 1)>> \o AssertPrepareToYield
    \o OverwriteFirst({"_id", "x"})
    \o AssertThrows(BaseRecoverFromYield) \o AssertNotOk

YieldDropIndex ==
    Insert1(Id(1)) \o EnsureIndex1("a")
    \o SetQueryOptimizerCursor(Query(IdIs(1)), NoOrder) \o AtId(1) \o AssertPrepareToYield
    \o <<Call("dropIndex", "a")>>
    \o BaseRecoverFromYield \o AssertNotOk

-----------------------------------------------------------------------------
(* Several plans in the race at the yield. *)

IdGt0AGt0 == IdAndA(Gt(0), Gt(0))

YieldMultiplePlansNoOp ==
    Insert1(IdA(1, 2)) \o Insert1(IdA(2, 1)) \o EnsureIndex1("a")
    \o SetQueryOptimizerCursor(IdGt0AGt0, NoOrder) \o AtId(1) \o AssertPrepareToYield
    \o BaseRecoverFromYield \o AssertOk \o AtId(2) \o AssertNotAdvance \o AssertNotOk

YieldMultiplePlansAdvanceNoOp ==
    Insert1(IdA(1, 2)) \o Insert1(IdA(2, 1)) \o Insert1(IdA(3, 3)) \o EnsureIndex1("a")
    \o SetQueryOptimizerCursor(IdGt0AGt0, NoOrder) \o AtId(1) \o BaseAdvance \o AtId(2)
    \o AssertPrepareToYield
    \o BaseRecoverFromYield \o AssertOk \o AtId(3) \o AssertNotAdvance \o AssertNotOk

YieldMultiplePlansDelete ==
    Insert1(IdA(1, 2)) \o Insert1(IdA(2, 1)) \o Insert1(IdA(3, 4)) \o Insert1(IdA(4, 3))
    \o EnsureIndex1("a")
    \o SetQueryOptimizerCursor(IdGt0AGt0, NoOrder) \o AtId(1) \o BaseAdvance \o AtId(2)
    \o AssertPrepareToYield
    \o Remove1(IdIs(2))
    \o RawRecoverFromYield \o AssertOk \o AtId(1)  \* index {a:1} active during yield
    \o AssertAdvance \o AtId(3) \o AssertAdvance \o AtId(4)
    \o AssertNotAdvance \o AssertNotOk

EitherDocument ==
    Or(<<On("_id", Eq(1)) @@ On("a", Eq(2)), On("_id", Eq(2)) @@ On("a", Eq(1))>>)

YieldMultiplePlansDeleteOr ==
    Insert1(IdA(1, 2)) \o Insert1(IdA(2, 1)) \o EnsureIndex1("a")
    \o SetQueryOptimizerCursor(EitherDocument, NoOrder) \o AtId(1) \o AssertPrepareToYield
    \o Remove1(IdIs(1))
    \o RawRecoverFromYield \o AssertOk \o AtId(2) \o AssertNotAdvance \o AssertNotOk

YieldMultiplePlansDeleteOrAdvance ==
    Insert1(IdA(1, 2)) \o Insert1(IdA(2, 1)) \o EnsureIndex1("a")
    \o SetQueryOptimizerCursor(EitherDocument, NoOrder) \o AtId(1) \o AssertPrepareToYield
    \o RawAdvance \o AtId(1)
    \o Remove1(IdIs(1))
    \o RawRecoverFromYield \o AssertOk \o AtId(2) \o AssertNotAdvance \o AssertNotOk

YieldMultiplePlansCappedOverwrite ==
    CreateCollection(1000) \o Insert1(IdA(1, 1)) \o EnsureIndex1("_id")
    \o SetQueryOptimizerCursor(IdGt0AGt0, NoOrder) \o AtId(1) \o AssertPrepareToYield
    \o OverwriteFirst({"_id", "a"})
    \o BaseRecoverFromYield \o AssertOk \o <<ExpectMore("_id", 1)>>

YieldMultiplePlansCappedOverwriteManual ==
    CreateCollection(1000) \o Insert1(AB(1, 1)) \o EnsureIndex1("a")
    \o NewQueryOptimizerCursor(Query(On("a", Gt(0)) @@ On("b", Gt(0))))
    \o <<Expect("a", 1)>> \o RawAssertGetsetdup(FALSE) \o RawAdvance
    \o <<Expect("a", 1)>> \o RawAssertGetsetdup(TRUE) \o AssertPrepareToYield
    \o OverwriteFirst({"a", "b"})
    \o RawRecoverFromYield \o AssertOk \o <<ExpectMore("a", 1)>>

YieldMultiplePlansCappedOverwriteManual2 ==
    CreateCollection(1000) \o Insert1(IdA(1, 1)) \o EnsureIndex1("_id")
    \o NewQueryOptimizerCursor(IdGt0AGt0)
    \o AtId(1) \o RawAssertGetsetdup(FALSE) \o AssertPrepareToYield
    \o OverwriteFirst({"_id", "a"})
    \o RawRecoverFromYield \o AssertOk \o <<ExpectMore("_id", 1)>>
    \o RawAssertGetsetdup(FALSE) \o <<Call("getIntField", "_id")>>
    \o RawAssertAdvance(TRUE) \o RawAssertGetsetdup(TRUE)
    \o While("id<n", TRUE, RawAssertAdvance(TRUE) \o <<Inc("id"), Expect("sameId", TRUE)>>)

-----------------------------------------------------------------------------
(* After takeover, and with a child that is not the current one. *)

YieldTakeover ==
    For(0, 150, LAMBDA i : Insert1(IdA(i, i))) \o EnsureIndex1("a")
    \o SetQueryOptimizerCursor(IdAndA(Gte(0), Gte(0)), NoOrder)
    \o For(0, 120, LAMBDA i : AssertAdvance)
    \o AssertOk \o AtId(120) \o AssertPrepareToYield
    \o Remove1(IdIs(120))
    \o BaseRecoverFromYield \o AssertOk \o AtId(121) \o AssertAdvance \o AtId(122)

YieldTakeoverBasic ==
    For(0, 150, LAMBDA i : Insert1(IdAs(i, {i, i + 1}))) \o EnsureIndex1("a")
    \o SetQueryOptimizerCursor(Query(On("b", Ne(0)) @@ On("a", Gte(0))), NoOrder)
    \o <<Call("ClientCursor", "noTimeout")>>
    \o For(0, 120, LAMBDA i : AssertAdvance)
    \o AssertOk \o AtId(120) \o <<Call("ClientCursor::prepareToYield", <<>>)>>
    \o Remove1(IdIs(120))
    \o <<Call("ClientCursor::recoverFromYield", <<>>), Expect("ret", TRUE)>>
    \o AssertOk \o AtId(121) \o AssertAdvance \o AtId(122)

YieldInactiveCursorAdvance ==
    For(0, 10, LAMBDA i : Insert1(IdA(i, 10 - i))) \o EnsureIndex1("a")
    \o SetQueryOptimizerCursor(IdGt0AGt0, NoOrder)
    \o AssertOk \o AtId(1) \o AssertAdvance \o AtId(9) \o AssertAdvance \o AtId(2)
    \o AssertPrepareToYield
    \o Remove1(IdIs(9))
    \o BaseRecoverFromYield \o AssertOk \o AtId(8) \o AssertAdvance \o AtId(3)
    \o AssertAdvance \o AtId(7)

YieldTests ==
    <<YieldNoOp, YieldDelete, YieldDeleteContinue, YieldDeleteContinueFurther, YieldUpdate,
      YieldDrop, YieldDropOr, YieldRemoveOr, YieldCappedOverwrite, YieldDropIndex,
      YieldMultiplePlansNoOp, YieldMultiplePlansAdvanceNoOp, YieldMultiplePlansDelete,
      YieldMultiplePlansDeleteOr, YieldMultiplePlansDeleteOrAdvance,
      YieldMultiplePlansCappedOverwrite, YieldMultiplePlansCappedOverwriteManual,
      YieldMultiplePlansCappedOverwriteManual2, YieldTakeover, YieldTakeoverBasic,
      YieldInactiveCursorAdvance>>

=============================================================================
