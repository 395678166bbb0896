-------------------------- MODULE QueryTestsOrder --------------------------
(***************************************************************************)
(* The tests of a requested order, of an interrupted operation, of         *)
(* nscanned, of touching an earlier iterate and of the ClientCursor that   *)
(* holds a racer (queryoptimizercursortests.cpp, lines 1734 to 2243).      *)
(***************************************************************************)
EXTENDS QueryTestsYield

IdGt0BGt0 == Query(On("_id", Gt(0)) @@ On("b", Gt(0)))
IdB(i, b) == ("_id" :> {i}) @@ ("b" :> {b})

OrderId ==
    For(0, 10, LAMBDA i : Insert1(Id(i)))
    \o SetQueryOptimizerCursor(Query(All), "_id")
    \o For(0, 10, LAMBDA i : AssertOk \o AtId(i) \o BaseAdvance)

OrderReject ==
    For(0, 10, LAMBDA i : Insert1(IdA(i, i % 5))) \o EnsureIndex1("a")
    \o SetQueryOptimizerCursor(Query(On("a", Gte(3))), "_id")
    \o AssertOk \o AtId(3) \o AssertAdvance \o AtId(4) \o AssertAdvance \o AtId(8)
    \o AssertAdvance \o AtId(9) \o AssertNotAdvance

OrderNatural ==
    Insert1(Id(5)) \o Insert1(Id(4)) \o Insert1(Id(6)) \o EnsureIndex1("a")
    \o SetQueryOptimizerCursor(IdGt0, Natural)
    \o AssertOk \o AtId(5) \o AssertAdvance \o AtId(4) \o AssertAdvance \o AtId(6)
    \o AssertNotAdvance

OrderUnindexed ==
    SetQueryOptimizerCursorWithoutAdvancing(Query(All), "a") \o <<Expect("cursor", FALSE)>>

KillOp ==
    Insert1(IdB(1, 1)) \o Insert1(IdB(2, 2)) \o EnsureIndex1("b")
    \o SetQueryOptimizerCursor(IdGt0BGt0, NoOrder) \o AssertOk
    \o <<Call("kill", <<>>)>>
    \o AssertThrows(BaseAdvance) \o AssertNotAdvance

KillOpFirstClause ==
    Insert1(IdB(1, 1)) \o Insert1(IdB(2, 2)) \o EnsureIndex1("b")
    \o NewQueryOptimizerCursor(Or(<<On("_id", Gt(0)), On("b", Gt(0))>>)) \o AssertOk
    \o <<Call("kill", <<>>)>>
    \o AssertThrows(RawAdvance) \o RawAssertAdvance(FALSE)

Nscanned ==
    For(0, 120, LAMBDA i : Insert1(IdA(i, i)))
    \o NewQueryOptimizerCursor(IdAndA(Gte(0), Gte(0)))
    \o AssertOk \o <<Expect("nscanned", 2)>> \o RawAdvance
    \o AssertOk \o <<Expect("nscanned", 2)>> \o RawAdvance
    \o For(3, 222, LAMBDA i : AssertOk \o RawAdvance)
    \o AssertNotOk

-----------------------------------------------------------------------------
(* Touching an earlier iterate. *)

TouchPrepare == <<Call("prepareToTouchEarlierIterate", <<>>)>>
TouchRecover == <<Call("recoverFromTouchingEarlierIterate", <<>>)>>

(* loc = currLoc(); obj = current(); touch; the cursor is where it was *)
TouchAndCompare ==
    <<Call("currLoc", <<>>), Call("saveCurrent", <<>>)>>
    \o TouchPrepare \o TouchRecover
    \o <<Expect("sameLoc", TRUE), Expect("sameObj", TRUE)>>

TouchEarlierIterate ==
    Insert1(IdB(1, 1)) \o Insert1(IdB(2, 2)) \o EnsureIndex1("b")
    \o NewQueryOptimizerCursor(IdGt0BGt0) \o AssertOk
    \o While("ok", TRUE, TouchAndCompare \o RawAdvance)

TouchEarlierIterateDelete ==
    Insert1(IdB(1, 1)) \o Insert1(IdB(2, 2)) \o EnsureIndex1("b")
    \o SetQueryOptimizerCursor(IdGt0BGt0, NoOrder) \o AssertOk
    \o <<Call("currLoc", <<>>)>> \o RawAssertAdvance(TRUE)
    \o TouchPrepare
    \o Remove1(IdIs(1))
    \o TouchRecover \o AssertOk
    \o While("ok", TRUE, <<Expect("sameLoc", FALSE)>> \o RawAdvance)

(* The loop of the tests that delete every document once the cursor has
   left it: check that the document is new, then advance, then delete. *)
DeleteBehind(check, advance) ==
    While("ok", TRUE,
        <<Expect("deleted.count", 0), Call("getIntField", "_id")>> \o check
        \o <<Call("deleted.insert", <<>>)>> \o advance
        \o TouchPrepare \o <<Call("removeId", <<>>)>>
        \o TouchRecover)

AssertMatchesAndNotDup == RawAssertMatches(TRUE) \o RawAssertGetsetdup(FALSE)

TouchEarlierIterateDeleteMultiple ==
    For(1, 10, LAMBDA i : Insert1(IdB(i, i))) \o EnsureIndex1("b")
    \o SetQueryOptimizerCursor(IdGt0BGt0, NoOrder)
    \o DeleteBehind(<<>>, RawAdvance)
    \o <<Expect("deleted.size", 9)>>

TouchEarlierIterateTakeover ==
    For(1, 600, LAMBDA i : Insert1(IdB(i, i))) \o EnsureIndex1("b")
    \o SetQueryOptimizerCursor(IdGt0BGt0, NoOrder) \o AssertOk
    \o <<Set("count", 1)>>
    \o While("ok", TRUE,
            TouchAndCompare \o <<Call("mayReturnCurrent", <<>>)>>
            \o If("ret", TRUE, <<Inc("count")>>) \o RawAdvance)
    \o <<Expect("count", 599)>>

TouchEarlierIterateTakeoverDeleteMultiple ==
    For(1, 600, LAMBDA i : Insert1(IdB(i, i))) \o EnsureIndex1("b")
    \o SetQueryOptimizerCursorWithoutAdvancing(IdGt0BGt0, NoOrder)
    \o DeleteBehind(AssertMatchesAndNotDup, RawAdvance)
    \o <<Expect("deleted.size", 599)>>

TouchEarlierIterateUnindexedTakeoverDeleteMultiple ==
    For(1, 600, LAMBDA i :
        Insert1(("a" :> {i, i + 1}) @@ ("b" :> {i, i + 1}) @@ ("_id" :> {i})))
    \o EnsureIndex1("a") \o EnsureIndex1("b")
    \o SetQueryOptimizerCursorWithoutAdvancing(Query(On("a", Gt(0)) @@ On("b", Gt(0))), NoOrder)
    \o DeleteBehind(AssertMatchesAndNotDup, RawAdvance)
    \o <<Expect("deleted.size", 599)>>

TouchEarlierIterateTakeoverDeleteMultipleMultiAdvance ==
    For(1, 600, LAMBDA i : Insert1(IdB(i, i))) \o EnsureIndex1("b")
    \o SetQueryOptimizerCursor(IdGt0BGt0, NoOrder)
    \o DeleteBehind(RawAssertMatches(TRUE), BaseAdvance)
    \o <<Expect("deleted.size", 599)>>

-----------------------------------------------------------------------------
(* The ClientCursor that holds a racer. *)

NewClientCursor(option) == <<Call("ClientCursor", option)>>
ClientCursorPrepareToYield == <<Call("ClientCursor::prepareToYield", <<>>)>>
ClientCursorRecoverFromYield == <<Call("ClientCursor::recoverFromYield", <<>>)>>

InitialCappedWrapYieldRecoveryFailure ==
    CreateCollection(1000) \o Insert1(IdX(1))
    \o SetQueryOptimizerCursor(Query(On("x", Gt(0))), NoOrder) \o <<Expect("x", 1)>>
    \o NewClientCursor("noTimeout") \o ClientCursorPrepareToYield
    \o OverwriteFirst({"_id", "x"})
    \o AssertThrows(ClientCursorRecoverFromYield)

(* int i = 300; while ( count( {x:299} ) > 0 ) insert( {_id:i, x:i} ), ++i *)
OverwriteLast ==
    <<Set("n", 300)>>
    \o WhileNot("db.count(x:299)", 0, <<Call("insertN", {"_id", "x"}), Inc("n")>>)

TakeoverCappedWrapYieldRecoveryFailure ==
    CreateCollection(10000) \o For(0, 300, LAMBDA i : Insert1(IdX(i)))
    \o SetQueryOptimizerCursor(Query(On("x", Gte(0))), NoOrder)
    \o For(0, 299, LAMBDA i : BaseAdvance)
    \o <<Expect("x", 299)>>
    \o NewClientCursor("noTimeout") \o ClientCursorPrepareToYield
    \o OverwriteLast
    \o ClientCursorRecoverFromYield \o <<Expect("ret", FALSE)>>

AGte0BGte0 == Query(On("a", Gte(0)) @@ On("b", Gte(0)))

HeldCursor(option) ==
    EnsureIndex1("a") \o EnsureIndex1("b") \o Insert1(AB(1, 1))
    \o <<Call("getCursor", <<AGte0BGte0, NoOrder, FALSE, NoHint>>)>> \o NewClientCursor(option)
    \o ClientCursorPrepareToYield \o <<ExpectMore("nNsCursors", 1)>>

InvalidateClientCursorHolder ==
    HeldCursor("noTimeout")
    \o <<Call("invalidate", <<>>), Expect("nNsCursors", 0)>>

TimeoutClientCursorHolder ==
    HeldCursor("timeout")
    \o <<Call("idleTimeReport", 600001), Expect("nNsCursors", 0)>>

OrderTests ==
    <<OrderId, OrderReject, OrderNatural, OrderUnindexed, KillOp, KillOpFirstClause,
      Nscanned, TouchEarlierIterate, TouchEarlierIterateDelete,
      TouchEarlierIterateDeleteMultiple, TouchEarlierIterateTakeover,
      TouchEarlierIterateTakeoverDeleteMultiple,
      TouchEarlierIterateUnindexedTakeoverDeleteMultiple,
      TouchEarlierIterateTakeoverDeleteMultipleMultiAdvance,
      InitialCappedWrapYieldRecoveryFailure, TakeoverCappedWrapYieldRecoveryFailure,
      InvalidateClientCursorHolder, TimeoutClientCursorHolder>>

=============================================================================
