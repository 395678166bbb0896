--------------------------- MODULE QueryTestsRace ---------------------------
(***************************************************************************)
(* The tests of the match counter, of the dup set, of the interleaving of  *)
(* plans, of takeover and of the clauses of a $or                          *)
(* (queryoptimizercursortests.cpp, lines 49 to 600).                       *)
(***************************************************************************)
EXTENDS QueryOptimizerCursorTests

-----------------------------------------------------------------------------
(* CachedMatchCounter and SmallDupSet. *)

McCount(n, cumulative) ==
    <<Expect("mc.count", n), Expect("mc.cumulativeCount", cumulative)>>

CachedMatchCounterCount ==
    <<Call("CachedMatchCounter", <<0, 0>>)>> \o McCount(0, 0)
    \o <<Call("mc.resetMatch", <<>>), Expect("mc.knowMatch", FALSE),
         Call("mc.setMatch", FALSE), Expect("mc.knowMatch", TRUE),
         Call("mc.countMatch", 0)>> \o McCount(0, 0)
    \o <<Call("mc.resetMatch", <<>>), Expect("mc.knowMatch", FALSE),
         Call("mc.setMatch", TRUE), Expect("mc.knowMatch", TRUE),
         Call("mc.countMatch", 0)>> \o McCount(1, 1)
    \o <<Call("mc.countMatch", 1)>> \o McCount(1, 1)
    \o <<Call("mc.resetMatch", <<>>), Call("mc.setMatch", TRUE),
         Call("mc.countMatch", 1)>> \o McCount(2, 2)

CachedMatchCounterAccumulate ==
    <<Call("CachedMatchCounter", <<0, 10>>)>> \o McCount(0, 10)
    \o <<Call("mc.setMatch", TRUE), Call("mc.countMatch", 0)>> \o McCount(1, 11)

CachedMatchCounterDedup ==
    <<Call("CachedMatchCounter", <<0, 0>>), Call("mc.setCheckDups", TRUE),
      Call("mc.setMatch", TRUE), Call("mc.countMatch", 0), Expect("mc.count", 1),
      Call("mc.resetMatch", <<>>), Call("mc.setMatch", TRUE), Call("mc.countMatch", 0),
      Expect("mc.count", 1)>>

CachedMatchCounterNscanned ==
    <<Call("CachedMatchCounter", <<5, 0>>),
      Expect("mc.nscanned", 0), Expect("mc.aggregateNscanned", 5),
      Call("mc.updateNscanned", 4),
      Expect("mc.nscanned", 4), Expect("mc.aggregateNscanned", 9)>>

AssertGetsetdup(loc, dup) == <<Call("d.getsetdup", loc), Expect("ret", dup)>>
AssertGetdup(loc)         == <<Call("d.getdup", loc), Expect("ret", TRUE)>>

SmallDupSetUpgrade ==
    <<Call("SmallDupSet", <<>>)>>
    \o For(0, 100, LAMBDA i : AssertGetsetdup(i, FALSE) \o For(0, i + 1, AssertGetdup))

SmallDupSetUpgradeRead ==
    <<Call("SmallDupSet", <<>>), Call("d.getsetdup", 0)>>
    \o For(0, 550, LAMBDA i : AssertGetdup(0))
    \o AssertGetsetdup(0, TRUE)

SmallDupSetUpgradeWrite ==
    <<Call("SmallDupSet", <<>>)>>
    \o For(0, 550, LAMBDA i : AssertGetsetdup(i, FALSE))
    \o For(0, 550, LAMBDA i : AssertGetsetdup(i, TRUE))

-----------------------------------------------------------------------------
(* One clause. *)

(* The accessors Empty expects to throw on a cursor that is not ok after
   its advance (lines 266-275), and those it calls without an exception
   (lines 278-279). *)
AssertingOk ==
    <<"currKey", "getsetdup", "isMultiKey", "matcher", "initialFieldRangeSet",
      "currentPlanScanAndOrderRequired", "keyFieldsOnly", "runningInitialInOrderPlan",
      "runningInitialCachedPlan">>

NotAssertingOk == <<"initialCandidatePlans", "completePlanOfHybridSetScanAndOrderRequired">>

Empty ==
    SetQueryOptimizerCursorWithoutAdvancing(Query(All), NoOrder)
    \o AssertNotOk
    \o AssertThrows(<<Call("access", "_current")>>)
    \o AssertThrows(<<Call("access", "current")>>)
    \o <<Expect("currLoc", 0), Call("advance", <<>>), Expect("ret", FALSE)>>
    \o Flat([i \in 1..9 |-> AssertThrows(<<Call("access", AssertingOk[i])>>)])
    \o Flat([i \in 1..2 |-> <<Call("observe", NotAssertingOk[i])>>])
    \o <<Call("clearIndexesForPatterns", <<>>), Call("abortOutOfOrderPlans", <<>>),
          Call("noteIterate", <<"false", "false", "false">>),
          Call("observe", "explainQueryInfo")>>

Unindexed ==
    Insert1(Id(1)) \o Insert1(Id(2))
    \o SetQueryOptimizerCursor(Query(All), NoOrder)
    \o AssertItcount(2)

Basic ==
    Insert1(IdA(1, 2)) \o Insert1(IdA(2, 1)) \o EnsureIndex1("a")
    \o SetQueryOptimizerCursor(IdAndA(Gt(0), Gt(0)), NoOrder)
    \o AssertOk \o AssertCurrent(IdA(1, 2))
    \o AssertAdvance \o AssertCurrent(IdA(2, 1))
    \o AssertNotAdvance \o AssertNotOk

NoMatch ==
    EnsureIndex1("a")
    \o SetQueryOptimizerCursor(Query(Between("_id", 5, 4) @@ On("a", Gt(0))), NoOrder)
    \o AssertNotOk

Interleaved ==
    Insert1(IdA(1, 2)) \o Insert1(IdA(3, 1)) \o Insert1(IdA(2, 2)) \o EnsureIndex1("a")
    \o SetQueryOptimizerCursor(IdAndA(Gt(0), Gt(0)), NoOrder)
    \o AssertOk \o AssertCurrent(IdA(1, 2))
    \o AssertAdvance \o AssertCurrent(IdA(3, 1))
    \o AssertAdvance \o AssertCurrent(IdA(2, 2))
    \o AssertNotAdvance \o AssertNotOk

NotMatch ==
    Insert1(IdA(0, 10)) \o Insert1(IdA(10, 0)) \o Insert1(IdA(11, 12))
    \o Insert1(IdA(12, 11)) \o EnsureIndex1("a")
    \o SetQueryOptimizerCursor(IdAndA(Gt(5), Gt(5)), NoOrder)
    \o AssertOk \o AssertCurrent(IdA(11, 12))
    \o AssertAdvance \o AssertCurrent(IdA(12, 11))
    \o AssertNotAdvance \o AssertNotOk

-----------------------------------------------------------------------------
(* Takeover. *)

StopInterleaving ==
    For(0, 101, LAMBDA i : Insert1(IdA(i, i)))
    \o For(101, 200, LAMBDA i : Insert1(IdA(i, 301 - i)))
    \o EnsureIndex1("a")
    \o SetQueryOptimizerCursor(IdAndA(Gt(-1), Gt(-1)), NoOrder)
    \o For(0, 200, LAMBDA i : AssertOk \o <<Expect("_id", i)>> \o BaseAdvance)
    \o AssertNotAdvance \o AssertNotOk

TakeoverWithDup ==
    For(0, 101, LAMBDA i : Insert1(IdA(i, i)))
    \o Insert1(IdAs(500, {0, 300})) \o EnsureIndex1("a")
    \o SetQueryOptimizerCursor(IdAndA(Gt(-1), Gt(-1)), NoOrder)
    \o AssertItcount(102)

TakeoverWithNonMatches ==
    For(0, 101, LAMBDA i : Insert1(IdA(i, i)))
    \o Insert1(IdA(101, 600)) \o EnsureIndex1("a")
    \o SetQueryOptimizerCursor(IdAndA(Gt(-1), Lt(500)), NoOrder)
    \o AssertItcount(101)

TakeoverWithTakeoverDup ==
    For(0, 101, LAMBDA i : Insert1(IdA(i * 2, 0)) \o Insert1(IdA(i * 2 + 1, 1)))
    \o Insert1(IdAs(202, {2, 3})) \o EnsureIndex1("a")
    \o SetQueryOptimizerCursor(IdAndA(Gt(-1), Gt(0)), NoOrder)
    \o AssertItcount(102)

-----------------------------------------------------------------------------
(* $or. *)

AIs(a)  == On("a", Eq(a))

TwoWithAOne == Insert1(IdA(0, 1)) \o Insert1(IdA(1, 1)) \o EnsureIndex1("a")

BothInOrder ==
    AssertCurrent(IdA(0, 1)) \o AssertAdvance \o AssertCurrent(IdA(1, 1)) \o AssertNotAdvance

BasicOr ==
    Insert1(IdA(0, 0)) \o Insert1(IdA(1, 1)) \o EnsureIndex1("a")
    \o SetQueryOptimizerCursor(Or(<<IdIs(0), AIs(1)>>), NoOrder)
    \o AssertCurrent(IdA(0, 0)) \o AssertAdvance \o AssertCurrent(IdA(1, 1))
    \o AssertNotAdvance

OrFirstClauseEmpty ==
    TwoWithAOne \o SetQueryOptimizerCursor(Or(<<IdIs(-1), AIs(1)>>), NoOrder) \o BothInOrder

OrSecondClauseEmpty ==
    TwoWithAOne
    \o SetQueryOptimizerCursor(Or(<<IdIs(0), IdIs(-1), AIs(1)>>), NoOrder) \o BothInOrder

OrMultipleClausesEmpty ==
    TwoWithAOne
    \o SetQueryOptimizerCursor(
            Or(<<IdIs(2), IdIs(4), IdIs(0), IdIs(-1), IdIs(6), AIs(1), IdIs(9)>>), NoOrder)
    \o BothInOrder

TakeoverCountOr ==
    For(0, 60, LAMBDA i : Insert1(IdA(i, 0)))
    \o For(60, 120, LAMBDA i : Insert1(IdA(i, 1)))
    \o For(120, 150, LAMBDA i : Insert1(IdA(i, 200 - i)))
    \o EnsureIndex1("a")
    \o SetQueryOptimizerCursor(
            Or(<<AIs(0), AIs(1), On("_id", Gte(120)) @@ On("a", Gt(1))>>), NoOrder)
    \o For(0, 120, LAMBDA i : AssertOk \o BaseAdvance)
    \o For(120, 150, LAMBDA i : <<Expect("_id", i)>> \o BaseAdvance)
    \o AssertNotOk

(* TakeoverEndOfOrClause, ...Before... and ...After...: n documents, the
   last of them alone in the second clause. *)
TakeoverAtEndOfOrClause(n) ==
    For(0, n, LAMBDA i : Insert1(Id(i)))
    \o SetQueryOptimizerCursor(Or(<<On("_id", Lt(n - 1)), IdIs(n - 1)>>), NoOrder)
    \o For(0, n, LAMBDA i : <<Expect("_id", i)>> \o BaseAdvance)
    \o AssertNotOk

TakeoverEndOfOrClause       == TakeoverAtEndOfOrClause(102)
TakeoverBeforeEndOfOrClause == TakeoverAtEndOfOrClause(101)
TakeoverAfterEndOfOrClause  == TakeoverAtEndOfOrClause(103)

RaceTests ==
    <<CachedMatchCounterCount, CachedMatchCounterAccumulate, CachedMatchCounterDedup,
      CachedMatchCounterNscanned, SmallDupSetUpgrade, SmallDupSetUpgradeRead,
      SmallDupSetUpgradeWrite, Empty, Unindexed, Basic, NoMatch, Interleaved, NotMatch,
      StopInterleaving, TakeoverWithDup, TakeoverWithNonMatches, TakeoverWithTakeoverDup,
      BasicOr, OrFirstClauseEmpty, OrSecondClauseEmpty, OrMultipleClausesEmpty,
      TakeoverCountOr, TakeoverEndOfOrClause, TakeoverBeforeEndOfOrClause,
      TakeoverAfterEndOfOrClause>>

=============================================================================
