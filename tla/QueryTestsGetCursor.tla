------------------------ MODULE QueryTestsGetCursor ------------------------
(***************************************************************************)
(* The tests of NamespaceDetailsTransient::getCursor: which cursor a query *)
(* gets under each plan selection policy                                   *)
(* (queryoptimizercursortests.cpp, namespace GetCursor, lines 2904 to      *)
(* 3380).                                                                  *)
(***************************************************************************)
EXTENDS QueryTestsPlanChecking

GetCursorCall1(query, order, policy, pq) ==
    <<Call("NamespaceDetailsTransient::getCursor", <<query, order, policy, pq>>)>>

(* GetCursor::Base: the constructors insert { _id:5 } and set the
   collection up; run asks for the cursor of the parsed query and checks
   its class, simpleEqualityMatch and what check() asserts. *)
GetCursorBase(setup, query, policy, pq, simple, type, check) ==
    Insert1(Id(5)) \o setup
    \o GetCursorCall1(query, NoOrder, policy, pq)
    \o <<Expect("simpleEqualityMatch", simple), Expect("type", type)>>
    \o check

(* GetCursor::Base::run with expectException: the call has no parsed
   query. *)
ExpectException(setup, query, policy) ==
    Insert1(Id(5)) \o setup
    \o AssertThrows(GetCursorCall1(query, NoOrder, policy, NoParsedQuery))

(* GetCursor::Base::check *)
CheckOnlyId(id, matcher) ==
    <<Expect("ok", TRUE)>> \o matcher \o <<Expect("_id", id)>> \o RawAssertAdvance(FALSE)

CheckDefault == CheckOnlyId(5, <<Expect("matcher", FALSE)>>)

Btree(f) == <<"BtreeCursor", f>>
BasicCursor == <<"BasicCursor">>
Racer == <<"QueryOptimizerCursor">>

-----------------------------------------------------------------------------
(* namespace GetCursor *)

GetCursor_NoConstraints ==
    GetCursorBase(<<>>, Query(All), "any", ParsedQuery, FALSE, BasicCursor, CheckDefault)

GetCursor_SimpleId ==
    GetCursorBase(Insert1(Id(0)) \o Insert1(Id(10)),
                  Query(IdIs(5)), "any", ParsedQuery, FALSE, Btree("_id"), CheckDefault)

GetCursor_OptimalIndex ==
    GetCursorBase(EnsureIndex1("a") \o Insert1(A(5)) \o Insert1(A(6)),
                  Query(On("a", Gte(5))), "any", ParsedQuery, FALSE, Btree("a"),
                  <<Expect("ok", TRUE), Expect("matcher", TRUE), Expect("a", 5),
                    Expect("matches", TRUE)>>
                  \o RawAssertAdvance(TRUE) \o <<Expect("a", 6), Expect("matches", TRUE)>>
                  \o RawAssertAdvance(FALSE))

GetCursor_SimpleKeyMatch ==
    GetCursorBase(EnsureIndex1("a") \o <<Call("update", <<All, "a", BoolTrue>>)>>,
                  Query(On("a", Eq(BoolTrue))), "any", ParsedQuery, TRUE, Btree("a"),
                  CheckOnlyId(5, <<>>))

GetCursor_PreventOutOfOrderPlan ==
    Insert1(Id(5))
    \o GetCursorCall1(Query(All), "b", "any", NoParsedQuery)
    \o <<Expect("cursor", FALSE)>>

GetCursor_AllowOutOfOrderPlan ==
    Insert1(Id(5))
    \o GetCursorCall1(Query(All), "a", "any", ParsedQuery)
    \o <<Expect("cursor", TRUE)>>

GetCursor_BestSavedOutOfOrder ==
    Insert1(("_id" :> {5}) @@ ("b" :> 1..5)) \o Insert1(("_id" :> {1}) @@ ("b" :> {6}))
    \o EnsureIndex1("b")
    \o ClientQueryMore(IdGt0BGt0, "b")
    \o GetCursorCall1(IdGt0BGt0, "b", "any", NoParsedQuery)
    \o <<Expect("cursor", TRUE), Expect("_id", 5)>>

QAndId == Query(On("q", Eq(1)) @@ On("_id", Eq(1)))

GetCursor_BestSavedNotOptimal ==
    Insert1(("_id" :> {1}) @@ ("q" :> {1})) \o EnsureIndex1("q")
    \o ClientQueryMore(QAndId, NoOrder)
    \o <<Expect("indexForPattern", "_id")>>
    \o GetCursorCall1(QAndId, NoOrder, "any", NoParsedQuery)
    \o <<Expect("type", Racer)>>

GetCursor_MultiIndex ==
    GetCursorBase(EnsureIndex1("a"), Query(On("_id", Gt(0)) @@ On("a", Gt(0))),
                  "any", ParsedQuery, FALSE, Racer, <<>>)

GetCursor_Hint ==
    GetCursorBase(EnsureIndex1("a"), Query(IdIs(1)),
                  "any", [ParsedQuery EXCEPT !.hint = "a"], FALSE, Btree("a"), <<>>)

Snapshot == [ParsedQuery EXCEPT !.snapshot = TRUE]

GetCursor_Snapshot ==
    GetCursorBase(EnsureIndex1("a"), Query(On("a", Eq(1))),
                  "any", Snapshot, FALSE, Btree("_id"), <<>>)

GetCursor_SnapshotWithoutIdIndex ==
    GetCursorBase(<<Call("dropCollection", <<>>), Call("createCollection", 1000)>>
                  \o EnsureIndex1("a"),
                  Query(On("a", Eq(1))), "any", Snapshot, FALSE, Btree("a"), <<>>)

(* $min and $max name the index { a:1 } by the fields of their key. *)
GetCursor_Min ==
    GetCursorBase(EnsureIndex1("a"), Query(All),
                  "any", [ParsedQuery EXCEPT !.range = "a"], FALSE, Btree("a"), <<>>)

GetCursor_Max ==
    GetCursorBase(EnsureIndex1("a"), Query(All),
                  "any", [ParsedQuery EXCEPT !.range = "a"], FALSE, Btree("a"), <<>>)

-----------------------------------------------------------------------------
(* namespace RequireIndex: the policy indexOnly. *)

AOrB == Or(<<On("a", Eq(1)), On("b", Eq(1))>>)

RequireIndex_NoConstraints == ExpectException(<<>>, Query(All), "indexOnly")

RequireIndex_SimpleId ==
    GetCursorBase(<<>>, Query(IdIs(5)), "indexOnly", ParsedQuery, FALSE, Btree("_id"),
                  CheckDefault)

RequireIndex_UnindexedQuery == ExpectException(<<>>, Query(On("a", Gte(5))), "indexOnly")

RequireIndex_SecondOrClauseIndexed ==
    GetCursorBase(EnsureIndex1("a") \o EnsureIndex1("b") \o Insert1(A(1)) \o Insert1("b" :> {1}),
                  AOrB, "indexOnly", ParsedQuery, FALSE, Racer,
                  <<Expect("ok", TRUE), Expect("matcher", TRUE)>>
                  \o RawAssertAdvance(TRUE) \o RawAssertAdvance(FALSE))

RequireIndex_SecondOrClauseUnindexed ==
    ExpectException(EnsureIndex1("a") \o Insert1(A(1)), AOrB, "indexOnly")

-----------------------------------------------------------------------------
(* namespace IdElseNatural: the policy idElseNatural. *)

IdElseNatural_AllowOptimalNaturalPlan ==
    GetCursorBase(<<>>, Query(All), "idElseNatural", ParsedQuery, FALSE, BasicCursor,
                  CheckDefault)

IdElseNatural_AllowOptimalIdPlan ==
    GetCursorBase(<<>>, Query(IdIs(5)), "idElseNatural", ParsedQuery, FALSE, Btree("_id"),
                  CheckDefault)

CheckMatchesId1 == CheckOnlyId(1, RawAssertMatches(TRUE))

IdElseNatural_HintedIdForQuery(query) ==
    GetCursorBase(<<Call("remove", All)>> \o EnsureIndex1("a") \o Insert1(IdA(1, 1)),
                  query, "idElseNatural", ParsedQuery, FALSE, Btree("_id"), CheckMatchesId1)

IdElseNatural_HintedNaturalForQuery(query) ==
    GetCursorBase(<<Call("dropCollection", <<>>), Call("createCollection", 1024)>>
                  \o EnsureIndex1("a") \o Insert1(IdA(1, 1)),
                  query, "idElseNatural", ParsedQuery, FALSE, <<"ForwardCappedCursor">>,
                  CheckMatchesId1)
    \o <<Call("dropCollection", <<>>)>>

-----------------------------------------------------------------------------
(* The tests of this module, as class All adds them (lines 4040 to 4067). *)

Id1  == Query(IdIs(1))
A1   == Query(On("a", Eq(1)))
Id1A1 == IdAndA(Eq(1), Eq(1))

GetCursorTests ==
    <<GetCursor_NoConstraints, GetCursor_SimpleId, GetCursor_OptimalIndex,
      GetCursor_SimpleKeyMatch, GetCursor_PreventOutOfOrderPlan,
      GetCursor_AllowOutOfOrderPlan, GetCursor_BestSavedOutOfOrder,
      GetCursor_BestSavedNotOptimal, GetCursor_MultiIndex, GetCursor_Hint,
      GetCursor_Snapshot, GetCursor_SnapshotWithoutIdIndex, GetCursor_Min, GetCursor_Max,
      RequireIndex_NoConstraints, RequireIndex_SimpleId, RequireIndex_UnindexedQuery,
      RequireIndex_SecondOrClauseIndexed, RequireIndex_SecondOrClauseUnindexed,
      IdElseNatural_AllowOptimalNaturalPlan, IdElseNatural_AllowOptimalIdPlan,
      IdElseNatural_HintedIdForQuery(Id1), IdElseNatural_HintedIdForQuery(A1),
      IdElseNatural_HintedIdForQuery(Id1A1),
      IdElseNatural_HintedNaturalForQuery(Query(All)), IdElseNatural_HintedNaturalForQuery(Id1),
      IdElseNatural_HintedNaturalForQuery(A1), IdElseNatural_HintedNaturalForQuery(Id1A1)>>

=============================================================================
