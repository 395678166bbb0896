------------------------- MODULE QueryTestsExplain -------------------------
(***************************************************************************)
(* The tests of the explain output of a query optimizer cursor: what the   *)
(* plans, the clauses and the query report after the client has iterated,  *)
(* matched, counted and yielded                                            *)
(* (queryoptimizercursortests.cpp, namespace Explain, lines 3382 to 3939). *)
(*                                                                         *)
(* The running time of a query is not part of the explain output here, so  *)
(* the assertions that "millis" is present are left out.                   *)
(***************************************************************************)
EXTENDS QueryTestsGetCursor

ExplainQuery(fields) == [ParsedQuery EXCEPT !.explain = TRUE, !.fields = fields]

Bson == <<Call("explainQueryInfo.bson", <<>>)>>

(* Explain::Base::run *)
ExplainBase(setupCollection, query, fields, handleCursor, checkExplain) ==
    setupCollection
    \o GetCursorCall1(query, NoOrder, "any", ExplainQuery(fields))
    \o <<Expect("type", Racer)>>
    \o handleCursor \o Bson \o checkExplain

(* Explain::Base::setupCollection and query *)
TwoDocs == EnsureIndex1("a") \o Insert1(AB(1, 1)) \o Insert1(AB(2, 1))
A1B1    == Query(On("a", Eq(1)) @@ On("b", Eq(1)))
AGt0B1  == Query(On("a", Gt(0)) @@ On("b", Eq(1)))

(* The counters of the object at `path', and those of its plan i. *)
Counters(path, n, nscannedObjects, nscanned) ==
    <<ExpectAt(path \o <<"n">>, n), ExpectAt(path \o <<"nscannedObjects">>, nscannedObjects),
      ExpectAt(path \o <<"nscanned">>, nscanned)>>

Plan(path, i) == path \o <<"allPlans", i>>

Top == <<>>

CursorIs(path, name) == <<ExpectAt(path \o <<"cursor">>, name)>>

-----------------------------------------------------------------------------
Explain_ClearRecordedIndex ==
    EnsureIndex1("a") \o EnsureIndex1("b") \o Insert1(AB(1, 1)) \o Insert1(AB(1, 1))
    \o GetCursorCall1(A1B1, NoOrder, "any", NoParsedQuery)
    \o DoWhile(RawAdvance, "ret", TRUE)
    \o GetCursorCall1(A1B1, NoOrder, "any", ExplainQuery({}))
    \o While("ok", TRUE, <<Call("indexKeys.insert", <<>>)>> \o RawAdvance)
    \o <<ExpectMore("indexKeys.size", 1)>>

(* What Initial and Empty check before they look at the plans. *)
Untouched(nscanned) ==
    <<ExpectHas(<<"cursor">>, TRUE), ExpectAt(<<"isMultiKey">>, FALSE)>>
    \o Counters(Top, 0, 0, nscanned)
    \o <<ExpectAt(<<"scanAndOrder">>, FALSE), ExpectAt(<<"indexOnly">>, FALSE),
         ExpectAt(<<"nYields">>, 0), ExpectAt(<<"nChunkSkips">>, 0),
         ExpectHas(<<"indexBounds">>, TRUE), ExpectSize(<<"allPlans">>, 2)>>

UntouchedPlans(nscanned) ==
    CursorIs(Plan(Top, 1), Btree("a")) \o Counters(Plan(Top, 1), 0, 0, nscanned)
    \o <<ExpectAt(Plan(Top, 1) \o <<"indexBounds">>, <<Eq(1)>>)>>
    \o CursorIs(Plan(Top, 2), BasicCursor) \o Counters(Plan(Top, 2), 0, 0, nscanned)
    \o <<ExpectAt(Plan(Top, 2) \o <<"indexBounds">>, <<>>)>>

Explain_Initial ==
    ExplainBase(TwoDocs, A1B1, {}, <<>>, Untouched(2) \o UntouchedPlans(1))

Explain_Empty ==
    ExplainBase(EnsureIndex1("a"), A1B1, {}, AssertNotOk, Untouched(0) \o UntouchedPlans(0))

(* if ( currentMatches( &matchDetails ) && !getsetdup( currLoc() ) )
       noteIterate( true, true, chunkSkip );
   else otherwise *)
NoteCounted(chunkSkip, then, otherwise) ==
    <<Call("currentMatches", <<>>)>>
    \o IfElse("ret", TRUE,
              <<Call("getsetdup", <<>>)>>
              \o IfElse("ret", FALSE,
                        <<Call("noteIterate", <<"true", "true", chunkSkip>>)>> \o then,
                        otherwise),
              otherwise)

NoteUncounted == <<Call("noteIterate", <<"false", "loadedObject", "false">>)>>

CountEach == NoteCounted("false", <<>>, NoteUncounted) \o RawAdvance

Explain_SimpleCount ==
    ExplainBase(TwoDocs, A1B1, {}, While("ok", TRUE, CountEach),
                CursorIs(Top, Btree("a")) \o Counters(Top, 1, 2, 2)
                \o Counters(Plan(Top, 1), 1, 1, 1) \o Counters(Plan(Top, 2), 1, 1, 1))

Explain_IterateOnly ==
    ExplainBase(TwoDocs, AGt0B1, {}, While("ok", TRUE, RawAdvance),
                CursorIs(Top, Btree("a")) \o Counters(Top, 0, 0, 3)
                \o Counters(Plan(Top, 1), 2, 2, 2) \o Counters(Plan(Top, 2), 1, 1, 1))

Explain_ExtraMatchChecks ==
    ExplainBase(TwoDocs, AGt0B1, {},
                While("ok", TRUE,
                      For(0, 3, LAMBDA n : <<Call("currentMatches", <<>>)>>) \o RawAdvance),
                CursorIs(Top, Btree("a")) \o Counters(Top, 0, 0, 4)
                \o Counters(Plan(Top, 1), 2, 6, 2) \o Counters(Plan(Top, 2), 2, 6, 2))

Explain_PartialIteration ==
    ExplainBase(TwoDocs, A1B1, {},
                <<Call("currentMatches", <<>>)>> \o RawAdvance
                \o <<Call("noteIterate", <<"true", "true", "false">>)>>,
                CursorIs(Top, Btree("a")) \o Counters(Top, 1, 1, 2)
                \o Counters(Plan(Top, 1), 1, 1, 1) \o Counters(Plan(Top, 2), 0, 0, 1))

OneArray == EnsureIndex1("a") \o Insert1("a" :> {1, 2})

Explain_Multikey ==
    ExplainBase(OneArray, A1B1, {}, DoWhile(RawAdvance, "ret", TRUE),
                <<ExpectAt(<<"isMultiKey">>, TRUE)>>)

Explain_MultikeyInitial ==
    ExplainBase(OneArray, A1B1, {}, <<>>, <<ExpectAt(<<"isMultiKey">>, TRUE)>>)

Explain_BecomesMultikey ==
    ExplainBase(EnsureIndex1("a") \o Insert1(A(1)), A1B1, {}, <<>>,
                <<ExpectAt(<<"isMultiKey">>, FALSE), Call("prepareToYield", <<>>)>>
                \o Insert1("a" :> {1, 2})
                \o <<Call("recoverFromYield", <<>>), Call("currentMatches", <<>>)>>
                \o Bson \o <<ExpectAt(<<"isMultiKey">>, TRUE)>>)

(* CountAndYield::handleCursor *)
CountAndYieldEach ==
    <<Set("count", 0)>>
    \o While("ok", TRUE,
             <<Call("prepareToYield", <<>>), Inc("count"), Call("recoverFromYield", <<>>)>>
             \o CountEach)

Explain_CountAndYield ==
    ExplainBase(EnsureIndex1("a") \o For(0, 5, LAMBDA i : Insert1(AB(1, 1))), A1B1, {},
                CountAndYieldEach,
                <<ExpectMore("count", 0), Expect("_nYields=nYields", TRUE)>>
                \o CursorIs(Top, Btree("a")) \o Counters(Top, 5, 10, 10)
                \o Counters(Plan(Top, 1), 5, 5, 5) \o Counters(Plan(Top, 2), 5, 5, 5))

Clause(i) == <<"clauses", i>>

(* What MultipleClauses checks of a clause and its two plans. *)
ClauseOfTwo(i, f, n, scanned) ==
    CursorIs(Clause(i), Btree(f)) \o Counters(Clause(i), n, 2 * scanned, 2 * scanned)
    \o <<ExpectAt(Clause(i) \o <<"nYields">>, 2 * scanned)>>
    \o CursorIs(Plan(Clause(i), 1), Btree(f)) \o Counters(Plan(Clause(i), 1), n, scanned, scanned)
    \o CursorIs(Plan(Clause(i), 2), BasicCursor)
    \o Counters(Plan(Clause(i), 2), n, scanned, scanned)

CNull == On("c", Eq(NullKey))

Explain_MultipleClauses ==
    ExplainBase(EnsureIndex1("a") \o EnsureIndex1("b")
                \o For(0, 4, LAMBDA i : Insert1(AB(1, 1))) \o Insert1(AB(0, 1)),
                Or(<<On("a", Eq(1)) @@ CNull, On("b", Eq(1)) @@ CNull>>), {},
                CountAndYieldEach,
                <<Expect("count", 18)>> \o Counters(Top, 5, 18, 18)
                \o ClauseOfTwo(1, "a", 4, 4) \o ClauseOfTwo(2, "b", 1, 5))

(* What MultiCursorTakeover checks of the clause { a:i }. *)
ClauseOfOne(i) ==
    LET clause == Clause(21 - i) IN
    CursorIs(clause, Btree("a")) \o <<ExpectAt(clause \o <<"indexBounds">>, <<Eq(i)>>)>>
    \o Counters(clause, i, i, i) \o <<ExpectAt(clause \o <<"nYields">>, i)>>
    \o <<ExpectSize(clause \o <<"allPlans">>, 1)>> \o Counters(Plan(clause, 1), i, i, i)

Explain_MultiCursorTakeover ==
    ExplainBase(EnsureIndex1("a")
                \o For(0, 20, LAMBDA k : For(0, 20 - k, LAMBDA j : Insert1(A(20 - k)))),
                Or([k \in 1..20 |-> On("a", Eq(21 - k))]), {},
                CountAndYieldEach,
                <<ExpectSize(<<"clauses">>, 20)>>
                \o For(0, 20, LAMBDA k : ClauseOfOne(20 - k))
                \o Counters(Top, 210, 210, 210))

Explain_NChunkSkipsTakeover ==
    ExplainBase(EnsureIndex1("a") \o For(0, 200, LAMBDA i : Insert1(AB(1, 1)))
                \o For(0, 200, LAMBDA i : Insert1(AB(2, 2))),
                Or(<<On("a", Eq(1)) @@ On("b", Eq(1)), On("a", Eq(2)) @@ On("b", Eq(2))>>), {},
                <<Expect("type", Racer), Set("n", 0)>>
                \o While("ok", TRUE, NoteCounted("n%2=0", <<Inc("n")>>, <<>>) \o RawAdvance),
                <<ExpectHas(<<"nChunkSkips">>, FALSE),
                  ExpectAt(Clause(1) \o <<"nChunkSkips">>, 100),
                  ExpectHas(Plan(Clause(1), 1) \o <<"nChunkSkips">>, FALSE),
                  ExpectAt(Clause(2) \o <<"nChunkSkips">>, 100),
                  ExpectHas(Plan(Clause(2), 1) \o <<"nChunkSkips">>, FALSE)>>)

A1OrA2 == Or(<<On("a", Eq(1)), On("a", Eq(2))>>)

BothClausesIndexOnly ==
    <<ExpectAt(Clause(1) \o <<"indexOnly">>, TRUE), ExpectAt(Clause(2) \o <<"indexOnly">>, TRUE)>>

Explain_CoveredIndex ==
    ExplainBase(TwoDocs, A1OrA2, {"a"},
                <<Expect("type", Racer)>> \o DoWhile(RawAdvance, "ret", TRUE),
                BothClausesIndexOnly)

Explain_CoveredIndexTakeover ==
    ExplainBase(EnsureIndex1("a") \o For(0, 150, LAMBDA i : Insert1(A(1))) \o Insert1(A(2)),
                A1OrA2, {"a"},
                <<Expect("type", Racer)>> \o DoWhile(RawAdvance, "ret", TRUE),
                BothClausesIndexOnly)

(* shared_ptr<Cursor> fCursor( getCursor( ns(), BSON( f << 1 ) ) ) *)
CursorOn(f) ==
    GetCursorCall1(Query(On(f, Eq(1))), NoOrder, "any", NoParsedQuery)
    \o <<Call("shared_ptr<Cursor>", <<>>)>>

Explain_VirtualPickedPlan ==
    EnsureIndex1("a") \o EnsureIndex1("b") \o EnsureIndex1("c")
    \o CursorOn("a") \o CursorOn("b") \o CursorOn("c")
    \o For(1, 4, LAMBDA i : <<Call("notePlan", i)>>)
    \o <<Call("plan.noteIterate", <<1, TRUE, FALSE>>),
         Call("plan.noteIterate", <<2, TRUE, FALSE>>),
         Call("plan.noteIterate", <<2, TRUE, FALSE>>),
         Call("plan.noteIterate", <<3, TRUE, FALSE>>),
         Call("clause.bson", <<>>)>>
    \o CursorIs(Top, Btree("b"))

-----------------------------------------------------------------------------
(* GetCursor::RequireIndex::RecordedUnindexedPlan, which is here for the
   explain query its constructor runs. *)

(* _cli.query( ns, QUERY( query ).explain() )->next(): the query runs to its
   end, counting as it goes, and answers with its explain output. *)
ClientQueryExplain(query) ==
    GetCursorCall1(query, NoOrder, "any", ExplainQuery({}))
    \o While("ok", TRUE, CountEach) \o Bson

(* The table scan is recorded for the query, and a caller that requires an
   index gets the plans that have one. *)
RequireIndex_RecordedUnindexedPlan ==
    GetCursorBase(EnsureIndex1("a") \o Insert1(("a" :> {1, 2, 3}) @@ ("b" :> {1}))
                  \o ClientQueryExplain(AGt0B1) \o CursorIs(Top, BasicCursor),
                  AGt0B1, "indexOnly", ParsedQuery, FALSE, Racer,
                  <<Expect("ok", TRUE), Expect("index", "a")>>
                  \o RawAdvance
                  \o While("ret", TRUE, <<Expect("index", "a")>> \o RawAdvance))

RecordedPlanTests == <<RequireIndex_RecordedUnindexedPlan>>

-----------------------------------------------------------------------------
(* The tests of namespace Explain, as class All adds them (lines 4075 to
   4091). *)

ExplainTests ==
    <<Explain_ClearRecordedIndex, Explain_Initial, Explain_Empty, Explain_SimpleCount,
      Explain_IterateOnly, Explain_ExtraMatchChecks, Explain_PartialIteration,
      Explain_Multikey, Explain_MultikeyInitial, Explain_BecomesMultikey,
      Explain_CountAndYield, Explain_MultipleClauses, Explain_MultiCursorTakeover,
      Explain_NChunkSkipsTakeover, Explain_CoveredIndex, Explain_CoveredIndexTakeover,
      Explain_VirtualPickedPlan>>

=============================================================================
