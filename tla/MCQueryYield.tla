---------------------------- MODULE MCQueryYield ----------------------------
(***************************************************************************)
(* QueryYield for TLC: collections of three documents with indexes on a    *)
(* and b, one of them with an array (a multikey index), one capped and     *)
(* full; takeover after two matches.                                       *)
(***************************************************************************)
EXTENDS QueryYield, TLC

AB(a, b)  == ("a" :> {a}) @@ ("b" :> {b})
AsB(as, b) == ("a" :> as) @@ ("b" :> {b})
On(f, cons) == f :> <<cons>>

RECURSIVE Filled(_, _)
Filled(coll, docs) ==
    IF docs = <<>> THEN coll ELSE Filled(Insert(coll, Head(docs)), Tail(docs))

Indexed(coll) == EnsureIndex(EnsureIndex(coll, "a"), "b")

Plain    == Indexed(Filled(NoCollection, <<AB(1, 2), AB(2, 1), AB(1, 1)>>))
Multikey == Indexed(Filled(NoCollection, <<AsB({1, 2}, 1), AB(2, 2), AB(1, 1)>>))
Capped3  == Filled(EnsureIndex(CreateCapped(NoCollection, 3), "a"),
                   <<AB(1, 1), AB(1, 2), AB(2, 1)>>)

SomeCollections == {Plain, Multikey, Capped3}

SomeQueries ==
    {<<On("a", Gte(1)) @@ On("b", Gte(1))>>,       \* two indexes and the table scan race
     <<On("a", Eq(1)), On("b", Eq(1))>>,           \* $or, one plan for each clause
     <<On("a", Gte(1)) @@ On("b", Eq(1)), On("b", Eq(2))>>,
     <<<<>>>>}                                     \* everything, by table scan

SomeOrders   == {NoOrder, "a"}

SomeNewDocs  == {AB(1, 1)}
SomeRemovals == {On("a", Eq(1)), On("b", Eq(1))}
SomeUpdates  == {<<On("a", Eq(1)), "a", 3>>}
SomeFields   == {"a", "b"}

=============================================================================
