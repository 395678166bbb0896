----------------------------- MODULE QueryData -----------------------------
(***************************************************************************)
(* The data the query optimizer cursor works on: documents, predicates,    *)
(* index entries and the collection with its indexes and its plan cache.   *)
(*                                                                         *)
(* A document is a function from field names to SETS of integers: a scalar *)
(* field is a singleton, an array field has one element per array member   *)
(* (which is what makes an index multikey).  A record location (DiskLoc)   *)
(* is a natural number handed out in increasing order, so that the natural *)
(* order of a collection is the order of its locations.                    *)
(*                                                                         *)
(* A predicate clause is a function from field names to sequences of       *)
(* constraints, all of which must hold; a constraint is a set of closed     *)
(* integer intervals <<lo, hi>>, at least one of which must contain a key  *)
(* of the document.  A query is a sequence of clauses: the members of its  *)
(* $or, or the single clause of a plain query.                             *)
(***************************************************************************)
EXTENDS Integers, Sequences, FiniteSets

CONSTANTS
    MinKey,         \* least value a predicate can name
    MaxKey,         \* greatest value a predicate can name
    CacheWrites     \* writes to a namespace after which its recorded plans are dropped

NullKey == MinKey - 1       \* index key of a document without the field
AString == MaxKey + 1       \* a string, which sorts after every number
BoolTrue == MaxKey + 2      \* the boolean true, which sorts after every string
Natural == "$natural"       \* the table scan, as a plan and as a sort
NoOrder == "none"           \* no sort requested
End     == <<>>             \* position of a cursor that ran off its range

-----------------------------------------------------------------------------
(* Constraints: the sets of keys the comparison operators admit. *)

Eq(v)         == {<<v, v>>}
Gt(v)         == {<<v + 1, MaxKey>>}
Gte(v)        == {<<v, MaxKey>>}
Lt(v)         == {<<MinKey, v - 1>>}
Lte(v)        == {<<MinKey, v>>}
Ne(v)         == {<<NullKey, v - 1>>, <<v + 1, BoolTrue>>}
AnyOf(vs)     == {<<v, v>> : v \in vs}
Universal     == {<<NullKey, BoolTrue>>}

In(k, cons) == \E I \in cons : I[1] <= k /\ k <= I[2]

(* A comparison with a number admits numbers only; an equality is exact when
   the value is not a number, for numbers of several types compare equal. *)
IsNumber(v) == v \in MinKey..MaxKey

Exact(cons) == \E I \in cons : cons = {I} /\ I[1] = I[2] /\ ~IsNumber(I[1])

(* Shape of a constraint, the part of it a query pattern remembers. *)
Shape(cons) ==
    IF \A I \in cons : I[1] = I[2] THEN "equality"
    ELSE IF \A I \in cons : I[2] = MaxKey THEN "lower"
    ELSE IF \A I \in cons : I[1] = MinKey THEN "upper"
    ELSE "both"

-----------------------------------------------------------------------------
(* Documents. *)

Keys(doc, f) == IF f \in DOMAIN doc THEN doc[f] ELSE {NullKey}

(* The matcher: every constraint of every field is met by some key. *)
MatchesClause(doc, clause) ==
    \A f \in DOMAIN clause : \A i \in DOMAIN clause[f] :
        \E k \in Keys(doc, f) : In(k, clause[f][i])

(* An index entry is <<key, location>>; entries are ordered by key and then
   by location. *)
Less(e, g) == e[1] < g[1] \/ (e[1] = g[1] /\ e[2] < g[2])

Least(S) == IF S = {} THEN End ELSE CHOOSE e \in S : \A g \in S : ~Less(g, e)

-----------------------------------------------------------------------------
(* The collection.  `exists' is false until the first insert or index build
   creates the namespace; `cap' is the number of documents a capped
   collection holds, 0 for an ordinary one; `cache' maps a query pattern to
   the plan recorded for it; `epoch' changes whenever the cursors of the
   namespace are invalidated. *)

NoCollection ==
    [exists |-> FALSE, docs |-> <<>>, nextLoc |-> 1, indexes |-> <<>>,
     multikey |-> {}, cap |-> 0, cache |-> <<>>, writes |-> 0, epoch |-> 0]

IndexFields(db) == {db.indexes[i] : i \in DOMAIN db.indexes}

Created(db) ==
    IF db.exists THEN db
    ELSE [db EXCEPT !.exists = TRUE, !.indexes = <<"_id">>]

CreateCapped(db, n) ==
    [db EXCEPT !.exists = TRUE, !.cap = n, !.indexes = <<>>]

(* Every write counts against the recorded plans of the namespace. *)
NoteWrite(db) ==
    IF db.writes + 1 >= CacheWrites
    THEN [db EXCEPT !.writes = 0, !.cache = <<>>]
    ELSE [db EXCEPT !.writes = @ + 1]

Oldest(db) == CHOOSE l \in DOMAIN db.docs : \A m \in DOMAIN db.docs : l <= m

(* insert: a new location at the end of the natural order; a full capped
   collection gives up its oldest record; an array makes its indexes
   multikey. *)
Insert(db0, doc) ==
    LET db   == Created(db0)
        kept == IF db.cap > 0 /\ Cardinality(DOMAIN db.docs) >= db.cap
                THEN DOMAIN db.docs \ {Oldest(db)}
                ELSE DOMAIN db.docs
        locs == kept \cup {db.nextLoc}
    IN  NoteWrite([db EXCEPT
            !.docs = [l \in locs |-> IF l = db.nextLoc THEN doc ELSE db.docs[l]],
            !.nextLoc = @ + 1,
            !.multikey = @ \cup {f \in IndexFields(db) : Cardinality(Keys(doc, f)) > 1}])

RemoveLocs(db, gone) ==
    [db EXCEPT !.docs = [l \in DOMAIN db.docs \ gone |-> db.docs[l]]]

(* remove: every document matching the clause. *)
Remove(db, clause) ==
    NoteWrite(RemoveLocs(db, {l \in DOMAIN db.docs : MatchesClause(db.docs[l], clause)}))

(* update with $set of one scalar field, in place. *)
Update(db, clause, f, v) ==
    NoteWrite([db EXCEPT !.docs =
        [l \in DOMAIN db.docs |->
            IF MatchesClause(db.docs[l], clause)
            THEN [g \in DOMAIN db.docs[l] \cup {f} |-> IF g = f THEN {v} ELSE db.docs[l][g]]
            ELSE db.docs[l]]])

(* ensureIndex: a new index at the end of the index list; the recorded
   plans of the namespace are dropped. *)
EnsureIndex(db0, f) ==
    LET db == Created(db0) IN
    IF f \in IndexFields(db) THEN db
    ELSE [db EXCEPT
            !.indexes = Append(@, f),
            !.multikey = @ \cup
                IF \E l \in DOMAIN db.docs : Cardinality(Keys(db.docs[l], f)) > 1
                THEN {f} ELSE {},
            !.cache = <<>>, !.writes = 0]

(* dropIndex: the index goes, and so do the recorded plans and every cursor
   of the namespace. *)
DropIndex(db, f) ==
    [db EXCEPT
        !.indexes = SelectSeq(@, LAMBDA g : g # f),
        !.multikey = @ \ {f},
        !.cache = <<>>, !.writes = 0, !.epoch = @ + 1]

(* drop: the namespace goes, with its cursors. *)
DropCollection(db) ==
    [NoCollection EXCEPT !.nextLoc = db.nextLoc, !.epoch = db.epoch + 1]

(* ClientCursor::invalidate( ns ) and the idle timeout: the cursors of the
   namespace go, the data stays. *)
InvalidateCursors(db) == [db EXCEPT !.epoch = @ + 1]

=============================================================================
