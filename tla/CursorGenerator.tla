-------------------------- MODULE CursorGenerator --------------------------
(***************************************************************************)
(* NamespaceDetailsTransient::getCursor: the cursor a query gets.  The     *)
(* generator hands out the cursor of one plan where one plan is certain to *)
(* be right, and the racer of module QueryOptimizerCursor otherwise.       *)
(*                                                                         *)
(* A cursor of one plan is the racer's record after takeover, with the     *)
(* class of the cursor in `class': it scans its index and nothing else.    *)
(***************************************************************************)
EXTENDS QueryOptimizerCursor

(* The parts of a ParsedQuery the generator reads.  `range' is the index a
   $min or $max names; the keys they start and end the scan at are left
   out.  `fields' are the fields of the projection. *)
NoParsedQuery ==
    [parsed |-> FALSE, hint |-> NoHint, snapshot |-> FALSE, range |-> NoHint,
     explain |-> FALSE, fields |-> {}]

ParsedQuery == [NoParsedQuery EXCEPT !.parsed = TRUE]

Policies == {"any", "indexOnly", "idElseNatural"}

-----------------------------------------------------------------------------
(* The hint. *)

(* setArgumentsHint: the hint of the query; a $snapshot query is hinted to
   the _id index when the collection has one. *)
ArgumentsHint(db, pq) ==
    IF pq.hint # NoHint THEN pq.hint
    ELSE IF pq.snapshot /\ "_id" \in IndexFields(db) THEN "_id"
    ELSE NoHint

(* QueryPlanSelectionPolicy::planHint *)
PlanHint(db, policy) ==
    IF policy # "idElseNatural" THEN NoHint
    ELSE IF "_id" \in IndexFields(db) THEN "_id" ELSE Natural

(* CursorGenerator::hint: the hint of the query before that of the policy;
   a $min or $max fixes the index. *)
Hint(db, policy, pq) ==
    IF pq.range # NoHint THEN pq.range
    ELSE IF ArgumentsHint(db, pq) # NoHint THEN ArgumentsHint(db, pq)
    ELSE PlanHint(db, policy)

-----------------------------------------------------------------------------
(* Cursors of one plan. *)

(* The cursor of plan f, on the first entry of its range. *)
SinglePlan(db, c, f, class, matcher) ==
    World(db, [c EXCEPT !.class = class, !.matcher = matcher, !.taken = TRUE,
                        !.tk = [idx |-> f, pos |-> First(db, c, f),
                                nscanned |-> IF First(db, c, f) = End THEN 0 ELSE 1]])

(* The class of the cursor that scans f; DataFileMgr::findAll for a table
   scan. *)
Class(db, f) == CursorName(db, f)[1]

(* isSimpleIdQuery: an equality on _id and nothing else. *)
IsSimpleIdQuery(q) ==
    /\ Len(q) = 1 /\ DOMAIN q[1] = {"_id"} /\ Len(q[1]["_id"]) = 1
    /\ \E I \in q[1]["_id"][1] : q[1]["_id"][1] = {I} /\ I[1] = I[2]

MayShortcutQueryOptimizer(db, pq) ==
    pq.range = NoHint /\ pq.fields = {} /\ ArgumentsHint(db, pq) = NoHint

(* shortcutCursor: which cursor is right without a look at the plans. *)
OptimalNatural(db, q, order, policy, pq) ==
    /\ MayShortcutQueryOptimizer(db, pq)
    /\ policy # "indexOnly" /\ q = << <<>> >> /\ order = NoOrder

OptimalId(db, q, order, policy, pq) ==
    /\ MayShortcutQueryOptimizer(db, pq)
    /\ IsSimpleIdQuery(q) /\ "_id" \in IndexFields(db)

(* QueryPlan::exactKeyMatch: the index key says whether a document matches. *)
ExactKeyMatch(c, f) ==
    /\ DOMAIN c.q[1] = {f} /\ c.filter = <<>>
    /\ Len(c.q[1][f]) = 1 /\ Exact(c.q[1][f][1])

(* MultiPlanScanner::singlePlan: one plan, and no other that a recorded
   plan or the policy may hide. *)
HasSinglePlan(db, c) ==
    /\ Len(c.q) = 1
    /\ Len(Plans(db, c, c.q[1])) = 1
    /\ ~Recorded(db, c, c.q[1])
    /\ Len(AllPlans(db, c, c.q[1])) = Len(CandidatePlans(db, c, c.q[1]))

(* singlePlanCursor: the only plan, unless the caller needs the order and
   the plan does not give it. *)
MaySinglePlanCursor(db, c) ==
    /\ HasSinglePlan(db, c)
    /\ c.requireOrder => InOrder(c, Plans(db, c, c.q[1])[1])

SinglePlanCursor(db, c) ==
    LET f == Plans(db, c, c.q[1])[1] IN
    SinglePlan(db, c, f, Class(db, f), c.q # << <<>> >> \/ c.filter # <<>>)

(* setMultiPlanScanner: the scanner of the query, with the projection of
   the parsed query.  The order is required of the cursor when there is no
   parsed query to sort its results. *)
MultiPlanScanner(db, q, order, policy, pq) ==
    [Scanner(db, q, order, ~pq.parsed, Hint(db, policy, pq), policy, pq.explain)
        EXCEPT !.fields = pq.fields]

(* What getCursor stores in *simpleEqualityMatch. *)
SimpleEqualityMatch(db, q, order, policy, pq) ==
    LET c == MultiPlanScanner(db, q, order, policy, pq)
    IN  /\ ~OptimalNatural(db, q, order, policy, pq)
        /\ ~OptimalId(db, q, order, policy, pq)
        /\ MaySinglePlanCursor(db, c)
        /\ ExactKeyMatch(c, Plans(db, c, c.q[1])[1])

(* CursorGenerator::generate *)
Generate(db, q, order, policy, pq) ==
    LET c == MultiPlanScanner(db, q, order, policy, pq)
    IN  IF OptimalNatural(db, q, order, policy, pq)
            THEN SinglePlan(db, c, Natural, Class(db, Natural), FALSE)
        ELSE IF OptimalId(db, q, order, policy, pq)
            THEN SinglePlan(db, c, "_id", Class(db, "_id"), FALSE)
        ELSE IF MaySinglePlanCursor(db, c) THEN SinglePlanCursor(db, c)
        ELSE Race(db, c)

(* Cursor::toString, as far as the tests read it. *)
Type(c) == IF c.class = "BtreeCursor" THEN <<c.class, c.tk.idx>> ELSE <<c.class>>

=============================================================================
