------------------------ MODULE QueryOptimizerCursor ------------------------
(***************************************************************************)
(* The multi-plan racer: one cursor in front of one child cursor per       *)
(* candidate plan.  The children take turns; the client checks every       *)
(* document it is shown against the matcher and the set of locations it    *)
(* has already returned; the first child to finish its scan ends the       *)
(* clause, and a child that leaves MatchTakeover matches behind takes the  *)
(* rest of the query over.  The clauses of a $or are scanned one after the *)
(* other, each with its own race.                                          *)
(*                                                                         *)
(* The implementation of the racer is not part of this repository: the     *)
(* operators below are written from its specification and are held to the  *)
(* behaviour the test classes of queryoptimizercursortests.cpp pin down,   *)
(* which module QueryOptimizerCursorTests replays against them.            *)
(*                                                                         *)
(* Every operation is an operator from a world [db, c], the collection and *)
(* the cursor, to the world after it.                                      *)
(***************************************************************************)
EXTENDS QueryData, Explain

LOCAL SeqX == INSTANCE SequencesExt

CONSTANTS
    MatchTakeover,  \* matches one plan leaves behind before it takes over
    AddPlansFactor, \* a recorded plan may scan this many times what it did
                    \* when it was recorded before the other plans join
    DupSetUpgrade   \* entries the small array of a dup set holds

-----------------------------------------------------------------------------
(* SmallDupSet: an array that becomes a set when it overflows. *)

EmptyDupSet == [vec |-> <<>>, set |-> {}, upgraded |-> FALSE]

DupSetUpgraded(d) ==
    [vec |-> <<>>, set |-> {d.vec[i] : i \in DOMAIN d.vec}, upgraded |-> TRUE]

GetDup(d, loc) ==
    IF d.upgraded THEN loc \in d.set ELSE \E i \in DOMAIN d.vec : d.vec[i] = loc

SetDup(d, loc) ==
    LET e == IF ~d.upgraded /\ Len(d.vec) >= DupSetUpgrade THEN DupSetUpgraded(d) ELSE d
    IN  IF GetDup(e, loc) THEN e
        ELSE IF e.upgraded THEN [e EXCEPT !.set = @ \cup {loc}]
        ELSE [e EXCEPT !.vec = Append(@, loc)]

-----------------------------------------------------------------------------
(* CachedMatchCounter: the matches one plan has seen, on top of those of
   the clauses before; `known' says whether the match of the current
   document has been looked at, `counted' whether it has been counted. *)

MatchCounter(cumulative) ==
    [count |-> 0, base |-> cumulative, known |-> FALSE, match |-> FALSE,
     counted |-> FALSE, checkDups |-> FALSE, seen |-> {}, nscanned |-> 0]

ResetMatch(m) == [m EXCEPT !.known = FALSE, !.counted = FALSE]

SetMatch(m, match) == [m EXCEPT !.known = TRUE, !.match = match]

CountMatch(m, loc) ==
    IF m.counted \/ ~m.match THEN m
    ELSE [m EXCEPT !.counted = TRUE,
                   !.count = IF m.checkDups /\ loc \in m.seen THEN @ ELSE @ + 1,
                   !.seen = IF m.checkDups THEN @ \cup {loc} ELSE @]

(* wouldCountMatch: a new match that countMatch would count. *)
WouldCountMatch(m, loc) == ~m.counted /\ m.match /\ ~(m.checkDups /\ loc \in m.seen)

CumulativeCount(m) == m.base + m.count

(* updateNscanned: returns the counter and what the aggregate grows by. *)
UpdateNscanned(m, n) == [m EXCEPT !.nscanned = n]

-----------------------------------------------------------------------------
(* The cursor. *)

NoHint == "none"

NoCursor ==
    [has |-> FALSE, q |-> <<>>, order |-> NoOrder, clause |-> 1, npop |-> 0,
     popped |-> {}, ops |-> <<>>, queue |-> <<>>, cur |-> 0, cum |-> 0,
     dups |-> EmptyDupSet, taken |-> FALSE,
     tk |-> [idx |-> Natural, pos |-> End, nscanned |-> 0],
     requireOrder |-> TRUE, hint |-> NoHint, fields |-> {}, scanAndOrder |-> FALSE,
     tkdups |-> {}, done |-> TRUE, threw |-> FALSE, killed |-> FALSE,
     yielded |-> FALSE, epoch |-> 0, cached |-> FALSE, oldNscanned |-> 0,
     class |-> "none", policy |-> "any", matcher |-> FALSE, filter |-> <<>>,
     explain |-> FALSE, ex |-> <<>>, scanned |-> 0]

IsOr(c) == Len(c.q) > 1

(* Index bounds.  A single-key index is bounded by all constraints of its
   field, a multikey index by the first only; the ranges the earlier
   clauses of a $or scanned on the field are cut out. *)
KeyIn(db, f, k, cons) ==
    IF f \in db.multikey THEN In(k, cons[1]) ELSE \A i \in DOMAIN cons : In(k, cons[i])

Scanned(db, c, f, k) == \E P \in c.popped : P[1] = f /\ KeyIn(db, f, k, P[2])

InBounds(db, c, j, f, k) ==
    f \in DOMAIN c.q[j] => KeyIn(db, f, k, c.q[j][f]) /\ ~Scanned(db, c, f, k)

Entries(db, c, f) ==
    IF f = Natural THEN {<<0, l>> : l \in DOMAIN db.docs}
    ELSE UNION {{<<k, l>> : k \in {x \in Keys(db.docs[l], f) : InBounds(db, c, c.clause, f, x)}} :
                    l \in DOMAIN db.docs}

First(db, c, f) == Least(Entries(db, c, f))

After(db, c, f, p) == Least({e \in Entries(db, c, f) : Less(p, e)})

AtOrAfter(db, c, f, p) == Least({e \in Entries(db, c, f) : ~Less(e, p)})

(* The matcher of a $or accepts what any clause not yet finished accepts,
   except the documents an index scan of a finished clause has been over. *)
Matcher(db, c, doc) ==
    /\ \E j \in (c.npop + 1)..Len(c.q) : MatchesClause(doc, c.q[j])
    /\ c.filter # <<>> => \E j \in DOMAIN c.filter : MatchesClause(doc, c.filter[j])
    /\ \A P \in c.popped : \A k \in Keys(doc, P[1]) : ~KeyIn(db, P[1], k, P[2])

-----------------------------------------------------------------------------
(* The plan generator. *)

InOrder(c, f) == c.order \in {NoOrder, f}

Optimal(c, clause, f) == InOrder(c, f) /\ DOMAIN clause \subseteq {f}

Useful(c, clause, f) == f \in DOMAIN clause \/ c.order = f

Pattern(c, clause) ==
    <<[f \in DOMAIN clause |->
            IF Len(clause[f]) > 1 THEN "both" ELSE Shape(clause[f][1])], c.order>>

(* Faulty variant: a plan that does not give the order is a candidate for
   a caller that cannot sort. *)
AdmittedInAnyOrder(c, f) == TRUE

(* A plan that needs a scan and order step is a candidate only for a
   caller that can sort. *)
Admitted(c, f) == InOrder(c, f) \/ ~c.requireOrder

(* QueryPlanSelectionPolicy::permitPlan: what the caller lets a plan scan. *)
Permitted(c, f) ==
    CASE c.policy = "any"           -> TRUE
      [] c.policy = "indexOnly"     -> f # Natural
      [] c.policy = "idElseNatural" -> f \in {Natural, "_id"}

(* All candidate plans, in index order with the table scan last: the
   hinted plan or the first optimal plan alone when there is one. *)
CandidatePlans(db, c, clause) ==
    LET useful  == SelectSeq(db.indexes, LAMBDA f : Useful(c, clause, f) /\ Admitted(c, f))
        optimal == SelectSeq(useful, LAMBDA f : Optimal(c, clause, f))
    IN  IF c.hint # NoHint THEN <<c.hint>>
        ELSE IF (DOMAIN clause = {} /\ c.order = NoOrder) \/ c.order = Natural THEN <<Natural>>
        ELSE IF optimal # <<>> THEN <<optimal[1]>>
        ELSE useful \o (IF Admitted(c, Natural) THEN <<Natural>> ELSE <<>>)

AllPlans(db, c, clause) ==
    SelectSeq(CandidatePlans(db, c, clause), LAMBDA f : Permitted(c, f))

(* CandidatePlans: whether a plan that gives the order, and one that does
   not, is among the candidates. *)
MayRunInOrderPlan(db, c) ==
    \E i \in DOMAIN AllPlans(db, c, c.q[c.clause]) : InOrder(c, AllPlans(db, c, c.q[c.clause])[i])

MayRunOutOfOrderPlan(db, c) ==
    \E i \in DOMAIN AllPlans(db, c, c.q[c.clause]) : ~InOrder(c, AllPlans(db, c, c.q[c.clause])[i])

Recorded(db, c, clause) ==
    /\ ~c.explain
    /\ Pattern(c, clause) \in DOMAIN db.cache
    /\ Len(AllPlans(db, c, clause)) > 1
    /\ \E i \in DOMAIN AllPlans(db, c, clause) :
            AllPlans(db, c, clause)[i] = db.cache[Pattern(c, clause)].idx

(* The plans a race starts with: the recorded plan alone when the pattern
   has one that is still a candidate. *)
Plans(db, c, clause) ==
    IF Recorded(db, c, clause) THEN <<db.cache[Pattern(c, clause)].idx>>
    ELSE AllPlans(db, c, clause)

(* registerSelf: the plan that won the race is recorded for the pattern,
   unless it was the only candidate. *)
RecordPlan(db, c, op) ==
    LET clause == c.q[c.clause]
        pat    == Pattern(c, clause)
    IN  IF Len(AllPlans(db, c, clause)) <= 1 THEN db
        ELSE [db EXCEPT !.cache =
                [p \in DOMAIN db.cache \cup {pat} |->
                    IF p = pat THEN [idx |-> op.idx, nscanned |-> op.mc.nscanned]
                    ELSE db.cache[p]]]

-----------------------------------------------------------------------------
(* One child of the race. *)

NewOp(db, c, f) ==
    LET p == First(db, c, f) IN
    [idx |-> f, pos |-> p, must |-> FALSE, err |-> FALSE,
     mc |-> [MatchCounter(c.cum) EXCEPT !.checkDups = f \in db.multikey,
                                        !.nscanned = IF p = End THEN 0 ELSE 1]]

(* Cursor::toString of the cursor that scans f. *)
CursorName(db, f) ==
    IF f # Natural THEN <<"BtreeCursor", f>>
    ELSE IF db.cap > 0 THEN <<"ForwardCappedCursor">> ELSE <<"BasicCursor">>

(* What the explain tree is told of the cursor of plan f when it has
   scanned n entries. *)
CursorInfo(db, c, f, n) ==
    [name |-> CursorName(db, f), nscanned |-> n, isMultiKey |-> f \in db.multikey,
     bounds |-> IF f = Natural THEN <<>>
                ELSE IF f \in DOMAIN c.q[c.clause] THEN c.q[c.clause][f] ELSE <<Universal>>]

OpCursor(db, c, op) == CursorInfo(db, c, op.idx, op.mc.nscanned)

(* keyFieldsOnly of a plan: its index holds every field of the projection. *)
Covers(c, f) == c.fields # {} /\ c.fields \subseteq {f}

(* generateExplainInfo: the plan is noted with its cursor as it starts. *)
PlanInfo(db, c, op) == NotePlan(OpCursor(db, c, op), ~InOrder(c, op.idx), Covers(c, op.idx))

(* The explain tree of a cursor that has one. *)
Explained(c, Note(_)) == IF c.explain THEN [c EXCEPT !.ex = Note(@)] ELSE c

(* The plan info of child i, a plan of the clause at work. *)
PlanNoted(c, i, Note(_)) ==
    Explained(c, LAMBDA ex : [ex EXCEPT ![Len(ex)].plans[i] = Note(@)])

(* CoveredIndexMatcher::matches: the record is loaded unless the key of a
   single key index decides the match. *)
LoadsRecord(db, c, f) ==
    f = Natural \/ f \in db.multikey \/ ~(DOMAIN c.q[c.clause] \subseteq {f}) \/ c.filter # <<>>

(* QueryOptimizerCursorOp::currentMatches: the match of the document child
   i stands on is cached, and noted against its plan when it is new. *)
OpMatches(db, c, i) ==
    LET op    == c.ops[i]
        match == Matcher(db, c, db.docs[op.pos[2]])
        mc    == SetMatch(op.mc, match)
        new   == match /\ ~(op.mc.known /\ op.mc.match) /\ WouldCountMatch(mc, op.pos[2])
    IN  PlanNoted([c EXCEPT !.ops[i].mc = mc], i,
                  LAMBDA p : NoteIterate(p, new, new \/ LoadsRecord(db, c, op.idx),
                                         OpCursor(db, c, op)))

(* mayAdvance: the document child i is leaving is counted if it matches,
   its match looked at if it has not been, then the child moves on. *)
MayAdvance(db, c, i) ==
    LET op == c.ops[i]
        c1 == IF op.mc.known THEN c ELSE OpMatches(db, c, i)
        p  == After(db, c, op.idx, op.pos)
    IN  IF ~op.must \/ op.pos = End THEN c
        ELSE [c1 EXCEPT !.ops[i].pos = p,
                        !.ops[i].mc = [ResetMatch(CountMatch(@, op.pos[2]))
                                        EXCEPT !.nscanned = IF p = End THEN @ ELSE @ + 1]]

-----------------------------------------------------------------------------
(* The race. *)

World(db, c) == [db |-> db, c |-> c]

(* Faulty variant: the children of the race are left behind when the cursor
   is over. *)
FinishedKeepingChildren(db, c) == World(db, [c EXCEPT !.done = TRUE, !.cur = 0])

(* What the children of the race have scanned between them. *)
OpsScanned(c) == SeqX!FoldLeft(LAMBDA n, op : n + op.mc.nscanned, 0, c.ops)

Finished(db, c) ==
    World(db, [c EXCEPT !.done = TRUE, !.cur = 0, !.ops = <<>>, !.queue = <<>>,
                        !.scanned = @ + OpsScanned(c)])

(* A clause of a $or is dropped when the scans of the clauses before it
   have covered its range on a field, or covered a whole index. *)
ClausePossible(db, c, j) ==
    \A P \in c.popped :
        /\ P[2] # <<Universal>>
        /\ P[1] \in DOMAIN c.q[j] => \E k \in MinKey..MaxKey : InBounds(db, c, j, P[1], k)

NextClause(db, c, from) ==
    LET S == {j \in from..Len(c.q) : ClausePossible(db, c, j)}
    IN  IF S = {} THEN 0 ELSE CHOOSE j \in S : \A i \in S : j <= i

(* What the scan of the current clause by plan f adds to the ranges that
   later clauses skip and the matcher rejects. *)
PoppedBy(c, f) ==
    c.popped \cup {<<f, IF f \in DOMAIN c.q[c.clause] THEN c.q[c.clause][f] ELSE <<Universal>>>>}

(* The other plans join a recorded plan that has scanned AddPlansFactor
   times what it had when it was recorded; the recorded plan keeps the next
   turn. *)
AddRemainingPlans(db, c, i) ==
    IF ~c.cached \/ c.ops[i].mc.nscanned <= c.oldNscanned * AddPlansFactor THEN c
    ELSE LET others == SelectSeq(AllPlans(db, c, c.q[c.clause]), LAMBDA f : f # c.ops[i].idx)
         IN  [c EXCEPT !.cached = FALSE,
                       !.ops = @ \o [n \in DOMAIN others |-> NewOp(db, c, others[n])],
                       !.queue = <<i>> \o [n \in DOMAIN others |-> Len(c.ops) + n]]

RECURSIVE StartClause(_, _, _), TakeoverNextClause(_, _), RunOp(_, _, _)

(* The cursor that has taken over, as the explain tree sees it, and its
   plan info among those of the clause at work. *)
TakeoverCursor(db, c) == CursorInfo(db, c, c.tk.idx, c.tk.nscanned)

TakeoverNoted(db, c, Note(_)) ==
    Explained(c, LAMBDA ex : [ex EXCEPT ![Len(ex)].plans =
        [i \in DOMAIN @ |-> IF @[i].cursorName = CursorName(db, c.tk.idx) THEN Note(@[i]) ELSE @[i]]])

(* The cursor that has taken over goes on from where it has arrived: at
   the end of the range of its clause the next clause is its to scan. *)
TakeoverArrived(db, c) ==
    IF c.tk.pos = End THEN TakeoverNextClause(db, c) ELSE World(db, c)

(* The scan of the current clause by plan f from position pos, the one
   plan of its clause in the explain tree. *)
TakeoverScan(db, c, f, pos) ==
    LET n == IF pos = End THEN 0 ELSE 1 IN
    [Explained(c, LAMBDA ex : Append(ex, NewClauseInfo(
            <<NotePlan(CursorInfo(db, c, f, n), ~InOrder(c, f), Covers(c, f))>>)))
        EXCEPT !.tk = [idx |-> f, pos |-> pos, nscanned |-> n]]

TakeoverFirst(db, c, f) == TakeoverArrived(db, TakeoverScan(db, c, f, First(db, c, f)))

(* The clause the cursor that has taken over has scanned is done. *)
TakeoverClauseDone(db, c) ==
    [TakeoverNoted(db, c, LAMBDA p : NoteDone(p, TakeoverCursor(db, c)))
        EXCEPT !.popped = PoppedBy(c, c.tk.idx), !.npop = @ + 1, !.tkdups = {},
               !.scanned = @ + c.tk.nscanned]

(* The cursor c, which is c1 when its clause is done, goes on to clause j,
   or stays at the end of its last clause when there is none. *)
TakeoverClause(db, c, c1, j) ==
    IF j = 0 THEN Finished(db, [c EXCEPT !.tk.pos = End])
    ELSE TakeoverFirst(db, [c1 EXCEPT !.clause = j], Plans(db, [c1 EXCEPT !.clause = j], c.q[j])[1])

TakeoverNext(db, c, c1) == TakeoverClause(db, c, c1, NextClause(db, c1, c.clause + 1))

(* MultiCursor::nextClause: after takeover every clause is scanned by its
   first plan. *)
TakeoverNextClause(db, c) ==
    IF c.tk.idx = Natural THEN Finished(db, [c EXCEPT !.tk.pos = End])
    ELSE TakeoverNext(db, c, TakeoverClauseDone(db, c))

TakeoverAdvance(db, c) ==
    LET p == After(db, c, c.tk.idx, c.tk.pos) IN
    IF p = End THEN TakeoverNextClause(db, c)
    ELSE World(db, [c EXCEPT !.tk.pos = p, !.tk.nscanned = @ + 1])

(* The plan of child i has left MatchTakeover matches behind: it is
   recorded and scans the rest alone. *)
Takeover(db, c, i) ==
    LET c1 == [c EXCEPT !.taken = TRUE,
                        !.tk = [idx |-> c.ops[i].idx, pos |-> c.ops[i].pos,
                                nscanned |-> c.ops[i].mc.nscanned],
                        !.scanned = @ + OpsScanned(c) - c.ops[i].mc.nscanned,
                        !.cum = CumulativeCount(c.ops[i].mc),
                        !.ops = <<>>, !.queue = <<>>, !.cur = 0]
    IN  IF c.ops[i].pos = End THEN TakeoverNextClause(RecordPlan(db, c, c.ops[i]), c1)
        ELSE World(RecordPlan(db, c, c.ops[i]), c1)

(* Child i has finished its scan, and with it the clause: its plan is
   recorded, a table scan ends the whole $or, an index scan hands over to
   the next clause that is still possible. *)
EndClause(db, c, i) ==
    LET op == c.ops[i]
        c1 == [c EXCEPT !.popped = PoppedBy(c, op.idx), !.npop = @ + 1,
                        !.cum = CumulativeCount(op.mc),
                        !.scanned = @ + OpsScanned(c), !.ops = <<>>, !.queue = <<>>]
        so == MayRunInOrderPlan(db, c) /\ ~InOrder(c, op.idx)
    IN  IF op.idx = Natural THEN Finished(RecordPlan(db, c, op), [c EXCEPT !.scanAndOrder = so])
        ELSE StartClause(RecordPlan(db, c, op), [c1 EXCEPT !.scanAndOrder = so],
                         NextClause(db, c1, c.clause + 1))

(* A plan takes over when it has left MatchTakeover matches behind; one
   that does not give the order only when no candidate gives it. *)
MayTakeOver(db, c, op) ==
    /\ CumulativeCount(op.mc) >= MatchTakeover
    /\ InOrder(c, op.idx) \/ ~MayRunInOrderPlan(db, c)

(* QueryOptimizerCursorOp::next for child i, and what the racer makes of
   its outcome c1. *)
Ran(db, c, i, c1) ==
    IF c.ops[i].must /\ MayTakeOver(db, c, c1.ops[i])
        THEN Takeover(db, PlanNoted(c1, i, NotePicked), i)
    ELSE IF c1.ops[i].pos = End
        THEN EndClause(db, PlanNoted(c1, i, LAMBDA p : NoteDone(p, OpCursor(db, c, c1.ops[i]))), i)
    ELSE World(db, AddRemainingPlans(db,
            [c1 EXCEPT !.ops[i].must = TRUE, !.cur = i,
                       !.queue = Append(SelectSeq(@, LAMBDA n : n # i), i)], i))

RunOp(db, c, i) == Ran(db, c, i, MayAdvance(db, c, i))

(* The children of the race of the current clause. *)
Racing(db, c, ops) ==
    [Explained(c, LAMBDA ex : Append(ex, NewClauseInfo(
            [n \in DOMAIN ops |-> PlanInfo(db, c, ops[n])])))
        EXCEPT !.ops = ops, !.queue = [n \in DOMAIN ops |-> n],
               !.cached = Recorded(db, c, c.q[c.clause]),
               !.oldNscanned = IF Recorded(db, c, c.q[c.clause])
                               THEN db.cache[Pattern(c, c.q[c.clause])].nscanned ELSE 0]

Started(db, c, plans) ==
    IF plans = <<>> THEN Finished(db, [c EXCEPT !.threw = TRUE])
    ELSE RunOp(db, Racing(db, c, [n \in DOMAIN plans |-> NewOp(db, c, plans[n])]), 1)

(* The race of clause j starts: one child per plan, each on the first
   entry of its range, and the first child has its first turn. *)
StartClause(db, c, j) ==
    IF j = 0 THEN Finished(db, c)
    ELSE Started(db, [c EXCEPT !.clause = j], Plans(db, [c EXCEPT !.clause = j], c.q[j]))

-----------------------------------------------------------------------------
(* The cursor as its client sees it. *)

(* ok: the child whose turn it was stands on a document. *)
Ok(c) ==
    /\ c.has /\ ~c.done
    /\ IF c.taken THEN c.tk.pos # End ELSE c.cur # 0 /\ c.ops[c.cur].pos # End

CurrPos(c) == IF c.taken THEN c.tk.pos ELSE c.ops[c.cur].pos

CurrLoc(c) == CurrPos(c)[2]

CurrIdx(c) == IF c.taken THEN c.tk.idx ELSE c.ops[c.cur].idx

Current(db, c) == db.docs[CurrLoc(c)]

CurrentMatches(db, c) == c.matcher => Matcher(db, c, Current(db, c))

(* nscanned: what all children have scanned between them. *)
NScanned(c) == c.scanned + IF c.taken THEN c.tk.nscanned ELSE OpsScanned(c)

(* currentMatches, as far as it changes the cursor: during the race the
   child whose turn it was caches the match. *)
NoteMatch(db, c) == IF Ok(c) /\ ~c.taken THEN OpMatches(db, c, c.cur) ELSE c

(* noteIterate: the client has decided about the current document.  The
   clause at work counts it, and so does the plan that has taken over. *)
NoteIterateCall(db, c, match, loadedRecord, chunkSkip) ==
    LET c1 == Explained(c, LAMBDA ex : QueryNoteIterate(ex, match, loadedRecord, chunkSkip))
    IN  IF ~c.taken THEN c1
        ELSE TakeoverNoted(db, c1, LAMBDA p : NoteIterate(p, match, loadedRecord,
                                                          TakeoverCursor(db, c)))

(* MultiPlanScanner::haveUselessOr: some clause has no field in the hinted
   index, or in any index when there is no hint. *)
UselessOr(db, q, hint) ==
    \/ ~db.exists
    \/ \E j \in DOMAIN q :
            IF hint # NoHint THEN hint \notin DOMAIN q[j]
            ELSE DOMAIN q[j] \cap IndexFields(db) = {}

(* MultiPlanScanner::init: the clauses of a $or are scanned one after the
   other unless an order is requested or a clause would need a table scan. *)
RunAsOr(db, q, order, hint) == Len(q) > 1 /\ order = NoOrder /\ ~UselessOr(db, q, hint)

(* MultiPlanScanner::make: the query as the plans see it.  A $or that is
   not run by clauses is one unconstrained clause, and the matcher keeps the
   disjunction. *)
Scanner(db, q, order, requireOrder, hint, policy, explain) ==
    LET or == Len(q) = 1 \/ RunAsOr(db, q, order, hint) IN
    [NoCursor EXCEPT !.has = TRUE, !.done = FALSE, !.clause = 1,
                     !.q = IF or THEN q ELSE << <<>> >>, !.filter = IF or THEN <<>> ELSE q,
                     !.order = order, !.requireOrder = requireOrder, !.hint = hint,
                     !.policy = policy, !.explain = explain,
                     !.class = "QueryOptimizerCursor", !.matcher = TRUE]

(* newQueryOptimizerCursor: no cursor at all when no plan gives the
   requested order, an exception when the policy excludes every plan. *)
Race(db, c) ==
    IF CandidatePlans(db, c, c.q[1]) = <<>> THEN World(db, NoCursor)
    ELSE IF AllPlans(db, c, c.q[1]) = <<>> THEN World(db, [NoCursor EXCEPT !.threw = TRUE])
    ELSE StartClause(db, c, 1)

NewCursor(db, q, order, requireOrder, hint) ==
    Race(db, Scanner(db, q, order, requireOrder, hint, "any", FALSE))

(* advance: nothing when the cursor is not ok; an interrupted operation
   raises once and is over; otherwise the next child has its turn. *)
Advance(db, c) ==
    IF ~Ok(c) THEN World(db, c)
    ELSE IF c.killed THEN Finished(db, [c EXCEPT !.threw = TRUE])
    ELSE IF c.taken THEN TakeoverAdvance(db, c)
    ELSE RunOp(db, c, Head(c.queue))

(* getsetdup of the current location.  After takeover the locations
   returned during the race still count, and the takeover cursor keeps its
   own set when its index is multikey. *)
IsDup(db, c) ==
    \/ GetDup(c.dups, CurrLoc(c))
    \/ c.taken /\ c.tk.idx \in db.multikey /\ CurrLoc(c) \in c.tkdups

NoteDup(db, c) ==
    IF ~c.taken THEN [c EXCEPT !.dups = SetDup(@, CurrLoc(c))]
    ELSE IF GetDup(c.dups, CurrLoc(c)) \/ c.tk.idx \notin db.multikey THEN c
    ELSE [c EXCEPT !.tkdups = @ \cup {CurrLoc(c)}]

(* Faulty variant: the interrupt is not noted. *)
KillIgnored(c) == c

Kill(c) == [c EXCEPT !.killed = TRUE]

(* keyFieldsOnly: the index of the current plan holds every field of the
   projection. *)
KeyFieldsOnly(c) == Covers(c, CurrIdx(c))

(* The cursor during the race. *)
RunningInitialInOrderPlan(c) ==
    ~c.taken /\ \E i \in DOMAIN c.ops : ~c.ops[i].err /\ InOrder(c, c.ops[i].idx)

RunningInitialCachedPlan(c) == ~c.taken /\ c.cached

CurrentPlanScanAndOrderRequired(c) == ~InOrder(c, CurrIdx(c))

(* Faulty variant: the out of order plans are marked and stay in the queue. *)
AbortedLeftInQueue(c) ==
    [c EXCEPT !.ops = [i \in DOMAIN c.ops |->
                        [c.ops[i] EXCEPT !.err = @ \/ ~InOrder(c, c.ops[i].idx)]]]

(* abortOutOfOrderPlans: the children that do not give the order leave the
   race. *)
WithoutOutOfOrderPlans(c) ==
    LET ops == [i \in DOMAIN c.ops |->
                    [c.ops[i] EXCEPT !.err = @ \/ ~InOrder(c, c.ops[i].idx)]]
    IN  [c EXCEPT !.ops = ops, !.queue = SelectSeq(@, LAMBDA i : ~ops[i].err)]

(* clearIndexesForPatterns: the plan recorded for the pattern of the query
   is forgotten. *)
ClearRecordedPlan(db, c) ==
    [db EXCEPT !.cache = [p \in DOMAIN @ \ {Pattern(c, c.q[1])} |-> @[p]]]

(* QueryPlanSet::nPlans for a query and an order, any plan admitted. *)
NPlans(db, q, order) ==
    Len(Plans(db, [NoCursor EXCEPT !.q = q, !.order = order, !.requireOrder = FALSE], q[1]))

-----------------------------------------------------------------------------
(* Yielding.  While the cursor is yielded the collection changes under it;
   on recovery every child finds the first entry at or after the one it
   stood on.  A child whose cursor was invalidated, or whose record a
   capped collection has overwritten under a table scan, is lost. *)

PrepareToYield(db, c) == [c EXCEPT !.yielded = TRUE, !.epoch = db.epoch]

(* Faulty variant: a table scan does not look whether its record of a capped
   collection is still there. *)
LostByEpochOnly(db, c, f, pos) == c.epoch # db.epoch

(* The ClientCursor of a child is gone with the cursors of the namespace,
   wherever the child stands, at its end too. *)
Lost(db, c, f, pos) ==
    \/ c.epoch # db.epoch
    \/ pos # End /\ db.cap > 0 /\ f = Natural /\ pos[2] \notin DOMAIN db.docs

(* Faulty variant: a child whose document is still there stays on its entry,
   though an update may have moved the key. *)
RecoveredOpInPlace(db, c, op) ==
    LET p == AtOrAfter(db, c, op.idx, op.pos) IN
    IF Lost(db, c, op.idx, op.pos)
         THEN [op EXCEPT !.pos = End, !.must = FALSE, !.err = IsOr(c) \/ db.cap > 0]
    ELSE IF op.pos = End THEN op
    ELSE IF op.pos[2] \in DOMAIN db.docs THEN op
    ELSE [op EXCEPT !.pos = p, !.must = FALSE, !.mc = ResetMatch(@)]

(* Faulty variant: a child whose document is gone goes on from the entry
   after the one it comes back on. *)
RecoveredOpSkipping(db, c, op) ==
    LET p == AtOrAfter(db, c, op.idx, op.pos) IN
    IF Lost(db, c, op.idx, op.pos)
         THEN [op EXCEPT !.pos = End, !.must = FALSE, !.err = IsOr(c) \/ db.cap > 0]
    ELSE IF op.pos = End THEN op
    ELSE IF p # End /\ p[2] = op.pos[2] THEN [op EXCEPT !.pos = p]
    ELSE [op EXCEPT !.pos = IF p = End THEN End ELSE After(db, c, op.idx, p),
                    !.must = FALSE, !.mc = ResetMatch(@)]

(* A child that comes back on another document must not skip it: its next
   turn does not advance. *)
RecoveredOp(db, c, op) ==
    LET p == AtOrAfter(db, c, op.idx, op.pos) IN
    IF Lost(db, c, op.idx, op.pos)
         THEN [op EXCEPT !.pos = End, !.must = FALSE, !.err = IsOr(c) \/ db.cap > 0]
    ELSE IF op.pos = End THEN op
    ELSE IF p # End /\ p[2] = op.pos[2] THEN [op EXCEPT !.pos = p]
    ELSE [op EXCEPT !.pos = p, !.must = FALSE, !.mc = ResetMatch(@)]

TakeoverLost(db, c) == c.taken /\ Lost(db, c, c.tk.idx, c.tk.pos)

RecoveredTakeover(db, c) ==
    IF c.tk.pos = End THEN c
    ELSE IF TakeoverLost(db, c)
         THEN [c EXCEPT !.tk.pos = End, !.done = TRUE, !.threw = IsOr(c)]
    ELSE [c EXCEPT !.tk.pos = AtOrAfter(db, c, c.tk.idx, c.tk.pos)]

(* Faulty variant: a child that is lost counts as one that has finished its
   scan, and its plan is recorded. *)
CompleteLostChild(db, c, i) == EndClause(db, c, i)

(* A child whose recovery failed without an error is dropped: the scan is
   over with what it has returned, and no plan is recorded for it. *)
DropLostChild(db, c, i) == Finished(db, c)

(* recoverFromYield.  The children that are lost leave the race.  When the
   current child is one of them the next of the others has its turn, and
   the cursor raises when there is none; when the current child has nothing
   left the clause is over. *)
RecoverFromYield(db, cy) ==
    LET c0  == Explained(cy, QueryNoteYield)
        ops == [i \in DOMAIN c0.ops |-> RecoveredOp(db, c0, c0.ops[i])]
        c   == [c0 EXCEPT !.yielded = FALSE, !.ops = ops,
                          !.queue = SelectSeq(@, LAMBDA i : ~ops[i].err)]
        t   == [RecoveredTakeover(db, c0) EXCEPT !.yielded = FALSE]
    IN  IF ~c.has \/ c.done THEN World(db, [c0 EXCEPT !.yielded = FALSE])
        ELSE IF c.taken THEN
            IF t.tk.pos = End /\ ~t.done THEN TakeoverNextClause(db, t) ELSE World(db, t)
        ELSE IF c.cur = 0 THEN World(db, c)
        ELSE IF c.ops[c.cur].err THEN
            IF c.queue = <<>> THEN Finished(db, [c EXCEPT !.threw = TRUE])
            ELSE RunOp(db, c, Head(c.queue))
        ELSE IF Lost(db, c0, c0.ops[c.cur].idx, c0.ops[c.cur].pos) THEN DropLostChild(db, c, c.cur)
        ELSE IF c.ops[c.cur].pos = End THEN EndClause(db, c, c.cur)
        ELSE World(db, c)

(* recoverFromTouchingEarlierIterate: the current document was not touched,
   so the cursor stays where it is; a lost child is an error. *)
RecoverFromTouchingEarlierIterate(db, c0) ==
    LET c == [c0 EXCEPT !.yielded = FALSE,
                        !.ops = [i \in DOMAIN c0.ops |-> RecoveredOp(db, c0, c0.ops[i])]]
    IN  IF ~c.has \/ c.done THEN [c0 EXCEPT !.yielded = FALSE]
        ELSE IF c.taken THEN [RecoveredTakeover(db, c) EXCEPT !.yielded = FALSE]
        ELSE IF \E i \in DOMAIN c0.ops : Lost(db, c0, c0.ops[i].idx, c0.ops[i].pos)
             THEN [c EXCEPT !.threw = TRUE, !.done = TRUE, !.cur = 0]
        ELSE c

=============================================================================
