------------------------------ MODULE Explain ------------------------------
(***************************************************************************)
(* The explain tree of a query: one ExplainPlanInfo per plan that ran, one *)
(* ExplainClauseInfo per clause of the query with the plans that raced for *)
(* it, and the ExplainQueryInfo that holds the clauses.  The counters are  *)
(* bumped from three sides: by each plan when it looks at a document, by   *)
(* the client of the cursor when it has decided about a document, and by   *)
(* the cursor that has taken a query over.                                 *)
(*                                                                         *)
(* What a plan info knows of its cursor it learns when it is told: its     *)
(* nscanned and isMultiKey are those of the last notePlan, noteIterate or  *)
(* noteDone, and lag behind the cursor in between.  A cursor is shown to   *)
(* these operators as a record [name, bounds, nscanned, isMultiKey].       *)
(***************************************************************************)
EXTENDS Naturals, Sequences

LOCAL Seqs == INSTANCE SequencesExt

(* What a flag adds to a counter. *)
Tally(b) == IF b THEN 1 ELSE 0

-----------------------------------------------------------------------------
(* ExplainPlanInfo *)

NoteCursorUpdate(p, cursor) ==
    [p EXCEPT !.isMultiKey = cursor.isMultiKey, !.nscanned = cursor.nscanned]

NotePlan(cursor, scanAndOrder, indexOnly) ==
    [cursorName |-> cursor.name, indexBounds |-> cursor.bounds,
     isMultiKey |-> cursor.isMultiKey, nscanned |-> cursor.nscanned,
     n |-> 0, nscannedObjects |-> 0, scanAndOrder |-> scanAndOrder,
     indexOnly |-> indexOnly, picked |-> FALSE, done |-> FALSE]

NoteIterate(p, match, loadedRecord, cursor) ==
    NoteCursorUpdate([p EXCEPT !.n = @ + Tally(match),
                               !.nscannedObjects = @ + Tally(loadedRecord)], cursor)

NoteDone(p, cursor) == NoteCursorUpdate([p EXCEPT !.done = TRUE], cursor)

NotePicked(p) == [p EXCEPT !.picked = TRUE]

(* ExplainPlanInfo::bson *)
PlanBson(p) ==
    [cursor |-> p.cursorName, n |-> p.n, nscannedObjects |-> p.nscannedObjects,
     nscanned |-> p.nscanned, indexBounds |-> p.indexBounds]

-----------------------------------------------------------------------------
(* ExplainClauseInfo *)

NewClauseInfo(plans) ==
    [n |-> 0, nscannedObjects |-> 0, nChunkSkips |-> 0, nYields |-> 0, plans |-> plans]

ClauseNoteIterate(cl, match, loadedRecord, chunkSkip) ==
    [cl EXCEPT !.n = @ + Tally(match), !.nscannedObjects = @ + Tally(loadedRecord),
               !.nChunkSkips = @ + Tally(chunkSkip)]

ClauseNoteYield(cl) == [cl EXCEPT !.nYields = @ + 1]

(* nscanned of a clause: what its plans have scanned between them. *)
ClauseNscanned(cl) == Seqs!FoldLeft(LAMBDA n, p : n + p.nscanned, 0, cl.plans)

FirstWhere(plans, Test(_)) ==
    plans[CHOOSE i \in DOMAIN plans : Test(plans[i]) /\ \A j \in 1..(i - 1) : ~Test(plans[j])]

(* virtualPickedPlan: the plan a clause reports as its own is the one that
   was picked, else the first that is done, else the first of those with
   the most matches. *)
VirtualPickedPlan(cl) ==
    IF \E i \in DOMAIN cl.plans : cl.plans[i].picked
        THEN FirstWhere(cl.plans, LAMBDA p : p.picked)
    ELSE IF \E i \in DOMAIN cl.plans : cl.plans[i].done
        THEN FirstWhere(cl.plans, LAMBDA p : p.done)
    ELSE FirstWhere(cl.plans, LAMBDA p : \A i \in DOMAIN cl.plans : cl.plans[i].n <= p.n)

(* ExplainClauseInfo::bson: the plan of the clause with the counters of the
   clause, and every plan with its own. *)
ClauseBson(cl) ==
    LET p == VirtualPickedPlan(cl) IN
    [cursor |-> p.cursorName, isMultiKey |-> p.isMultiKey, n |-> cl.n,
     nscannedObjects |-> cl.nscannedObjects, nscanned |-> ClauseNscanned(cl),
     scanAndOrder |-> p.scanAndOrder, indexOnly |-> p.indexOnly,
     nYields |-> cl.nYields, nChunkSkips |-> cl.nChunkSkips,
     indexBounds |-> p.indexBounds,
     allPlans |-> [i \in DOMAIN cl.plans |-> PlanBson(cl.plans[i])]]

-----------------------------------------------------------------------------
(* ExplainQueryInfo: the clauses, the last of which is the one at work. *)

OnLastClause(clauses, Note(_)) == [clauses EXCEPT ![Len(clauses)] = Note(@)]

QueryNoteIterate(clauses, match, loadedRecord, chunkSkip) ==
    OnLastClause(clauses, LAMBDA cl : ClauseNoteIterate(cl, match, loadedRecord, chunkSkip))

QueryNoteYield(clauses) == OnLastClause(clauses, ClauseNoteYield)

Total(clauses, Counter(_)) == Seqs!FoldLeft(LAMBDA n, cl : n + Counter(cl), 0, clauses)

(* ExplainQueryInfo::bson: the clause itself when there is one; else the
   clauses and the sums of their counters, nChunkSkips not among them. *)
QueryBson(clauses) ==
    IF Len(clauses) = 1 THEN ClauseBson(clauses[1])
    ELSE [clauses |-> [i \in DOMAIN clauses |-> ClauseBson(clauses[i])],
          n |-> Total(clauses, LAMBDA cl : cl.n),
          nscannedObjects |-> Total(clauses, LAMBDA cl : cl.nscannedObjects),
          nscanned |-> Total(clauses, ClauseNscanned)]

=============================================================================
