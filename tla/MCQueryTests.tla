---------------------------- MODULE MCQueryTests ----------------------------
(***************************************************************************)
(* The query optimizer cursor tests with the numbers of the server.        *)
(***************************************************************************)
EXTENDS QueryTestsRace, QueryTestsPlans, QueryTestsExplain

(* The least value a test's predicates name. *)
LeastKey == -1

(* Every test class of the model, one after the other. *)
AllTests ==
    RaceTests \o PlanTests \o YieldTests \o OrderTests \o PlanCheckingTests
    \o GetCursorTests \o RecordedPlanTests \o ExplainTests

=============================================================================
