-------------------------- MODULE MCSpendPipeline --------------------------
(* Small instances of SpendPipeline: budget 1 is tenant-global with a limit *)
(* of 20, budget 2 is project "app"'s with a limit of 38, and a request     *)
(* costs 19.  One request takes budget 1 to 95 %, a second one past 100 %,  *)
(* two take budget 2 to 100 % exactly, and two handlers admitted at 19 of   *)
(* 20 reach OvershootBound to the unit: 19 + 19 + 19 = 20 - 1 + 2 * 19.     *)
EXTENDS SpendRefinement, TLC

MCLimits == {20, 38}
MCThresholds == {50}
MCBudget(project, limit) ==
    [tenant |-> "acme", project |-> project, limit |-> limit, spend |-> 0, alertAt |-> 50]
MCInitBudget == [b \in Budgets |-> IF b = 1 THEN MCBudget("", 20) ELSE MCBudget("app", 38)]

\* Handlers are interchangeable, and no property of the gate run is temporal.
HandlerSymmetry == Permutations(Handlers)

\* No guard and no property of the gate run reads the usage tables, moved or faulted:
\* states that differ in nothing else need not be told apart.
GateView == <<budget, defined, job, gone, arrivals, sets, allowance, sent, unseen>>
=============================================================================
