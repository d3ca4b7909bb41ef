-------------------------- MODULE MCBudgetPeriods --------------------------
(* From a Sunday to the Monday of the week after, with the first of a month *)
(* on a Friday: every kind of period ends at least once.                    *)
EXTENDS BudgetPeriods

MCMonthStarts == {-25, 5, 36}
=============================================================================
