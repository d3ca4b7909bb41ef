-------------------------- MODULE MCAnomalyAlerts --------------------------
(* Six days around 10 before the first day, and one four weeks earlier that *)
(* leaves the window at the first midnight.  A project's day of 14 is        *)
(* critical (z = 3.6), 26 only warns (2.6 times the mean), 40 is critical    *)
(* again; the rows without a project are flat, and 26 and 40 are the steps.  *)
EXTENDS AnomalyAlerts

MCWavy == [d \in {0} \cup 22..27 |-> IF d % 2 = 0 THEN 9 ELSE 11]
MCFlat == [d \in 22..27 |-> 10]
MCHistories == {[s \in Series |-> IF s = NoProject THEN MCFlat ELSE MCWavy]}
MCCosts == {14, 26}
=============================================================================
