-------------------------- MODULE SpendRefinement --------------------------
(* SpendPipeline implements SpendLedger.  A worker has no account before it *)
(* is admitted; its account is open until the INSERT of its usage row has   *)
(* happened, stored until RecordSpend has listed the budgets, and owes what *)
(* is left of that list from then on.                                       *)
EXTENDS SpendPipeline

AccountOf(j) ==
    CASE j.pc \in {"idle", "admission"} -> [state |-> "none"]
      [] j.pc \in {"upstream", "insert"} ->
            [state |-> "open", tenant |-> j.tenant, project |-> j.project]
      [] j.pc \in {"hourly", "daily", "list"} ->
            [state |-> "stored", tenant |-> j.tenant, project |-> j.project, cost |-> j.cost]
      [] j.pc \in Charging /\ j.todo = {} -> [state |-> "none"]
      [] j.pc \in Charging /\ j.todo # {} ->
            [state |-> "billed", tenant |-> j.tenant, project |-> j.project, cost |-> j.cost,
             due |-> j.todo]

account == [w \in Workers |-> AccountOf(job[w])]

Ledger == INSTANCE SpendLedger WITH Checked <- Handlers

\* Whatever is interleaved and whatever fails, the ten steps of recording a request
\* (handler.go:101 to budget.go:50) are, for the tables, one promise: no checked request
\* gets in past a budget that one snapshot showed exceeded, usage is stored once, each
\* budget that covered it when the budgets were listed is charged its cost at most once,
\* nobody else's and nothing that is not stored is charged, what is not charged is a fault,
\* and setting a budget never touches what it was charged.
LedgerImplemented == Ledger!LedgerSpec
=============================================================================
