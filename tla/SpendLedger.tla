---------------------------- MODULE SpendLedger ----------------------------
(***************************************************************************)
(* What recording spend promises, whoever does it and however many         *)
(* statements it takes: an account per worker is opened, its usage is      *)
(* stored, it is billed to the budgets that cover it at one moment, and    *)
(* each of them is paid once or, after a failure, written off.  Rollups,   *)
(* alerts, re-reads, disconnections and the order of the budgets are not   *)
(* part of the promise; SpendRefinement shows that SpendPipeline keeps it. *)
(***************************************************************************)
EXTENDS BudgetScope

CONSTANTS Budgets, Workers,
          Checked,      \* the workers the pre-check applies to
          DenyOnExceed, \* whether there is a pre-check at all
          Costs, Limits, Thresholds,
          InitDefined, InitBudget

VARIABLES
    budget, defined, usage, \* the tables, without the rollups
    account,                \* what stands between each worker and the tables
    faulted                 \* whether anything was ever written off

ledgerVars == <<budget, defined, usage, account, faulted>>

NoAccount == [state |-> "none"]
Opened(t, p) == [state |-> "open", tenant |-> t, project |-> p]
Stored(a, c) == [state |-> "stored", tenant |-> a.tenant, project |-> a.project, cost |-> c]
\* An account with nothing left to pay is closed.
Billed(a, due) ==
    IF due = {} THEN NoAccount
    ELSE [state |-> "billed", tenant |-> a.tenant, project |-> a.project,
          cost |-> a.cost, due |-> due]

Covering(t, p) == {b \in defined : Covers(budget[b], t, p)}

LedgerInit ==
    /\ budget = InitBudget /\ defined = InitDefined
    /\ usage = [s \in Tenants \X Scopes |-> 0]
    /\ account = [w \in Workers |-> NoAccount]
    /\ faulted = FALSE

\* A checked worker enters only when one look at the budgets finds none of its own exceeded.
Enter(w, t, p) ==
    /\ account[w].state = "none"
    /\ (DenyOnExceed /\ w \in Checked) => \A b \in Covering(t, p) : ~Exceeded(budget[b])
    /\ account' = [account EXCEPT ![w] = Opened(t, p)]
    /\ UNCHANGED <<budget, defined, usage, faulted>>

\* There is no usage to store, or it cannot be stored.
Leave(w) ==
    /\ account[w].state = "open"
    /\ account' = [account EXCEPT ![w] = NoAccount]
    /\ faulted' \in {faulted, TRUE}
    /\ UNCHANGED <<budget, defined, usage>>

Store(w, c) ==
    /\ account[w].state = "open"
    /\ usage' = [usage EXCEPT ![<<account[w].tenant, account[w].project>>] = @ + c]
    /\ account' = [account EXCEPT ![w] = Stored(account[w], c)]
    /\ UNCHANGED <<budget, defined, faulted>>

\* What is stored while its account is given up: its recorder was told that it is not.
StoreUnbilled(w, c) ==
    /\ account[w].state = "open"
    /\ usage' = [usage EXCEPT ![<<account[w].tenant, account[w].project>>] = @ + c]
    /\ account' = [account EXCEPT ![w] = NoAccount]
    /\ faulted' = TRUE
    /\ UNCHANGED <<budget, defined>>

Bill(w) ==
    /\ account[w].state = "stored"
    /\ account' = [account EXCEPT ![w] =
          Billed(account[w], Covering(account[w].tenant, account[w].project))]
    /\ UNCHANGED <<budget, defined, usage, faulted>>

Pay(w, b) ==
    /\ account[w].state = "billed" /\ b \in account[w].due
    /\ budget' = [budget EXCEPT ![b].spend = @ + account[w].cost]
    /\ account' = [account EXCEPT ![w] = Billed(account[w], account[w].due \ {b})]
    /\ UNCHANGED <<defined, usage, faulted>>

\* What is stored but was not billed, or was billed but could not be paid.
WriteOff(w) ==
    /\ \/ /\ account[w].state = "stored"
          /\ account' = [account EXCEPT ![w] = NoAccount]
       \/ /\ account[w].state = "billed"
          /\ \E b \in account[w].due :
                account' = [account EXCEPT ![w] = Billed(account[w], account[w].due \ {b})]
    /\ faulted' = TRUE
    /\ UNCHANGED <<budget, defined, usage>>

\* A budget is created, or its rules change; what it was charged stays.
Redefine(b, rules) ==
    /\ defined' = defined \cup {b}
    /\ budget' = [budget EXCEPT ![b] = rules]
    /\ rules.spend = IF b \in defined THEN budget[b].spend ELSE 0
    /\ UNCHANGED <<usage, account, faulted>>

Rules(spends) == [tenant : Tenants, project : Scopes, limit : Limits, spend : spends,
                  alertAt : Thresholds]

LedgerNext ==
    \/ \E w \in Workers :
          \/ \E t \in Tenants, p \in Scopes : Enter(w, t, p)
          \/ Leave(w)
          \/ \E c \in Costs : Store(w, c) \/ StoreUnbilled(w, c)
          \/ Bill(w)
          \/ \E b \in Budgets : Pay(w, b)
          \/ WriteOff(w)
    \/ \E b \in Budgets : \E rules \in Rules({0, budget[b].spend}) : Redefine(b, rules)

LedgerSpec == LedgerInit /\ [][LedgerNext]_ledgerVars
=============================================================================
