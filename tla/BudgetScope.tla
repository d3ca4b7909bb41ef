---------------------------- MODULE BudgetScope ----------------------------
(***************************************************************************)
(* What a budget covers and how far it is spent: the state-free half of    *)
(* pkg/tracker/budget.go.  Money is a whole number of the smallest unit    *)
(* the reader likes; a percentage is compared by cross-multiplication, so  *)
(* pct >= p reads spend * 100 >= p * limit, and only for limit > 0, the    *)
(* case in which the code divides.                                         *)
(***************************************************************************)
EXTENDS Integers

CONSTANTS Tenants,     \* slugs, already normalised (storage.normalizeTenantSlug)
          Projects,    \* the non-empty project names
          NoProject    \* the empty project: a request without one, a tenant-global budget

ASSUME ScopeAssumption == Tenants # {} /\ NoProject \notin Projects

Scopes == Projects \cup {NoProject}

AlertLevels == {"warning", "critical", "exceeded"}
Levels == AlertLevels \cup {"none"}

\* A row of the budgets table, without its name, which is its key.
Budget == [tenant : Tenants, project : Scopes, limit : Int, spend : Int, alertAt : Nat]

\* applicableBudgets: same tenant, and tenant-global or of the request's own project.
\* A request without a project meets only tenant-global budgets.
Covers(bud, tenant, project) ==
    /\ bud.tenant = tenant
    /\ bud.project \in {NoProject, project}

\* Mutant: a budget spent to the cent is not exceeded yet.
Exceeded_Strictly(bud) == bud.spend > bud.limit

\* CheckApplicable and CheckAll: the test that refuses a request.
Exceeded(bud) == bud.spend >= bud.limit

Reaches(bud, pct) == bud.spend * 100 >= pct * bud.limit

\* checkThresholds: the level of the alert this budget asks for, or "none".
LevelOf(bud) ==
    IF bud.limit <= 0 THEN "none"
    ELSE IF Reaches(bud, 100) THEN "exceeded"
    ELSE IF Reaches(bud, 95) THEN "critical"
    ELSE IF Reaches(bud, bud.alertAt) THEN "warning"
    ELSE "none"
=============================================================================
