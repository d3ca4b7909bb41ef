--------------------------- MODULE SpendPipeline ---------------------------
(***************************************************************************)
(* The life of a request's money: budget pre-check, upstream call, usage   *)
(* record, rollups, budget charge, threshold alert.  Handlers are the      *)
(* proxy's request goroutines (internal/proxy), Trackers are `lcg track`   *)
(* processes (internal/cli), and both run UsageTracker.TrackWithTokens /   *)
(* Track over one SQLite file.  Every SQL statement is a transaction of    *)
(* its own, and nothing spans two of them, so each is one action here and  *)
(* the steps of all workers interleave between statements.                 *)
(*                                                                         *)
(* A statement may fail: SQLite may be busy or the disk full (MayFail), or *)
(* the client has gone and with it the request's context (gone).  If it    *)
(* goes while a statement runs, the statement may be committed and its     *)
(* caller told that it failed.                                             *)
(***************************************************************************)
EXTENDS BudgetScope, Totals

CONSTANTS Budgets,        \* budget names, numbered in the order of ListBudgets
          Handlers,       \* concurrent proxy requests
          Trackers,       \* concurrent `lcg track` processes
          Costs, MaxCost, \* what one request may cost, and an upper bound of it
          Limits, Thresholds, \* what `lcg budget set` may set
          DenyOnExceed,   \* proxy.deny_on_exceed
          MayFail,        \* whether storage statements may fail
          InitDefined, InitBudget, \* the budgets there are when the proxy starts
          MaxRequests, MaxSets     \* TLC bounds on arrivals and on budget changes

Workers == Handlers \cup Trackers

ASSUME BudgetsAssumption == Budgets \subseteq Nat /\ Budgets # {}
ASSUME WorkersAssumption ==
    IsFiniteSet(Handlers) /\ IsFiniteSet(Trackers) /\ Handlers \cap Trackers = {}
ASSUME SeriesAssumption == IsFiniteSet(Tenants) /\ IsFiniteSet(Projects)
ASSUME CostsAssumption == MaxCost \in Nat /\ Costs \subseteq 0..MaxCost
ASSUME LimitsAssumption == Limits \subseteq Int /\ Thresholds \subseteq Nat
ASSUME InitAssumption == /\ InitDefined \subseteq Budgets
                         /\ InitBudget \in [Budgets -> Budget]
                         /\ \A b \in Budgets : InitBudget[b].spend \in Nat
ASSUME BoundsAssumption == MaxRequests \in Nat /\ MaxSets \in Nat
ASSUME SwitchAssumption == DenyOnExceed \in BOOLEAN /\ MayFail \in BOOLEAN

VARIABLES
    budget,    \* table budgets, by name
    defined,   \* the names that have a row
    usage,     \* table usage_records: cost recorded, by tenant and project
    hourly,    \* table usage_rollups, the hourly rows
    daily,     \* table usage_rollups, the daily rows
    job,       \* what each worker is doing
    gone,      \* handlers whose client has disconnected
    arrivals,  \* requests so far, for MaxRequests
    sets,      \* budget changes so far, for MaxSets
    \* History, read by the properties only:
    allowance, \* per budget: the highest limit or re-scoped spend, plus unchecked spend
    sent,      \* per budget: alerts attempted since it was last set
    unseen,    \* budgets whose present row no threshold check has looked at
    moved,     \* budgets created or re-scoped since the start
    faulted    \* whether a step of recording has ever been left undone

tables == <<budget, defined, usage, hourly, daily>>
history == <<allowance, sent, unseen, moved, faulted>>
vars == <<tables, job, gone, arrivals, sets, history>>

PCs == {"idle", "admission", "upstream", "insert", "hourly", "daily", "list",
        "update", "reread", "notify"}
Recording == {"insert", "hourly", "daily", "list", "update", "reread", "notify"}
\* Admitted, and the applicable budgets not read yet.
Unlisted == {"upstream", "insert", "hourly", "daily", "list"}
\* Inside RecordSpend's loop.
Charging == {"update", "reread", "notify"}

Series == Tenants \X Scopes
Job == [pc : PCs, tenant : Tenants, project : Scopes, cost : 0..MaxCost,
        todo : SUBSET Budgets, cur : Budgets, level : Levels]

NewJob(pc, tenant, project, cost) ==
    [pc |-> pc, tenant |-> tenant, project |-> project, cost |-> cost,
     todo |-> {}, cur |-> CHOOSE b \in Budgets : TRUE, level |-> "none"]

IdleJob == NewJob("idle", CHOOSE t \in Tenants : TRUE, NoProject, 0)

SeriesOf(w) == <<job[w].tenant, job[w].project>>
Applicable(w) == {b \in defined : Covers(budget[b], job[w].tenant, job[w].project)}
Higher(x, y) == IF x >= y THEN x ELSE y

TypeOK ==
    /\ budget \in [Budgets -> Budget]
    /\ \A b \in Budgets : budget[b].spend \in Nat
    /\ defined \subseteq Budgets
    /\ usage \in [Series -> Nat] /\ hourly \in [Series -> Nat] /\ daily \in [Series -> Nat]
    /\ job \in [Workers -> Job]
    /\ gone \subseteq Handlers
    /\ arrivals \in Nat /\ sets \in Nat
    /\ allowance \in [Budgets -> Int]
    /\ sent \in [Budgets -> SUBSET Levels]
    /\ unseen \subseteq Budgets /\ moved \subseteq Budgets /\ faulted \in BOOLEAN

Init ==
    /\ budget = InitBudget /\ defined = InitDefined
    /\ usage = [s \in Series |-> 0] /\ hourly = usage /\ daily = usage
    /\ job = [w \in Workers |-> IdleJob]
    /\ gone = {} /\ arrivals = 0 /\ sets = 0
    /\ allowance = [b \in Budgets |-> Higher(InitBudget[b].limit, InitBudget[b].spend + 1)]
    /\ sent = [b \in Budgets |-> {}]
    /\ unseen = Budgets /\ moved = {} /\ faulted = FALSE

-----------------------------------------------------------------------------
Become(w, j) == job' = [job EXCEPT ![w] = j]

Goto(w, pc) == Become(w, [job[w] EXCEPT !.pc = pc])

\* The handler returns or the process exits.
Finish(w) == Become(w, IdleJob) /\ gone' = gone \ {w}

\* Mutant: the budgets are listed again before each of them is charged.
NextBudget_Relists(w) ==
    IF job[w].todo = {} THEN Finish(w) ELSE Goto(w, "list") /\ UNCHANGED gone

\* On to the next budget of RecordSpend's loop, or out of it.
NextBudget(w) ==
    IF job[w].todo = {} THEN Finish(w) ELSE Goto(w, "update") /\ UNCHANGED gone

Fails(w) == MayFail \/ w \in gone
Works(w) == w \notin gone

-----------------------------------------------------------------------------
(* The proxy, from authentication to the upstream's answer.               *)

Arrive(h) ==
    /\ job[h].pc = "idle" /\ arrivals < MaxRequests
    /\ arrivals' = arrivals + 1
    /\ \E t \in Tenants, p \in Scopes :
          Become(h, NewJob("admission", t, p, 0))
    /\ UNCHANGED <<tables, gone, sets, history>>

\* CheckApplicable found no applicable budget exceeded in the one list it read,
\* or deny_on_exceed is off and nothing is read.
Admit(h) ==
    /\ job[h].pc = "admission"
    /\ DenyOnExceed => Works(h) /\ \A b \in Applicable(h) : ~Exceeded(budget[b])
    /\ Goto(h, "upstream")
    /\ UNCHANGED <<tables, gone, arrivals, sets, history>>

\* 402: an applicable budget is exceeded, or the list could not be read.
Deny(h) ==
    /\ job[h].pc = "admission" /\ DenyOnExceed
    /\ Fails(h) \/ \E b \in Applicable(h) : Exceeded(budget[b])
    /\ Finish(h)
    /\ UNCHANGED <<tables, arrivals, sets, history>>

\* 502, or an answer without usage, without a model or without a price: nothing is recorded.
NothingToRecord(h) ==
    /\ job[h].pc = "upstream"
    /\ Finish(h)
    /\ UNCHANGED <<tables, arrivals, sets, history>>

\* The answer, or the end of the stream, has usage and the model has a price.
Capture(h) ==
    /\ job[h].pc = "upstream"
    /\ \E c \in Costs : Become(h, [job[h] EXCEPT !.pc = "insert", !.cost = c])
    /\ UNCHANGED <<tables, gone, arrivals, sets, history>>

\* The client closes its connection: r.Context() is cancelled, and every
\* later statement of this request fails.
Disconnect(h) ==
    /\ job[h].pc # "idle" /\ h \notin gone
    /\ gone' = gone \cup {h}
    /\ UNCHANGED <<tables, job, arrivals, sets, history>>

\* `lcg track`: no pre-check; the price is known before anything is written.
StartTrack(w) ==
    /\ job[w].pc = "idle" /\ arrivals < MaxRequests
    /\ arrivals' = arrivals + 1
    /\ \E t \in Tenants, p \in Scopes, c \in Costs :
          Become(w, NewJob("insert", t, p, c))
    /\ UNCHANGED <<tables, gone, sets, history>>

-----------------------------------------------------------------------------
(* RecordUsage: three statements, no transaction around them.             *)

InsertRow(w) ==
    /\ job[w].pc = "insert" /\ Works(w)
    /\ usage' = [usage EXCEPT ![SeriesOf(w)] = @ + job[w].cost]
    /\ Goto(w, "hourly")
    /\ UNCHANGED <<budget, defined, hourly, daily, gone, arrivals, sets, history>>

RollHourly(w) ==
    /\ job[w].pc = "hourly" /\ Works(w)
    /\ hourly' = [hourly EXCEPT ![SeriesOf(w)] = @ + job[w].cost]
    /\ Goto(w, "daily")
    /\ UNCHANGED <<budget, defined, usage, daily, gone, arrivals, sets, history>>

RollDaily(w) ==
    /\ job[w].pc = "daily" /\ Works(w)
    /\ daily' = [daily EXCEPT ![SeriesOf(w)] = @ + job[w].cost]
    /\ Goto(w, "list")
    /\ UNCHANGED <<budget, defined, usage, hourly, gone, arrivals, sets, history>>

\* Mutant: the error of a statement is logged, and the next one runs.
RecordFails_GoesOn(w) ==
    /\ job[w].pc \in {"insert", "hourly", "daily", "list"} /\ Fails(w)
    /\ CASE job[w].pc = "insert" -> Goto(w, "hourly") /\ UNCHANGED gone
         [] job[w].pc = "hourly" -> Goto(w, "daily") /\ UNCHANGED gone
         [] job[w].pc = "daily" -> Goto(w, "list") /\ UNCHANGED gone
         [] OTHER -> Finish(w)
    /\ faulted' = TRUE
    /\ UNCHANGED <<tables, arrivals, sets, allowance, sent, unseen, moved>>

\* A statement of RecordUsage fails: TrackWithTokens returns the error and no budget is
\* charged.  Or RecordSpend cannot list the budgets: the same, for the row that is stored.
\* What the earlier statements wrote stays.
RecordFails(w) ==
    /\ job[w].pc \in {"insert", "hourly", "daily", "list"} /\ Fails(w)
    /\ Finish(w)
    /\ faulted' = TRUE
    /\ UNCHANGED <<tables, arrivals, sets, allowance, sent, unseen, moved>>

\* The client goes while one of them is committed: the row is there, and the driver returns
\* the context's error for it, with which TrackWithTokens returns.
UnheardRow(w) ==
    LET added(table) == [table EXCEPT ![SeriesOf(w)] = @ + job[w].cost] IN
    /\ w \in Handlers /\ Works(w)
    /\ \/ job[w].pc = "insert" /\ usage' = added(usage) /\ UNCHANGED <<hourly, daily>>
       \/ job[w].pc = "hourly" /\ hourly' = added(hourly) /\ UNCHANGED <<usage, daily>>
       \/ job[w].pc = "daily" /\ daily' = added(daily) /\ UNCHANGED <<usage, hourly>>
    /\ Finish(w)
    /\ faulted' = TRUE
    /\ UNCHANGED <<budget, defined, arrivals, sets, allowance, sent, unseen, moved>>

-----------------------------------------------------------------------------
(* RecordSpend: the list is read once, then each budget is charged, read   *)
(* again and checked, in the order of the list.                            *)

\* Mutant: the budgets of the tenant are charged, whichever project they are for.
ListApplicable_AnyProject(w) ==
    LET found == {b \in defined : budget[b].tenant = job[w].tenant} IN
    /\ job[w].pc = "list" /\ Works(w)
    /\ IF found = {}
       THEN Finish(w)
       ELSE /\ Become(w, [job[w] EXCEPT !.pc = "update", !.todo = found])
            /\ UNCHANGED gone
    /\ UNCHANGED <<tables, arrivals, sets, history>>

ListApplicable(w) ==
    /\ job[w].pc = "list" /\ Works(w)
    /\ IF Applicable(w) = {}
       THEN Finish(w)
       ELSE /\ Become(w, [job[w] EXCEPT !.pc = "update", !.todo = Applicable(w)])
            /\ UNCHANGED gone
    /\ UNCHANGED <<tables, arrivals, sets, history>>

IsNext(w, b) == b \in job[w].todo /\ \A x \in job[w].todo : b <= x

\* Mutant: the thresholds are checked on the row as it was listed, not read again.
ChargeBudget_OldRow(w) ==
    /\ job[w].pc = "update" /\ Works(w)
    /\ \E b \in Budgets :
          /\ IsNext(w, b)
          /\ budget' = [budget EXCEPT ![b].spend = @ + job[w].cost]
          /\ Become(w, [job[w] EXCEPT !.pc = "notify", !.cur = b, !.todo = @ \ {b},
                                      !.level = LevelOf(budget[b])])
          /\ unseen' = unseen \ {b}
    /\ UNCHANGED <<defined, usage, hourly, daily, gone, arrivals, sets, allowance, sent, moved, faulted>>

\* Mutant: the amount is taken off the spend.
ChargeBudget_Negative(w) ==
    /\ job[w].pc = "update" /\ Works(w)
    /\ \E b \in Budgets :
          /\ IsNext(w, b)
          /\ budget' = [budget EXCEPT ![b].spend = @ - job[w].cost]
          /\ Become(w, [job[w] EXCEPT !.pc = "reread", !.cur = b, !.todo = @ \ {b}])
    /\ UNCHANGED <<defined, usage, hourly, daily, gone, arrivals, sets, history>>

\* UPDATE budgets SET current_spend = current_spend + amount WHERE name = b
ChargeBudget(w) ==
    /\ job[w].pc = "update" /\ Works(w)
    /\ \E b \in Budgets :
          /\ IsNext(w, b)
          /\ budget' = [budget EXCEPT ![b].spend = @ + job[w].cost]
          /\ Become(w, [job[w] EXCEPT !.pc = "reread", !.cur = b, !.todo = @ \ {b}])
          /\ allowance' = IF w \in Trackers
                          THEN [allowance EXCEPT ![b] = @ + job[w].cost]
                          ELSE allowance
    /\ UNCHANGED <<defined, usage, hourly, daily, gone, arrivals, sets, sent, unseen, moved, faulted>>

\* Mutant: a failed update is tried again, without end.
ChargeFails_Retry(w) ==
    /\ job[w].pc = "update" /\ Fails(w)
    /\ faulted' = TRUE
    /\ UNCHANGED <<tables, job, gone, arrivals, sets, allowance, sent, unseen, moved>>

\* The update fails: logged, and on to the next budget.
ChargeFails(w) ==
    /\ job[w].pc = "update" /\ Fails(w)
    /\ \E b \in Budgets :
          /\ IsNext(w, b)
          /\ IF job[w].todo = {b}
             THEN Finish(w)
             ELSE Become(w, [job[w] EXCEPT !.todo = @ \ {b}]) /\ UNCHANGED gone
    /\ faulted' = TRUE
    /\ UNCHANGED <<tables, arrivals, sets, allowance, sent, unseen, moved>>

\* Mutant: an update whose answer was lost is sent again.
UnheardCharge_Again(w) ==
    /\ job[w].pc = "update" /\ w \in Handlers /\ Works(w)
    /\ \E b \in Budgets :
          /\ IsNext(w, b)
          /\ budget' = [budget EXCEPT ![b].spend = @ + job[w].cost]
          /\ unseen' = unseen \cup {b}
    /\ UNCHANGED <<defined, usage, hourly, daily, job, gone, arrivals, sets, allowance, sent, moved, faulted>>

\* The client goes while the update is committed: the budget is charged, and RecordSpend
\* logs an error and goes on to the next budget as if it were not.
UnheardCharge(w) ==
    /\ job[w].pc = "update" /\ w \in Handlers /\ Works(w)
    /\ \E b \in Budgets :
          /\ IsNext(w, b)
          /\ budget' = [budget EXCEPT ![b].spend = @ + job[w].cost]
          /\ unseen' = unseen \cup {b}
          /\ IF job[w].todo = {b}
             THEN Finish(w)
             ELSE Become(w, [job[w] EXCEPT !.todo = @ \ {b}]) /\ gone' = gone \cup {w}
    /\ UNCHANGED <<defined, usage, hourly, daily, arrivals, sets, allowance, sent, moved, faulted>>

\* GetBudget after the update, and the level checkThresholds gives the row it read.
Reread(w) ==
    LET level == LevelOf(budget[job[w].cur]) IN
    /\ job[w].pc = "reread" /\ Works(w)
    /\ unseen' = unseen \ {job[w].cur}
    /\ IF level = "none"
       THEN NextBudget(w)
       ELSE Become(w, [job[w] EXCEPT !.pc = "notify", !.level = level]) /\ UNCHANGED gone
    /\ UNCHANGED <<tables, arrivals, sets, allowance, sent, moved, faulted>>

\* The budget was charged, but cannot be read again: no threshold check this time.
RereadFails(w) ==
    /\ job[w].pc = "reread" /\ Fails(w)
    /\ unseen' = unseen \cup {job[w].cur}
    /\ NextBudget(w)
    /\ UNCHANGED <<tables, arrivals, sets, allowance, sent, moved, faulted>>

\* Every notifier's Send, one after the other; a failed delivery is only logged.
Notify(w) ==
    /\ job[w].pc = "notify"
    /\ sent' = [sent EXCEPT ![job[w].cur] = @ \cup {job[w].level}]
    /\ NextBudget(w)
    /\ UNCHANGED <<tables, arrivals, sets, allowance, unseen, moved, faulted>>

-----------------------------------------------------------------------------
\* `lcg budget set`: an upsert by name that moves the scope, the limit and the
\* threshold, and keeps current_spend.
SetBudget(b, t, p, limit, alertAt) ==
    LET spend == IF b \in defined THEN budget[b].spend ELSE 0
        moves == b \notin defined \/ budget[b].tenant # t \/ budget[b].project # p
    IN
    /\ sets < MaxSets
    /\ sets' = sets + 1
    /\ budget' = [budget EXCEPT ![b] = [tenant |-> t, project |-> p, limit |-> limit,
                                        spend |-> spend, alertAt |-> alertAt]]
    /\ defined' = defined \cup {b}
    /\ allowance' = [allowance EXCEPT ![b] =
                        Higher(@, IF moves THEN Higher(limit, spend + 1) ELSE limit)]
    /\ sent' = [sent EXCEPT ![b] = {}]
    /\ unseen' = unseen \cup {b}
    /\ moved' = IF moves THEN moved \cup {b} ELSE moved
    /\ UNCHANGED <<usage, hourly, daily, job, gone, arrivals, faulted>>

SetsBudget ==
    \E b \in Budgets, t \in Tenants, p \in Scopes, limit \in Limits, a \in Thresholds :
        SetBudget(b, t, p, limit, a)

\* No traffic: the program waits.
Quiet == (\A w \in Workers : job[w].pc = "idle") /\ UNCHANGED vars

\* What a worker does of its own accord once a price is known.
Record(w) ==
    \/ InsertRow(w) \/ RollHourly(w) \/ RollDaily(w) \/ RecordFails(w) \/ UnheardRow(w)
    \/ ListApplicable(w) \/ ChargeBudget(w) \/ ChargeFails(w) \/ UnheardCharge(w)
    \/ Reread(w) \/ RereadFails(w) \/ Notify(w)

Proxy(h) ==
    Arrive(h) \/ Admit(h) \/ Deny(h) \/ NothingToRecord(h) \/ Capture(h) \/ Disconnect(h)

Next ==
    \/ \E h \in Handlers : Proxy(h)
    \/ \E w \in Trackers : StartTrack(w)
    \/ \E w \in Workers : Record(w)
    \/ SetsBudget
    \/ Quiet

Spec == Init /\ [][Next]_vars

\* The goroutine of a request is scheduled, and each of its calls returns: SQLite answers
\* or errors, and the notifiers' HTTP client gives up after ten seconds.
FairSpec == Spec /\ \A w \in Workers : WF_vars(Record(w))

-----------------------------------------------------------------------------
(* Properties *)

\* A worker at job j may still add its cost to budget b.
MayCharge(j, b) ==
    \/ j.pc \in Unlisted /\ Covers(budget[b], j.tenant, j.project)
    \/ j.pc \in Charging /\ b \in j.todo

Owes(w, b) == MayCharge(job[w], b)

\* The pre-check (handler.go:101) and the charge (budget.go:37) are far apart, and any
\* number of admissions fit between them.  With deny_on_exceed on, a budget still cannot
\* run away: its spend passes its allowance by at most one request per concurrent handler.
\* The allowance is the highest limit it had or the spend it was re-scoped with, plus what
\* `lcg track`, which checks nothing, added.
OvershootBound ==
    DenyOnExceed =>
        \A b \in defined :
            budget[b].spend <= allowance[b] - 1 + MaxCost * Cardinality(Handlers)

\* A worker at job j has charged budget b and will raise the alert b now asks for: it is
\* about to read the row, or about to send the level the row stands at.
Checking(j, b) ==
    /\ j.cur = b
    /\ \/ j.pc = "reread"
       \/ j.pc = "notify" /\ j.level = LevelOf(budget[b])

\* Recorders of one budget interleave, and each checks the row it read after its own
\* update (budget.go:43): whenever nobody is between update and alert, an alert of the
\* level the budget now stands at has been attempted since the budget was last set, unless
\* nobody has looked at the row since a failed re-read, an update whose answer was lost, or
\* a change of the budget.
AlertNotMissed ==
    \A b \in defined \ unseen :
        \/ LevelOf(budget[b]) \in sent[b] \cup {"none"}
        \/ \E w \in Workers : Checking(job[w], b)

Cost == [w \in Workers |-> job[w].cost]

\* Spend and usage_records are written by different statements.  For a budget that kept its
\* scope, what it was charged, plus what stored requests still owe it, is never more than
\* the usage recorded in its scope, and exactly that as long as no step of recording failed:
\* nobody is charged twice, for somebody else, or for usage that is not stored.
ChargesMatchUsage ==
    \A b \in InitDefined \ moved :
        LET recorded == Total(usage, {s \in Series : Covers(budget[b], s[1], s[2])})
            owed == Total(Cost, {w \in Workers : job[w].pc \notin {"upstream", "insert"} /\ Owes(w, b)})
            charged == budget[b].spend - InitBudget[b].spend
        IN charged + owed <= recorded /\ (~faulted => charged + owed = recorded)

\* The rollups follow usage_records statement by statement (sqlite.go:74-90): an aggregate
\* never shows usage that is not stored, daily never runs ahead of hourly, and the
\* only gap, until something fails, is that of the requests between the statements.
RollupsMatchUsage ==
    \A s \in Series :
        LET between(pcs) == Total(Cost, {w \in Workers : job[w].pc \in pcs /\ SeriesOf(w) = s}) IN
        /\ hourly[s] + between({"hourly"}) <= usage[s]
        /\ daily[s] + between({"daily"}) <= hourly[s]
        /\ ~faulted => /\ hourly[s] + between({"hourly"}) = usage[s]
                       /\ daily[s] + between({"daily"}) = hourly[s]

\* The steps a job that is recording may still take: RecordUsage's statements and the list
\* ahead of it, then what RecordSpend's loop does with the budgets that are left, and what
\* is left to do for the one it has charged.
Ahead(j) ==
    LET ahead == CASE j.pc = "insert" -> {"insert", "hourly", "daily", "list"}
                   [] j.pc = "hourly" -> {"hourly", "daily", "list"}
                   [] j.pc = "daily"  -> {"daily", "list"}
                   [] j.pc = "list"   -> {"list"}
                   [] OTHER           -> {}
        left == IF j.pc \in Unlisted THEN Budgets ELSE j.todo
        charged == CASE j.pc = "reread" -> {"reread", "notify"}
                     [] j.pc = "notify" -> {"notify"}
                     [] OTHER           -> {}
    IN (ahead \X Budgets) \cup (Charging \X left) \cup (charged \X {j.cur})

\* Every step of a recording, those that fail and those whose answer was lost included,
\* leaves less of it to do, and nothing anybody else does adds to it: RecordSpend's list is
\* read once (budget.go:31), and neither a budget charged before nor one created, re-scoped
\* or charged by others meanwhile is taken up.
RecordingAdvances ==
    [][\A w \in Workers : job[w].pc \in Recording =>
          IF Record(w)
          THEN Ahead(job'[w]) \subseteq Ahead(job[w]) /\ Ahead(job'[w]) # Ahead(job[w])
          ELSE job'[w] = job[w]]_vars

\* A request whose price is known is done with eventually, however many budgets it has to
\* charge, whichever of its statements fail, and whatever other workers do.
RecordingEnds == \A w \in Workers : job[w].pc \in Recording ~> job[w].pc = "idle"
=============================================================================
