--------------------------- MODULE BudgetPeriods ---------------------------
(***************************************************************************)
(* One budget with a period, the requests it admits, the days that pass,   *)
(* and BudgetManager.ResetBudgetSpend, which a program that embeds the     *)
(* package may call at a period's end; the program of this repository      *)
(* never does (Resetters = {}).  Periods are what PeriodBounds makes of    *)
(* them, for the reports: a day is a number, and day 0 a Sunday.           *)
(***************************************************************************)
EXTENDS Integers, FiniteSetsExt

CONSTANTS Period, Limit, \* of the budget
          MonthStarts,   \* the days that are the first of a month
          Handlers,      \* concurrent proxy requests, all within the budget's scope
          Resetters,     \* concurrent callers of ResetBudgetSpend
          Costs,         \* what one request may cost
          MayFail,       \* whether storage statements may fail
          LastDay, MaxRequests, MaxResets \* TLC bounds

Periods == {"daily", "weekly", "monthly"}
Days == 0..LastDay

ASSUME PeriodAssumption == Period \in Periods /\ Limit \in Nat
ASSUME MonthAssumption ==
    /\ MonthStarts \subseteq Int
    /\ \A d \in Days : (\E s \in MonthStarts : s <= d) /\ (\E s \in MonthStarts : s > d)
ASSUME CostsAssumption == Costs \subseteq Nat
ASSUME BoundsAssumption == LastDay \in Nat /\ MaxRequests \in Nat /\ MaxResets \in Nat

VARIABLES
    spend,   \* budgets.current_spend
    usage,   \* usage_records: cost by day
    today,
    job,     \* what each handler is doing
    reset,   \* what each resetter is doing
    arrivals, resets, \* for MaxRequests and MaxResets
    \* History, read by the properties only:
    due,     \* what was charged since the reset that counts last read the budget
    since    \* by resetter: what was charged since it read the budget

vars == <<spend, usage, today, job, reset, arrivals, resets, due, since>>

IdleJob == [pc |-> "idle", cost |-> 0]
IdleReset == [pc |-> "idle", seen |-> 0]

TypeOK ==
    /\ spend \in Nat /\ usage \in [Days -> Nat] /\ today \in Days
    /\ job \in [Handlers -> [pc : {"idle", "upstream", "charge"}, cost : Costs \cup {0}]]
    /\ reset \in [Resetters -> [pc : {"idle", "subtract"}, seen : Nat]]
    /\ arrivals \in 0..MaxRequests /\ resets \in 0..MaxResets
    /\ due \in Nat /\ since \in [Resetters -> Nat]

Init ==
    /\ spend = 0 /\ usage = [d \in Days |-> 0] /\ today = 0
    /\ job = [h \in Handlers |-> IdleJob] /\ reset = [r \in Resetters |-> IdleReset]
    /\ arrivals = 0 /\ resets = 0
    /\ due = 0 /\ since = [r \in Resetters |-> 0]

-----------------------------------------------------------------------------
(* PeriodBounds: the first day of the period of day d, and the first one after it. *)

\* time.Weekday: Sunday is 0.
Weekday(d) == d % 7

\* Mutant: a Sunday counts as the day before Monday.
WeekStart_Sunday(d) == d - Weekday(d) + 1

\* Weeks start on Monday: a Sunday counts as day 7.
WeekStart(d) == d - (IF Weekday(d) = 0 THEN 7 ELSE Weekday(d)) + 1

PeriodBounds(period, d) ==
    IF period = "weekly" THEN [start |-> WeekStart(d), end |-> WeekStart(d) + 7]
    ELSE IF period = "monthly"
         THEN [start |-> Max({s \in MonthStarts : s <= d}),
               end |-> Min({s \in MonthStarts : s > d})]
         ELSE [start |-> d, end |-> d + 1]

\* What a report over the budget's own period adds up.
PeriodUsage ==
    LET b == PeriodBounds(Period, today)
    IN MapThenSumSet(LAMBDA d : usage[d], {d \in Days : b.start <= d /\ d < b.end})

-----------------------------------------------------------------------------
Become(h, j) == job' = [job EXCEPT ![h] = j]

Exceeded == spend >= Limit

\* CheckApplicable lets the request pass.
Admit(h) ==
    /\ job[h].pc = "idle" /\ arrivals < MaxRequests /\ ~Exceeded
    /\ arrivals' = arrivals + 1
    /\ Become(h, [pc |-> "upstream", cost |-> 0])
    /\ UNCHANGED <<spend, usage, today, reset, resets, due, since>>

\* The answer has a price: its record is stamped and stored.
Insert(h) ==
    /\ job[h].pc = "upstream"
    /\ \E c \in Costs :
          /\ usage' = [usage EXCEPT ![today] = @ + c]
          /\ Become(h, [pc |-> "charge", cost |-> c])
    /\ UNCHANGED <<spend, today, reset, arrivals, resets, due, since>>

\* UpdateBudgetSpend from RecordSpend; the period is not looked at.
Charge(h) ==
    LET c == job[h].cost IN
    /\ job[h].pc = "charge"
    /\ spend' = spend + c
    /\ Become(h, IdleJob)
    /\ due' = due + c /\ since' = [r \in Resetters |-> since[r] + c]
    /\ UNCHANGED <<usage, today, reset, arrivals, resets>>

\* No usage, or a statement fails: the request is over, and the budget as it was.
Drop(h) ==
    /\ \/ job[h].pc = "upstream"
       \/ job[h].pc = "charge" /\ MayFail
    /\ Become(h, IdleJob)
    /\ UNCHANGED <<spend, usage, today, reset, arrivals, resets, due, since>>

\* ResetBudgetSpend: GetBudget.
ResetRead(r) ==
    /\ reset[r].pc = "idle" /\ resets < MaxResets
    /\ resets' = resets + 1
    /\ reset' = [reset EXCEPT ![r] = [pc |-> "subtract", seen |-> spend]]
    /\ since' = [since EXCEPT ![r] = 0]
    /\ UNCHANGED <<spend, usage, today, job, arrivals, due>>

\* Mutant: the spend is set to zero.
ResetSubtract_ToZero(r) ==
    /\ reset[r].pc = "subtract"
    /\ spend' = 0
    /\ reset' = [reset EXCEPT ![r] = IdleReset]
    /\ due' = since[r]
    /\ UNCHANGED <<usage, today, job, arrivals, resets, since>>

\* UpdateBudgetSpend(-current_spend as it was read).
ResetSubtract(r) ==
    /\ reset[r].pc = "subtract"
    /\ spend' = spend - reset[r].seen
    /\ reset' = [reset EXCEPT ![r] = IdleReset]
    /\ due' = since[r]
    /\ UNCHANGED <<usage, today, job, arrivals, resets, since>>

\* Mutant: a subtraction that is reported as failed was made, and is made again.
ResetFails_Twice(r) ==
    /\ reset[r].pc = "subtract" /\ MayFail
    /\ spend' = spend - reset[r].seen
    /\ UNCHANGED <<usage, today, job, reset, arrivals, resets, due, since>>

ResetFails(r) ==
    /\ reset[r].pc = "subtract" /\ MayFail
    /\ reset' = [reset EXCEPT ![r] = IdleReset]
    /\ UNCHANGED <<spend, usage, today, job, arrivals, resets, due, since>>

\* Midnight.  Nothing in the program does anything at a period's end.
NextDay ==
    /\ today < LastDay
    /\ today' = today + 1
    /\ UNCHANGED <<spend, usage, job, reset, arrivals, resets, due, since>>

\* The last day lasts.
Quiet == today = LastDay /\ UNCHANGED vars

Next ==
    \/ \E h \in Handlers : Admit(h) \/ Insert(h) \/ Charge(h) \/ Drop(h)
    \/ \E r \in Resetters : ResetRead(r) \/ ResetSubtract(r) \/ ResetFails(r)
    \/ NextDay
    \/ Quiet

Spec == Init /\ [][Next]_vars

-----------------------------------------------------------------------------
(* Properties *)

\* ResetBudgetSpend reads the spend, and subtracts what it read (budget.go:171-178), while
\* requests are charged before, between and after: with one reset at a time, what is left is
\* exactly what has been charged since it read, however the two interleave and fail.
ResetKeepsCharges == spend = due

\* The windows of the reports (types.go:178-199), which the current time alone decides,
\* cover every day once: each holds the day it was made on, and from one day to the next
\* a report is of the same window or of the one that starts where the last one ends.
ReportsCoverEveryDay ==
    [][\A p \in Periods :
          LET old == PeriodBounds(p, today)
              new == PeriodBounds(p, today')
          IN /\ old.start <= today /\ today < old.end
             /\ new = old \/ new.start = old.end]_vars

\* What README.md:70 promises of a daily, weekly or monthly limit: a budget refuses requests
\* only when the usage of its present period has reached the limit.
RefusesWithinPeriod == Exceeded => PeriodUsage >= Limit
=============================================================================
