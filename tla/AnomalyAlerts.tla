--------------------------- MODULE AnomalyAlerts ---------------------------
(***************************************************************************)
(* The last step of Track and TrackWithTokens: maybeSendAnomalyAlert runs  *)
(* DetectAnomalies over the daily rollups of the record's tenant, provider *)
(* and model, and tells the notifiers when the first anomaly is critical.  *)
(* Recorders run side by side, in the proxy's handlers and in `lcg track`  *)
(* processes, and the days change under them.                              *)
(*                                                                         *)
(* One tenant, provider and model: the query fixes all three, and leaves   *)
(* only the project open, for a record without one.  Costs are whole       *)
(* numbers, and the mean and the standard deviation of a series are        *)
(* compared by cross-multiplication.  At least one notifier is configured. *)
(***************************************************************************)
EXTENDS Integers, FiniteSets, FiniteSetsExt

CONSTANTS Projects,    \* the non-empty project names
          NoProject,   \* the empty project
          Recorders,   \* concurrent calls of Track and TrackWithTokens
          Costs,       \* what one request may cost
          Histories,   \* the rollups there may be at the start: by series, cost by day
          FirstDay,    \* today, at the start
          MayFail,     \* whether a query or a context may fail
          LastDay, MaxRecords \* TLC bounds

Series == Projects \cup {NoProject}

AreCosts(f) ==
    /\ DOMAIN f = Series
    /\ \A s \in Series : DOMAIN f[s] \subseteq 0..LastDay /\ \A d \in DOMAIN f[s] : f[s][d] \in Nat

ASSUME SeriesAssumption == NoProject \notin Projects
ASSUME CostsAssumption == Costs \subseteq Nat
ASSUME HistoryAssumption == \A f \in Histories : AreCosts(f)
ASSUME BoundsAssumption == LastDay \in Nat /\ FirstDay \in 0..LastDay /\ MaxRecords \in Nat
ASSUME SwitchAssumption == MayFail \in BOOLEAN

VARIABLES
    spend,   \* usage_rollups, the daily rows: by series, cost by day
    today,
    job,     \* what each recorder is doing
    records, \* records so far, for MaxRecords
    \* History, read by the properties only:
    alerted, \* series an alert has been attempted for since their rollups last changed
    unseen   \* queries (a project, or NoProject for all) whose rows have changed since
             \* a recorder last made them, or was about to

vars == <<spend, today, job, records, alerted, unseen>>

PCs == {"idle", "daily", "check", "notify"}
Job == [pc : PCs, series : Series, day : 0..LastDay, cost : Nat, target : Series]
IdleJob == [pc |-> "idle", series |-> NoProject, day |-> 0, cost |-> 0, target |-> NoProject]

TypeOK ==
    /\ AreCosts(spend) /\ today \in 0..LastDay
    /\ job \in [Recorders -> Job] /\ records \in 0..MaxRecords
    /\ alerted \subseteq Series /\ unseen \subseteq Series

Init ==
    /\ spend \in Histories /\ today = FirstDay
    /\ job = [w \in Recorders |-> IdleJob] /\ records = 0
    /\ alerted = {} /\ unseen = Series

-----------------------------------------------------------------------------
(* DetectAnomalies *)

\* analyticsWindow without bounds of the caller: from thirty days before this time tomorrow,
\* so the first midnight in it is that of 28 days ago.
DaysOf(costs, now) == DOMAIN costs \cap (now - 28)..now

\* The verdict on a day that cost x after n others with that sum and that sum of squares.
\* Mean = sum / n, variance = (n * squares - sum * sum) / (n * (n - 1)).  A day without cost
\* after days without cost, which the code skips, meets none of the tests.
Verdict(x, n, sum, squares) ==
    LET excess == n * x - sum
        spread == n * squares - sum * sum
        Deviates(z) == /\ spread > 0 /\ excess >= 0
                       /\ excess * excess * (n - 1) >= z * z * n * spread
    IN IF n * x > 3 * sum THEN "critical"
       ELSE IF n * x > 2 * sum THEN "warning"
       ELSE IF Deviates(3) THEN "critical"
       ELSE IF Deviates(2) THEN "warning"
       ELSE "none"

\* The last day that has a row, which need not be today, against the days before it.
SeverityOf(costs, now) ==
    LET days == DaysOf(costs, now)
        baseline == days \ {Max(days)}
    IN IF Cardinality(days) < 7 THEN "none"
       ELSE Verdict(costs[Max(days)], Cardinality(baseline),
                    MapThenSumSet(LAMBDA d : costs[d], baseline),
                    MapThenSumSet(LAMBDA d : costs[d] * costs[d], baseline))

Severity(s) == SeverityOf(spend[s], today)
Observed(s) == spend[s][Max(DaysOf(spend[s], today))]

\* The series a record's query spans: filter.Project = "" filters nothing.
Queried(series) == IF series = NoProject THEN Series ELSE {series}

Anomalies(series) == {s \in Queried(series) : Severity(s) # "none"}

\* The sort: by severity as a string, descending, and then by cost.
Before(s, t) ==
    \/ Severity(s) = "warning" /\ Severity(t) = "critical"
    \/ Severity(s) = Severity(t) /\ Observed(s) > Observed(t)

\* What may come first in the sorted list: of equals any one, as the list is built from a
\* map and the sort is not stable.
Firsts(series) ==
    {s \in Anomalies(series) : \A t \in Anomalies(series) : ~Before(t, s)}

-----------------------------------------------------------------------------
Become(w, j) == job' = [job EXCEPT ![w] = j]

\* A priced request, stamped with the present time, up to its hourly rollup.
Begin(w) ==
    /\ job[w].pc = "idle" /\ records < MaxRecords
    /\ records' = records + 1
    /\ \E s \in Series, c \in Costs :
          Become(w, [IdleJob EXCEPT !.pc = "daily", !.series = s, !.day = today, !.cost = c])
    /\ UNCHANGED <<spend, today, alerted, unseen>>

WithCost(costs, day, c) ==
    [d \in DOMAIN costs \cup {day} |-> (IF d \in DOMAIN costs THEN costs[d] ELSE 0)
                                        + (IF d = day THEN c ELSE 0)]

\* Mutant: anomalies are looked for before the day's rollup has the record.
RollDaily_AfterCheck(w) ==
    LET s == job[w].series
        critical == {t \in Firsts(s) : Severity(t) = "critical"}
    IN
    /\ job[w].pc = "daily"
    /\ spend' = [spend EXCEPT ![s] = WithCost(@, job[w].day, job[w].cost)]
    /\ IF critical = {}
       THEN Become(w, IdleJob)
       ELSE \E t \in critical : Become(w, [job[w] EXCEPT !.pc = "notify", !.target = t])
    /\ alerted' = alerted \ {s}
    /\ unseen' = (IF s = NoProject THEN unseen ELSE unseen \cup {NoProject}) \ {s}
    /\ UNCHANGED <<today, records>>

\* recordUsageRollup for the record's own day, which may be over by now.
RollDaily(w) ==
    LET s == job[w].series IN
    /\ job[w].pc = "daily"
    /\ spend' = [spend EXCEPT ![s] = WithCost(@, job[w].day, job[w].cost)]
    /\ Become(w, [job[w] EXCEPT !.pc = "check"])
    /\ alerted' = alerted \ {s}
    /\ unseen' = IF s = NoProject THEN unseen ELSE unseen \cup {NoProject}
    /\ UNCHANGED <<today, records>>

\* A statement of RecordUsage fails, and TrackWithTokens returns before the rest.
RecordFails(w) ==
    /\ job[w].pc = "daily" /\ MayFail
    /\ Become(w, IdleJob)
    /\ UNCHANGED <<spend, today, records, alerted, unseen>>

\* Mutant: neither the emptiness of the list nor the severity is tested.
Check_Untested(w) ==
    LET s == job[w].series IN
    /\ job[w].pc = "check"
    /\ \E t \in IF Firsts(s) = {} THEN {"none"} ELSE Firsts(s) :
          Become(w, [job[w] EXCEPT !.pc = "notify", !.target = t])
    /\ unseen' = unseen \ {s}
    /\ UNCHANGED <<spend, today, records, alerted>>

\* The query, and the test of the first anomaly, if there is one.
Check(w) ==
    LET s == job[w].series IN
    /\ job[w].pc = "check"
    /\ \/ Anomalies(s) = {} /\ Become(w, IdleJob)
       \/ \E t \in Firsts(s) :
             Become(w, IF Severity(t) = "critical"
                       THEN [job[w] EXCEPT !.pc = "notify", !.target = t] ELSE IdleJob)
    /\ unseen' = unseen \ {s}
    /\ UNCHANGED <<spend, today, records, alerted>>

\* The query fails, or the record's context is over: nothing is sent, nothing is logged.
CheckFails(w) ==
    /\ job[w].pc = "check" /\ MayFail
    /\ Become(w, IdleJob)
    /\ unseen' = unseen \cup {job[w].series}
    /\ UNCHANGED <<spend, today, records, alerted>>

\* Every notifier's Send, one after the other; a failed delivery is only logged.
Notify(w) ==
    /\ job[w].pc = "notify"
    /\ Become(w, IdleJob)
    /\ alerted' = alerted \cup {job[w].target}
    /\ UNCHANGED <<spend, today, records, unseen>>

Record(w) ==
    Begin(w) \/ RollDaily(w) \/ RecordFails(w) \/ Check(w) \/ CheckFails(w) \/ Notify(w)

\* Midnight: the oldest day leaves the window.
NextDay ==
    /\ today < LastDay
    /\ today' = today + 1
    /\ alerted' = {} /\ unseen' = Series
    /\ UNCHANGED <<spend, job, records>>

\* No traffic: the program waits.
Quiet == (\A w \in Recorders : job[w].pc = "idle") /\ UNCHANGED vars

Next == (\E w \in Recorders : Record(w)) \/ NextDay \/ Quiet

Spec == Init /\ [][Next]_vars

-----------------------------------------------------------------------------
(* Properties *)

\* A recorder that will attempt an alert for query c, if one is due, or is about to send one
\* that is still to the point.
Checking(w, c) ==
    /\ job[w].series = c
    /\ \/ job[w].pc = "check"
       \/ job[w].pc = "notify" /\ job[w].target \in Anomalies(c)

\* Every recorder looks at the rollups after it has written its own (usage.go:102-109), so
\* however their steps interleave, and although more spend can turn a critical day into one
\* that only warns, a critical day is not passed over: when the rows of a project, or of all
\* of them together for records that have none, show critical anomalies and no warning, an
\* alert about one of them has been attempted since its rows changed, or somebody is about
\* to, unless nobody has made that query since it would have answered otherwise.  The
\* condition on warnings is what the order of the list (intelligence.go:122-127) costs.
CriticalDayIsAlerted ==
    \A c \in Series \ unseen :
        /\ Anomalies(c) # {}
        /\ \A s \in Anomalies(c) : Severity(s) = "critical"
        => \/ Anomalies(c) \cap alerted # {}
           \/ \E w \in Recorders : Checking(w, c)
=============================================================================
