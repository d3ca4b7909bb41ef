---------------------------- MODULE UsageReports ----------------------------
(***************************************************************************)
(* What GET /metrics and GET /api/v1/summary put together while usage is   *)
(* being recorded.  A summary is five SELECTs (SQLite.AggregateUsage), and *)
(* /metrics adds a sixth (SQLite.QueryUsage); each one is a snapshot of    *)
(* its own, no transaction holds them together, and rows arrive between    *)
(* them.  Rows are only ever added, but `lcg track' takes any whole number *)
(* of tokens, so that the cost of a row may be negative.                   *)
(*                                                                         *)
(* GET /api/v1/recommendations is one SELECT (SQLite.QueryUsage) and a     *)
(* calculation with the prices the process has loaded.  Prices change when *)
(* the files do and the process is started again; the rows keep what they  *)
(* cost.  All rows are of the last thirty days.                            *)
(***************************************************************************)
EXTENDS ModelAdvice, Totals

CONSTANTS Labels,      \* combinations of tenant, provider, model and project in use
          Calls,       \* the calls there may be: a label and the tokens of one call
          Files,       \* the pricing files at the start
          Releases,    \* those that may be released later
          Readers,     \* clients of the three endpoints
          Filters, Everyone, \* tenant filters, and the empty one of an admin
          MaxRows      \* TLC bound on the rows recorded

Endpoints == {"metrics", "summary", "recommendations"}
Fields == {"tenant", "provider", "model", "project"}

Tokens == [in : Int, out : Int]

ASSUME CallsAssumption == Calls \subseteq [label : Labels, in : Int, out : Int]
ASSUME LabelsAssumption ==
    IsFiniteSet(Labels) /\ \A l \in Labels : DOMAIN l = Fields /\ l.tenant # Everyone
ASSUME FiltersAssumption == Everyone \in Filters
ASSUME ReleasesAssumption ==
    Starts(Files) /\ \A files \in Releases \cup {Files} : \A i \in DOMAIN files : files[i].models \in Seq(ModelPricing)

VARIABLES
    rows,   \* usage_records: how many rows, by label
    tokens, \* usage_records: their tokens, by label
    spent,  \* usage_records: their cost, by label
    registry, \* the prices the process has loaded
    report, \* per reader, the request being answered
    shown,  \* history: the counters /metrics last showed, by reader and filter; of these
            \* and of a report under way, `cut' is the labels with which a row of
            \* negative cost has been recorded since the request came in
    calm,   \* history: readers during whose report nothing has been recorded
    dated   \* history: whether prices have changed since the first row

usage == <<rows, tokens, spent>>
prices == <<registry, dated>>
vars == <<usage, prices, report, shown, calm>>

\* The statements of one report, in the order of the code.
Summary == <<"totals", "tenant", "provider", "model", "project">>

\* Mutant: handleMetrics fetches the records before the summary.
Plan_RecordsFirst(endpoint) ==
    CASE endpoint = "metrics" -> <<"records">> \o Summary
      [] endpoint = "summary" -> Summary
      [] OTHER -> <<"advice">>

Plan(endpoint) ==
    CASE endpoint = "metrics" -> Summary \o <<"records">>
      [] endpoint = "summary" -> Summary
      [] OTHER -> <<"advice">>

Nothing == [l \in Labels |-> 0]
Blank == [busy |-> FALSE, endpoint |-> "summary", filter |-> Everyone, todo |-> <<>>,
          count |-> 0, cost |-> 0, by |-> [f \in Fields |-> <<>>],
          lineRows |-> Nothing, lineCost |-> Nothing, advice |-> <<>>, cut |-> {}]

\* The counters of a /metrics answer.
Counters(s) == [count |-> s.count, cost |-> s.cost, lineRows |-> s.lineRows,
                lineCost |-> s.lineCost, cut |-> s.cut]

Sum(f) == Total(f, DOMAIN f)

Init ==
    /\ rows = Nothing /\ spent = Nothing /\ tokens = [l \in Labels |-> [in |-> 0, out |-> 0]]
    /\ registry = NewRegistry(Files) /\ dated = FALSE
    /\ report = [r \in Readers |-> Blank]
    /\ shown = [r \in Readers |-> [x \in Filters |-> Counters(Blank)]]
    /\ calm = {}

-----------------------------------------------------------------------------
Own(l) == [provider |-> l.provider, model |-> l.model]

\* What RecommendModels may make of the rows of a label, had model `own` served them.
Advice(l, own) == RecommendModels(registry, own, rows[l], tokens[l].in, tokens[l].out)

\* The labels a filter lets through, and the rows a reader's queries select: JOIN tenants,
\* WHERE slug = filter.
Passes(x) == {l \in Labels : x \in {l.tenant, Everyone}}
Selected(r) == {l \in Passes(report[r].filter) : rows[l] > 0}

\* The history, with a row of that cost.
Noted(s, l, cost) == [s EXCEPT !.cut = IF cost < 0 THEN @ \cup {l} ELSE @]

\* TrackWithTokens: Calculate, an error if the model has no price, and RecordUsage's first
\* statement, from any handler or from `lcg track'.
Insert(call) ==
    LET l == call.label
        cost == Calculate(registry, l.provider, l.model, call.in, call.out)
    IN
    /\ Sum(rows) < MaxRows
    /\ SupportsModel(registry, l.provider, l.model)
    /\ rows' = [rows EXCEPT ![l] = @ + 1]
    /\ tokens' = [tokens EXCEPT ![l] = [in |-> @.in + call.in, out |-> @.out + call.out]]
    /\ spent' = [spent EXCEPT ![l] = @ + cost]
    /\ report' = [r \in Readers |-> Noted(report[r], l, cost)]
    /\ shown' = [r \in Readers |-> [x \in Filters |-> Noted(shown[r][x], l, cost)]]
    /\ calm' = {}
    /\ UNCHANGED prices

Begin(r) ==
    /\ ~report[r].busy
    /\ \E e \in Endpoints, x \in Filters :
          report' = [report EXCEPT ![r] = [Blank EXCEPT !.busy = TRUE, !.endpoint = e,
                                                        !.filter = x, !.todo = Plan(e)]]
    /\ calm' = calm \cup {r}
    /\ UNCHANGED <<usage, prices, shown>>

Doing(r, step) == report[r].busy /\ report[r].todo # <<>> /\ Head(report[r].todo) = step

\* Mutant: the totals count from the last scrape on.
ReadTotals_SinceLast(r) ==
    /\ Doing(r, "totals")
    /\ report' = [report EXCEPT ![r].count = Total(rows, Selected(r)) - shown[r][report[r].filter].count,
                                ![r].cost = Total(spent, Selected(r)) - shown[r][report[r].filter].cost,
                                ![r].todo = Tail(@)]
    /\ UNCHANGED <<usage, prices, shown, calm>>

\* COALESCE(SUM(cost_usd), 0), COUNT(*)
ReadTotals(r) ==
    /\ Doing(r, "totals")
    /\ report' = [report EXCEPT ![r].count = Total(rows, Selected(r)),
                                ![r].cost = Total(spent, Selected(r)),
                                ![r].todo = Tail(@)]
    /\ UNCHANGED <<usage, prices, shown, calm>>

\* Mutant: the WHERE clause is left out of the grouped query.
GroupedBy_Unfiltered(r, f) ==
    LET all == {l \in Labels : rows[l] > 0} IN
    [v \in {l[f] : l \in all} |-> Total(spent, {l \in all : l[f] = v})]

\* SELECT f, COALESCE(SUM(cost_usd), 0) ... GROUP BY f
GroupedBy(r, f) ==
    [v \in {l[f] : l \in Selected(r)} |-> Total(spent, {l \in Selected(r) : l[f] = v})]

ReadField(r) ==
    /\ \E f \in Fields :
          /\ Doing(r, f)
          /\ report' = [report EXCEPT ![r].by[f] = GroupedBy(r, f), ![r].todo = Tail(@)]
    /\ UNCHANGED <<usage, prices, shown, calm>>

\* QueryUsage, and the grouping renderPrometheusMetrics does of its rows.
ReadRecords(r) ==
    /\ Doing(r, "records")
    /\ report' = [report EXCEPT ![r].lineRows = [l \in Labels |-> IF l \in Selected(r) THEN rows[l] ELSE 0],
                                ![r].lineCost = [l \in Labels |-> IF l \in Selected(r) THEN spent[l] ELSE 0],
                                ![r].todo = Tail(@)]
    /\ UNCHANGED <<usage, prices, shown, calm>>

\* handleRecommendations: QueryUsage, and RecommendModels for every group of the rows, the
\* providers looked through in one order for each.
ReadAdvice(r) ==
    /\ Doing(r, "advice")
    /\ \E advice \in [Selected(r) -> UNION {Advice(l, Own(l)) : l \in Selected(r)}] :
          /\ \A l \in Selected(r) : advice[l] \in Advice(l, Own(l))
          /\ report' = [report EXCEPT ![r].advice = advice, ![r].todo = Tail(@)]
    /\ UNCHANGED <<usage, prices, shown, calm>>

Complete(r) == report[r].busy /\ report[r].todo = <<>>

Reply(r) ==
    /\ Complete(r)
    /\ report' = [report EXCEPT ![r] = Blank]
    /\ shown' = IF report[r].endpoint = "metrics"
                THEN [shown EXCEPT ![r][report[r].filter] = Counters(report[r])]
                ELSE shown
    /\ calm' = calm \ {r}
    /\ UNCHANGED <<usage, prices>>

\* Ten seconds are over, the client has gone, or a statement failed: a 500 and no numbers.
GiveUp(r) ==
    /\ report[r].busy /\ ~Complete(r)
    /\ report' = [report EXCEPT ![r] = Blank]
    /\ calm' = calm \ {r}
    /\ UNCHANGED <<usage, prices, shown>>

\* The process ends, with every report it was making, and starts again on new files; it
\* does not start on files with an error.
Restart ==
    /\ \E files \in Releases : Starts(files) /\ registry' = NewRegistry(files)
    /\ registry' # registry
    /\ dated' = (dated \/ Sum(rows) > 0)
    /\ report' = [r \in Readers |-> Blank] /\ calm' = {}
    /\ UNCHANGED <<usage, shown>>

Next ==
    \/ \E call \in Calls : Insert(call)
    \/ Restart
    \/ \E r \in Readers : Begin(r) \/ ReadTotals(r) \/ ReadField(r) \/ ReadRecords(r) \/ ReadAdvice(r)
                          \/ Reply(r) \/ GiveUp(r)

Spec == Init /\ [][Next]_vars

-----------------------------------------------------------------------------
(* Properties *)

AreCounters(s) ==
    /\ s.count \in Nat /\ s.cost \in Int
    /\ s.lineRows \in [Labels -> Nat] /\ s.lineCost \in [Labels -> Int]
    /\ s.cut \in SUBSET Labels

TypeOK ==
    /\ rows \in [Labels -> Nat] /\ tokens \in [Labels -> Tokens] /\ spent \in [Labels -> Int]
    /\ DOMAIN registry \subseteq Supported /\ dated \in BOOLEAN
    /\ \A p \in DOMAIN registry : registry[p] \in Seq(ModelPricing) \ {<<>>}
    /\ \A r \in Readers :
          /\ report[r].busy \in BOOLEAN
          /\ report[r].endpoint \in Endpoints /\ report[r].filter \in Filters
          /\ AreCounters(report[r])
          /\ \A l \in DOMAIN report[r].advice :
                l \in Labels /\ report[r].advice[l].savings \in Nat
          /\ \A f \in Fields : \A v \in DOMAIN report[r].by[f] : report[r].by[f][v] \in Int
          /\ \A x \in Filters : AreCounters(shown[r][x])
    /\ calm \subseteq Readers

\* No row of negative cost that the filter lets through has been recorded since.
Uncut(s, x) == s.cut \cap Passes(x) = {}

\* The parts of one reply are of different moments (sqlite.go:134-160, server.go:117-129),
\* and always of moments in this order: a later part never counts fewer requests than an
\* earlier one, nor does it show less cost, unless a row of negative cost that the filter lets
\* through was recorded since the request came in.  None shows more than is stored.  The
\* labelled series of /metrics, summed up, never fall behind its totals.
PartsInOrder ==
    \A r \in Readers : Complete(r) =>
        LET s == report[r] IN
        /\ s.endpoint = "metrics" => s.count <= Sum(s.lineRows)
        /\ Uncut(s, s.filter) =>
              /\ s.cost <= Sum(s.by.tenant)
              /\ Sum(s.by.tenant) <= Sum(s.by.provider)
              /\ Sum(s.by.provider) <= Sum(s.by.model)
              /\ Sum(s.by.model) <= Sum(s.by.project)
              /\ s.endpoint # "recommendations" => Sum(s.by.project) <= Total(spent, Selected(r))
              /\ s.endpoint = "metrics" =>
                    /\ Sum(s.by.project) <= Sum(s.lineCost)
                    /\ Sum(s.lineCost) <= Total(spent, Selected(r))

\* The six statements filter and group alike: a reply during which nothing was recorded
\* agrees with itself in every breakdown.
CalmReplyAgrees ==
    \A r \in calm : Complete(r) =>
        LET s == report[r] IN
        /\ \A f \in Fields : Sum(s.by[f]) = s.cost
        /\ s.endpoint = "metrics" =>
              /\ Sum(s.lineCost) = s.cost /\ Sum(s.lineRows) = s.count
              /\ \A f \in Fields : \A v \in DOMAIN s.by[f] :
                    s.by[f][v] = Total(s.lineCost, {l \in Labels : l[f] = v})

\* What metrics.go:28-44 declares as counters are counters, as far as the rows allow.  From one
\* scrape to the next no count of requests goes down, in all or of a labelled series, which
\* Prometheus would take for a restart.  A cost does only when its rows do: a series after a
\* call of its own that `lcg track' recorded with negative tokens (track.go:36-37,
\* cost.go:40), the total after such a call of any label the filter lets through, and neither
\* for a call recorded before the earlier scrape came in.
CountersOnlyGrow ==
    \A r \in Readers : Complete(r) /\ report[r].endpoint = "metrics" =>
        LET now == report[r]
            before == shown[r][now.filter]
        IN
        /\ before.count <= now.count /\ \A l \in Labels : before.lineRows[l] <= now.lineRows[l]
        /\ Uncut(before, now.filter) => before.cost <= now.cost
        /\ \A l \in Labels \ before.cut : before.lineCost[l] <= now.lineCost[l]

\* What the tokens of a label's rows would cost with a model, at the loaded prices.
PaidWith(l, model) ==
    Calculate(registry, model.provider, model.model, tokens[l].in, tokens[l].out)
NotDearer(m, n) ==
    LET p == PricePerToken(registry, m.provider, m.model)
        q == PricePerToken(registry, n.provider, n.model)
    IN p.in <= q.in /\ p.out <= q.out

\* Readers whose answer is about the rows as they are.
Advised == {r \in calm : Complete(r) /\ report[r].endpoint = "recommendations"}

\* RecommendModels averages tokens in whole numbers, prices the average and multiplies
\* again (intelligence.go:244-279).  However much that rounds away, it never promises what
\* cannot be had: a saving is positive and the same in every order of the registry's map.
\* Unless the tokens of the rows add up to a negative number, it is at most what the rows
\* would cost now and, while prices are what they were, at most what they did cost; and with a
\* suggestion that is not dearer for either kind of token the same calls would have saved as
\* much.
AdviceSaves ==
    \A r \in Advised : \A l \in DOMAIN report[r].advice :
        LET a == report[r].advice[l] IN
        a.to # Own(l) =>
            /\ a.savings > 0 /\ \A b \in Advice(l, Own(l)) : b.savings = a.savings
            /\ tokens[l].in >= 0 /\ tokens[l].out >= 0 =>
                  /\ a.savings <= PaidWith(l, Own(l)) /\ (~dated => a.savings <= spent[l])
                  /\ NotDearer(a.to, Own(l)) => a.savings <= PaidWith(l, Own(l)) - PaidWith(l, a.to)

\* Whoever follows a recommendation with the same calls is not sent on, or back, to another
\* model, whichever order the providers are looked through in (registry.go:55-66).
AdviceSettles ==
    \A r \in Advised : \A l \in DOMAIN report[r].advice :
        LET to == report[r].advice[l].to IN
        to # Own(l) => \A b \in Advice(l, to) : b.to = to
=============================================================================
