# LLM Cost Guardian in TLA+

A specification of the parts of LLM Cost Guardian that are hard to test: what its concurrent
handlers, commands and processes do to the one SQLite file they share, how a proxied answer is
accounted for, and how the process starts and stops. TLC checks the modules on small instances;
TLAPS proves every safety property of the passing runs, and that the spend pipeline
implements an abstract ledger, for every value of the constants.

1. [The system](#1-the-system) 2. [Modules](#2-modules) 3. [Runs](#3-runs)
4. [Proofs](#4-proofs) 5. [Where code and documents disagree](#5-where-code-and-documents-disagree)
6. [Not modelled](#6-not-modelled)

## 1. The system

One program in three shapes: `guardian` and `lcg proxy start` run an HTTP service, and every other
`lcg` command is a short-lived process. All of them open the same SQLite file. There is no lock,
no queue and no cache above it: **every SQL statement is a transaction of its own, and outside the
migrations nothing holds two of them together.** That is the fact most properties here are about.

| Part | State it keeps | Operations | Talks to |
|---|---|---|---|
| Proxy handler (`internal/proxy/handler.go`) | per request: tenant, project, provider | admit or deny, forward, capture, record, reply | tracker (calls), upstream (HTTP) |
| Streaming capture (`internal/proxy/stream.go`) | per stream: pending line, event, kept text, largest counts, `sync.Once` | `Read`, `Close`, `Append`, `Finalize`, record | the reverse proxy's copy loop (callbacks), tracker |
| Usage extraction (`internal/proxy/extractor.go`) | none | `ExtractRequestInfo`, `ExtractResponseUsage`, and the search of any document | handler, stream parser |
| Usage tracker (`pkg/tracker/usage.go`) | none | `Track`, `TrackWithTokens`, `CheckBudgetForProject`, `Report`, `Query` | storage, budget manager |
| Budget manager (`pkg/tracker/budget.go`) | none of its own; table `budgets` | `CheckApplicable`, `RecordSpend`, `checkThresholds`, `ResetBudgetSpend` | storage, notifiers |
| Analytics (`pkg/tracker/intelligence.go`) | none | anomalies, forecast, recommendations | storage (reads), notifiers |
| Storage (`pkg/storage/sqlite.go`) | tables `usage_records`, `usage_rollups`, `budgets`, `tenants`, `api_keys` | one method per operation, one to four statements each | SQLite |
| Migrations (`pkg/storage/migrations.go`) | table `schema_migrations` | `runMigrations` | SQLite |
| Auth middleware (`internal/httpauth`) | none; the identity goes into the request's context | `authenticate` | storage |
| API server (`internal/server`) | none | `/metrics`, `/api/v1/*` | tracker |
| Service (`internal/bootstrap`, `cmd/guardian`) | listener, `errCh`, signal context, store handle | `NewService`, `Run`, `Close` | all of the above |
| CLI (`internal/cli`) | none | `track`, `budget`, `tenants`, `api-keys`, reports | tracker, storage |
| Notifiers (`pkg/alerts`) | none | `Send` | Slack, webhooks |
| Pricing and providers (`pkg/providers`) | the registry, filled at the start | `Register`, `All`, `PricePerToken` | tracker, analytics |
| Tokenizer, config | read once, then constant | lookups | – |

What makes each part correct, and what makes that hard:

- **Spend.** A budget may be overrun only by what was admitted together; nobody is charged twice,
  for somebody else, or for usage that is not stored; a threshold crossing is alerted. Hard because
  check and charge are minutes apart, recorders interleave between update and re-read, `lcg track`
  and `lcg budget set` come in from other processes, and any statement may fail.
- **Capture.** Every exchange is offered to the tracker once, with the counts of all that was read.
  Hard because the network cuts a stream anywhere, its end is seen by `Read` with data, by `Read` alone
  or by `Close`, and the client, the upstream and the write deadline break it off anywhere.
- **Extraction.** The same document gives the same counts. Hard because five layouts fall back to a
  search of the whole document, in the order Go's maps happen to have.
- **Tenants.** A key acts for its tenant only, and what an operator ended stays ended. Hard because
  identities pass from id to slug to id across several statements, and tenants are created on demand.
- **Anomalies.** A critical day is alerted by somebody. Hard because every recorder looks for itself, at
  rows that others are changing, and only the first anomaly of a sorted list counts.
- **Periods.** A reset of a budget loses no concurrent charge, and the windows of the reports leave no day
  out. Hard because a reset reads and then subtracts, and because weeks, months and Sundays are irregular.
- **Reports.** The parts of an answer are snapshots of different moments.
- **Advice.** A saving that is promised can be had, and advice that is followed is not taken back. Hard
  because of averages in whole numbers, equal prices, prices that change under stored costs, and an order
  that is a map's.
- **Start.** Processes migrate one file together and die half-way.
- **Stop.** The store is closed while handlers may still be recording.

`PROJECT.json` lists the hazards at their lines with the properties that cover them.

## 2. Modules

| Module | Models | EXTENDS |
|---|---|---|
| `BudgetScope` | which budgets apply, when one is exceeded, the alert level: the state-free half of `budget.go` | – |
| `Totals` | the sum of a function over a finite set, SQL's `SUM` | – |
| `SpendLedger` | abstract: what recording spend promises, whoever does it in however many statements | `BudgetScope` |
| `SpendPipeline` | admission, recording, rollups, charging and alerting by handlers and `lcg track`, with `lcg budget set` | `BudgetScope`, `Totals` |
| `SpendRefinement` | the mapping from the pipeline's jobs to the ledger's accounts | `SpendPipeline`; `INSTANCE SpendLedger` |
| `StreamParser` | `streamParser`: lines, events, pending bytes, caps, merge and estimates | – |
| `UsageExtraction` | JSON documents: the providers' layouts, the search, the text | `StreamParser` |
| `DocumentCapture` | extraction and capture together: an answer's documents, read again in another order | `ResponseCapture`, `UsageExtraction` |
| `ResponseCapture` | one exchange from the upstream's answer to the end of its handler | `StreamParser`, `Totals` |
| `TenantAccess` | tenants, keys, identities, and whose usage is stored and shown | – |
| `Migrations` | `NewSQLite` and `runMigrations` by several processes | – |
| `ModelAdvice` | pricing files, the registry, the cost of a call, `RecommendModels` | – |
| `UsageReports` | summaries, metrics and recommendations read while usage is recorded and prices change | `ModelAdvice`, `Totals` |
| `ServiceLifecycle` | `Run`, `Close` and exit beside the Serve goroutine and the handlers | – |
| `AnomalyAlerts` | the search for anomalies at the end of a recording, by several recorders, across midnight | – |
| `BudgetPeriods` | a budget's spend and its reset against the period it is meant for, and the periods of the reports | – |
| `MC*` | small instances for TLC | the modules |
| `TotalsProofs` | lemmas on sums, folds, joined sequences and induction, which the other proofs cite | `Totals`, `TLAPS` |
| `SpendPipelineProofs` | theorems on the pipeline and its refinement | `SpendRefinement`, `TotalsProofs` |
| `ResponseCaptureProofs` | theorems on capture and extraction | `DocumentCapture`, `TotalsProofs` |
| `UsageReportsProofs` | theorems | the module, `TotalsProofs` |
| `AnomalyAlertsProofs`, `BudgetPeriodsProofs`, `TenantAccessProofs` | theorems | the module, `TLAPS` |
| `ServiceProofs` | theorems on starting and stopping | `Migrations`, `ServiceLifecycle`, `TLAPS` |

**`SpendPipeline`.** `job[w]` is a goroutine's local state; `pc` names its next statement. Rows
of `usage_records` and `usage_rollups` are summed per tenant and project: no code path reads or
deletes a single row. `RecordUsage` is `InsertRow`, `RollHourly`, `RollDaily`; `RecordSpend` is
`ListApplicable`, then per budget, in the order of the list, `ChargeBudget`, `Reread`, `Notify`. Every
statement has its failing twin, which does what the code does with the error: give up
(`RecordFails`), skip the budget (`ChargeFails`), skip the check (`RereadFails`). `Disconnect`
cancels the request's context, after which every statement of the request fails and none
succeeds. If the client goes *while* a statement is committed, the statement is done and its caller is told
that it failed: `UnheardRow` and `UnheardCharge`, after which the code gives up or goes on to the next budget
as after a failure. The pre-check reads all budgets with one SELECT, so `Admit` and `Deny` are single
steps. Money is a natural number and percentages are compared by cross-multiplication; the code
uses floats, and rounding is outside the model. `allowance`, `sent`, `unseen`, `moved` and
`faulted` are history that no guard reads.

**`SpendLedger`** knows tables and, per worker, one account: opened past the pre-check, stored, billed to
the budgets that cover it at one moment, paid to each of them once or written off. `SpendRefinement` reads the
account off a job's `pc`: rollups, re-reads, alerts and disconnections are stutters. A row whose answer was
lost is stored and never billed (`StoreUnbilled`); a charge whose answer was lost is a payment like any other.

**`StreamParser`.** A line is two halves on the wire, with line feeds between lines: cuts inside a line,
before its line feed and between the lines of an event are all the cuts the parser tells apart. A document
is what `UsageExtraction` finds in it. The code bounds what it keeps in *bytes* (`stream.go:143`, `195`) and
bills an estimate of its *characters* (`stream.go:472`), so a text here has both, and the constant operator
`Runes(text, n)` says how many characters its first `n` bytes count as, those of a character cut in two one
each. `CutsWell` is all that is assumed of it. Of the answer's text the parser has `text` (characters) and
`textLen` (bytes); of the raw text `raw`, `rawLen` and `gap`, the white space at its end, which counts only if
something follows but takes room anyway. `whole` and `cut` are what `sanitizeChunk` makes of a line's halves, which
differ if they meet inside a character. What is abstracted: a text or half line neither begins nor ends with
white space, and a line feed is the only white space between them.

**`UsageExtraction`.** A JSON value is a tree of objects, arrays, numbers and strings; a string is a name
and a number of characters. `Values` is any set of JSON values with all their parts, `Depth` how deep each
of them is nested, and what walks a document is a recursive function on `Values`. `RecursiveUsage` is the set
of all reports that some order of the maps gives. `ResponseCapture` does not use this module: its documents
are any payloads. `DocumentCapture` extends both, and in the instances the payloads are what extraction
finds in the documents listed there.

**`ResponseCapture`.** `ReadChunk` takes any number of halves and feeds them to the parser. `ReverseProxy`,
`net/http`'s context and the transport are external and stand as the loop that reads, writes and closes, and
as the cancellation on a failed write. `FinishWith` is the `sync.Once`; recording runs on the handler's
goroutine, so the handler is in `track` meanwhile.

**`TenantAccess`.** A row is a tenant id with the credentials it was recorded on, so that ownership
can be stated. `GetTenant`, `InsertTenant`, `GetAgain` are `EnsureTenant`; `AuthKey` and `Touch`
are `ResolveAPIKey`. Keys are drawn by `lcg api-keys create` and then used by requests.

**`Migrations`.** A transaction is a process in `record` or `commit`, and holds SQLite's write
lock from its first write on. `Stop` is a crash or a normal end at any point and rolls back. The
database starts at any earlier version, with usage rows or without any (`rows`), and a process that is ready
stores some (`StoreUsage`). `Backfills` are the migrations that copy rows: for a timestamp as the driver writes it
(Go's `... +0000 UTC`) SQLite's `STRFTIME` is NULL and `bucket_start` is NOT NULL, so a backfill fails on any
row (`Bucketless`). `Stuck` is a file that has rows and a backfill to come.

**`UsageReports`.** `report[r].todo` is the list of statements still to run, in the order of the code. A row
costs what the loaded prices say when it is inserted. Tokens are any whole numbers: `lcg track` takes negative
ones (`track.go:36`), `Calculate` prices them and no column has a check, so a row's cost may be negative and sums
may fall. `Restart` starts the program on other pricing files,
and not on files it refuses; a recommendation is calculated from the rows and the prices of one moment, for
every order of the registry's map. `shown`, `calm`, `dated` and `cut` are history; `cut` is the labels with which
a row of negative cost has been recorded since a request came in.

**`ServiceLifecycle`.** `main` and `serve` are the two goroutines of `Run`, `errCh` their channel.
`http.Server.Shutdown` is taken as documented.

**`AnomalyAlerts`.** `spend` is the daily half of `usage_rollups` for one tenant, provider and model, which
the query fixes; a series is a project, or none. `Check` is `DetectAnomalies`, one SELECT and then pure
code, with the test of the first anomaly: `Verdict` compares mean and standard deviation by
cross-multiplication, and `Firsts` is what the sort may put first. The window holds today and the 28 days
before. `alerted` and `unseen` are history: the alerts attempted since a series last changed, and
the queries whose rows have changed since somebody made them.

**`BudgetPeriods`.** A day is a number, day 0 a Sunday, and the calendar is a set of first days of months.
`ResetRead` and `ResetSubtract` are the two statements of `ResetBudgetSpend`, which only a program that
embeds the package can call: for the program of this repository `Resetters` is empty, and `lifetime`
is checked so. `due` and `since` are history.

## 3. Runs

| Run | Instance | Question |
|---|---|---|
| `gate` | 1 budget, 2 handlers, 1 `lcg track`, 4 requests, 1 budget change, no failures | How far can a budget be overrun with `deny_on_exceed`, and can an alert get lost? |
| `ledger` | 2 budgets, 1 handler, 1 `lcg track`, 2 requests, 1 budget change, any statement may fail | What do rows, rollups and budgets have to do with each other, is the ledger implemented, and does every recording advance and end? |
| `capture` | 12 answers of up to 8 lines from 12 documents, 3 requests, 3 buffered bodies, every cut, every way to end | What is offered to the tracker, with which counts, and does the handler end? |
| `tenants` | 2 tenants, 2 keys, 1 request, 2 commands at a time, 5 in all | Does isolation hold while keys and tenants change? |
| `migrations` | 3 processes, 3 migrations, a file of any version, empty or not, no bound on restarts | Can a crash or a race spoil the database? |
| `reports` | 1 client, 2 filters, 3 labels of 2 tenants, 4 calls, one with negative tokens, 3 rows, 2 providers, 3 other releases of the pricing files | How far do the parts of an answer disagree, and is advice good? |
| `lifecycle` | 3 handlers | Does the process stop, and what does it lose? |
| `anomalies` | 2 recorders, 1 project and none, 4 records, one midnight, any query may fail | Can a critical day pass without an alert? |
| `resets` | 2 handlers, 1 resetter, 3 requests, 2 resets, 9 days, a weekly budget | Does a reset lose a charge, and do the reports leave a day out? |
| `lifetime` | 1 handler, 2 requests, 3 days, a daily budget, no resets | A statement of the documents that the code does not keep (section 5) |
| `abandoned_stream`, `partial_usage` | as `capture` | Statements of the documents that the code does not keep (section 5) |

What they show:

- `OvershootBound`: spend stays within the highest limit (or the spend the budget was re-scoped
  with), plus what `lcg track` added unchecked, plus one request per concurrent handler, less one
  unit. The bound is tight: two handlers admitted at 19 of 20 reach 57 = 20 - 1 + 2·19.
- `AlertNotMissed`: unless a re-read failed, an update's answer was lost or the budget was changed
  since, an alert of the level a budget stands at has been attempted or is about to be, however
  recorders interleave. It rests on the re-read after the update; with the row from the list an alert
  gets lost.
- `ChargesMatchUsage`: a budget is never charged more than the stored usage of its scope; less
  only after a failure, and a charge whose answer was lost is not made again. The converse does not
  hold: a failed rollup stores usage nobody is charged for.
- `RollupsMatchUsage`: usage ≥ hourly ≥ daily, series by series, and equal but for requests between
  the statements until something fails.
- `RecordingAdvances`: every step of a recording, failed or unheard, leaves less of it to do, and nobody
  else's step adds to it: the list of budgets is read once. With the budgets listed anew for each charge, a
  recording could go on for ever.
- `RecordingEnds`: a priced request is done with eventually.
- `LedgerImplemented`: for the tables, recording is one promise. It fixes what no single invariant does:
  the project and tenant a budget is charged for are those of the request that was admitted, the set of
  budgets is that of one listing, and each is charged the stored cost once or never, with a fault.
- `BilledOnce`: `Read` and `Close` may both come to finish, and the exchange is offered once.
- `BilledAsRead`: the counts billed are those of exactly the documents that were wholly read, told from
  the wire without the parser: a reference for `AppendChunk` and `Finalize` under every way to cut an answer.
  The text is what is in the first `MaxText` bytes of them all, in characters. Only the estimate from raw text
  depends on the cuts: between characters and bytes if all of it fits, and otherwise of something, and of no
  more than the bytes there were or there is room for.
- `TerminalUsageIsExact`: a terminal report that was read is billed exactly, whatever came before it.
- `MapOrderIsHarmless`: the order of a map does not change the counts a document reports, and changes the
  model only where a document names two, for all the providers' documents of the instance.
- `LeavingEndsTheHandler`: only the client bounds a handler's life.
- `EnsuredIsTheRow`, `UsageBelongsToKey`, `ReportsAreIsolated`, `DeadKeysAreRefused`, `EndsAreFinal`:
  isolation, with the one window the code has: a key that dies *after* its SELECT still serves.
- `LiveKeysResolve`: the converse. The join of keys and tenants finds a live key its one tenant, whatever races
  its tenant came out of.
- `VersionsMatchSchema`, `ReadyIsComplete`, `LoneStartSucceeds`: a process alone can always finish
  what others left, unless the file is `Stuck`: an earlier release's, with usage the third migration cannot copy,
  which every start is refused by (section 5). No crash or race makes a file stuck. Two processes that start
  *together* on an old file may refuse each other.
- `PartsInOrder`, `CalmReplyAgrees`, `CountersOnlyGrow`: later parts of an answer count at least what
  earlier ones do, and counts never fall from one scrape to the next. A cost does, and parts are out of order,
  only after a row of negative cost; the properties say after which one. In the instance both really happen.
- `AdviceSaves`: rounding the averages down makes the promised saving a lower bound. Against the money spent
  this holds as long as prices have not changed; against a suggestion that is dearer for one kind of token,
  it holds for the average call only, which is why the last part of the property has a condition. That a saving is
  positive holds of any rows; that it is no more than was paid needs token sums that are not negative.
- `AdviceSettles`: advice that was followed leads nowhere else. It rests on the strict comparison: with
  `<=`, two models of one price send the user back and forth as the map's order changes.
- `CleanExitLosesNothing`, `ReceiveFindsValue`, `StopEnds`: status 0 means nothing was lost;
  a drain that times out, or a listener that fails, loses requests and says so by its status.
  `Run` receives twice on different paths from a channel that is sent to once, and never waits for a value that
  was taken.
- `CriticalDayIsAlerted`: whoever looks last sees all that was written, so a critical day is not passed
  over, as long as no anomaly of the same query only warns. That condition is real: the list is
  sorted by severity as a string, "warning" comes before "critical", and only the first entry counts. A
  second oddity that the module shows and no document denies: a day three deviations above the mean is
  critical, and may become a mere warning when *more* is spent, at twice the mean.
- `ResetKeepsCharges`: one reset at a time takes away exactly what it read. Two at once can both subtract it.
- `ReportsCoverEveryDay`: each day, week and month starts where the last one ended.

**Bounds.** `MaxRequests`, `MaxSets`, `MaxBegun` and `MaxRows` bound arrivals only; no guard of the program
reads them. In `gate`, four requests let two handlers be admitted on one spend, a third charge come from `lcg
track`, and a further request meet the result. In `ledger`, two requests give every pair of statements a chance
to interleave, with failures and with a budget created or moved between any two of them. `capture` takes every
cut of answers that have a document over two data lines, two events without a blank line, a bare JSON line
without a line feed, text and raw text beyond `MaxText = 13` bytes (1 MiB in the program), with the cap inside a
two-byte character, no JSON at all, and no bytes; `MCRunes` spreads a text's bytes evenly over its characters.
Its documents are those of `handler_test.go` with some the tests leave out. `reports`' three rows are the fewest
that make an average round, a label recur and another tenant's row come between, or a row of negative cost
follow one that was shown; its prices have a tie, a model that is cheap for one kind of token only, and a model
listed twice. `MaxBegun = 5` covers mint, mint, record, report and an end of key or tenant. `ledger` has no
symmetry because it checks liveness; the others that use symmetry check invariants and action properties only.
`gate`'s `VIEW` drops the usage tables, `moved` and `faulted`: no guard reads them, and neither property of that
run does. `anomalies` keeps the program's constants, seven days with rows and a window of 28 before today; its
history puts one row on the edge of the window, and its two costs reach critical, warning and critical again.
The nine days of `resets` run from a Sunday to the Monday of the week after with a month's end between, so each
kind of period ends. `Handlers` in `lifecycle` do not repeat after a loss, which keeps `lost` readable. Deadlock
is checked except in `lifecycle`, where the process ends; a quiet system is an explicit stuttering action where
all workers may be idle with their bounds used up, and so is a finished exchange.

**Fairness.** `SpendPipeline!FairSpec`: weak fairness of each worker's own recording steps, because a
goroutine is scheduled and its statements and webhook calls return (the notifiers' HTTP client gives
up after ten seconds). Arrivals, upstream answers, disconnections and failures are not fair.
`ResponseCapture!FairSpec`: weak fairness of what the handler does without waiting for the upstream.
`ServiceLifecycle!FairSpec`: weak fairness of `main` (its timer included) and of the Serve goroutine,
none of handlers, signals or failures.

Each property of a passing run has a mutant in `PROJECT.json`: a plausible bug, defined beside the
operator it replaces, that makes TLC refute the property.

## 4. Proofs

| Theorem | Says | Invariant |
|---|---|---|
| `TypeCorrect` | `TypeOK` of `SpendPipeline` | itself |
| `OvershootIsBounded` | `OvershootBound` | `TypeOK`, `LimitCovered`, `GateInv` |
| `AlertsAreNotMissed` | `AlertNotMissed` | `TypeOK`, itself |
| `RollupsFollowUsage` | `RollupsMatchUsage` | `TypeOK`, itself |
| `ChargesFollowUsage` | `ChargesMatchUsage` | `TypeOK`, itself, `InitDefined \subseteq defined` |
| `RecordingsAdvance` | `RecordingAdvances` | `TypeOK`, `Taken` |
| `PipelineImplementsLedger` | `LedgerImplemented` | `TypeOK`, `Priced` |
| `CaptureTypes`, `ExchangeIsBilledOnce`, `BilledForWhatWasRead`, `LastReportIsBilled` | `TypeOK`, `BilledOnce`, `BilledAsRead`, `TerminalUsageIsExact` of `capture` | `IInv`: `ModeFits`, `CallsFit`, `ValuesFit`, `ParserFits`, `FinalFits` |
| `MapOrderIsHarmlessAlways` | `MapOrderIsHarmless` of `capture` | – |
| `SearchFinds` | `recursiveUsage` finds the largest counts of a document's objects, in any order of its maps | – |
| `TextIsFound` | `extractStreamText` is empty only for a document without a character in any string | – |
| `DocumentsAreRead` | any document makes a payload of the kind the capture assumes | – |
| `ReportsTyped`, `PartsStayInOrder`, `CalmRepliesAgree`, `CountersGrow`, `SavingsAreReal`, `AdviceIsSettled` | the six properties of `reports` | `IInv`: `StoredFits`, `PaidAsPriced`, `ReportFits` |
| `TenantTypes`, `EnsuredRows`, `UsageIsOwned`, `ReportsIsolated`, `DeadKeysRefused`, `LiveKeysAreResolved`, `EndsStayFinal` | the seven of `tenants` | `IInv`, `Owned` |
| `MigrationTypes`, `VersionsAreTheSchema`, `ReadyOnCompleteSchema`, `LoneStartIsServed` | the four of `migrations` | `IInv` |
| `StuckIsInherited` | no step makes a file stuck that was not: `[][Stuck' => Stuck]_vars` | `IInv` |
| `LifecycleTypes`, `CleanExitIsComplete`, `ReceivesFindValues` | the safety of `lifecycle` | `LifeInv` |
| `ClosedStoreIsUnreachable` | no connection is accepted once the store is closed | `LifeInv` |
| `AnomalyAlertsProofs!TypeCorrect`, `CriticalDaysAreAlerted` | the two of `anomalies` | `TypeOK`, itself |
| `PeriodTypes`, `ResetIsExact`, `ReportsTile` | the three of `resets` | `IInv` |
| `BestIsCheapest` | the loop of `RecommendModels` finds a cheapest model, in any order of the map | – |
| `TotalOfGroups` | the sums of the groups of a `GROUP BY` add up to the sum of the whole | – |

They hold for any numbers of workers, budgets, tenants, keys, processes, migrations, days, labels and price
lists, for answers of any length, for JSON documents of any shape, and without the bounds' being small.

**Assumptions** are the modules' `ASSUME`s, which TLC evaluates on every instance. Those that say something:

- Workers, tenants and projects (`WorkersAssumption`, `SeriesAssumption`) and the labels of usage rows
  (`LabelsAssumption`) are finite sets: a process has as many goroutines and a table as many rows as it has,
  and only so do the sums over them exist. No request costs more than `MaxCost`, in which the overshoot is
  measured; the proof does not ask where that bound comes from.
- `LinesAssumption` is about how answers are written down. An answer without bytes is one blank line; a part of
  a document is one of its parts; a bare JSON line is a whole document; the texts a half line is turned into
  have no more characters than the half has bytes, and no fewer when it is cut; and every text cuts well
  (`CutsWell`), which is all that is known of `Runes`. `ParserAssumption` has the cap on kept text positive (1
  MiB in `stream.go`).
- `ValuesAssumption` says what a JSON value is: a null, a number, a text, an array or an object of such values.
  `DepthAssumption` says that a part is not as deep as the whole, and that no value is deeper than 10000
  (`MaxDepth`), which is what `encoding/json` accepts.
- `FiltersAssumption`: a report may be asked for without a filter, which is what `/metrics` does.
- `PeriodTypes` and `ResetIsExact` assume `OneResetter`. Without it the statements are false: two resets that
  overlap both subtract what both have read.

**Arguments.**

- **Sums and folds.** `Total` and the folds are defined by a CHOOSE over recursive functions on the
  subsets of a set. That there is such a function, and only one, is proved by well-founded induction on the
  proper subsets. The library's induction rules take a predicate, which the provers cannot instantiate; here
  the property is a *set*, that of the subsets (or numbers) that have it (`SubsetInduction`,
  `CountingInduction`), which is first-order. From the equation of a sum everything else follows: sums do
  not depend on an order (`TotalTakes`), split over disjoint sets, grow with their summands and change with
  one of them, and `TotalOfGroups`.
- **Overshoot.** `OvershootBound` is not inductive: it says nothing of admitted requests that have not
  paid yet. `GateInv` adds their reservation: spend plus `MaxCost` for every handler that may still
  charge the budget stays under the ceiling. Admission takes a reservation only while spend is below
  the limit, which `LimitCovered` keeps below the allowance; a charge turns a reservation into spend; a
  budget that is moved or raised lifts the ceiling with it. The arithmetic is in lemmas without state.
- **Alerts.** `AlertNotMissed` is inductive as it stands, with types: each step either leaves a budget
  alone, or makes its worker the one that is checking it.
- **Rollups and charges.** Both are inductive with types, since they count what is under way. A
  statement moves its worker from one group of debtors to the next and one table by the same cost:
  `TotalChanges` on the table, `TotalTakes` on the group. A failing statement only drops a debtor. For
  charges, a worker that lists the budgets turns from owing every budget that covers it to owing those
  of its list, which are the same while no budget moves.
- **Advance.** What a recording has ahead of it (`Ahead`) is a set of steps, so that "less" is a proper subset
  and needs no counting. A step takes away the one it was; that it adds none back needs `Taken`, that a budget
  being looked at is off the list, which is also why no request charges a budget twice.
- **Lost answers.** An unheard charge is a charge for the sums and the ceilings (`SpendingKeeps`,
  `ChargeCharges` are stated for both), and a failure for the worker; the budget it leaves behind is one that
  nobody has looked at, which is where `AlertNotMissed` lets go of it.
- **Ledger.** Each action of the pipeline is one of the ledger's or leaves its variables as they are, one lemma
  per group of actions. What is needed besides types is that a job that may still insert has one of the
  prices (`Priced`). `Admit`'s one SELECT is the ledger's one look; an empty listing closes the account in `Bill`.
- **Capture.** The wire is laid out once (`Lays`): where each line's halves stand among the symbols, so
  that `Place` says which line a number of read symbols has come to. A document is a *run* of data lines
  (`RunFrom`), and `Docs(a, k)` are the documents that end within the first `k` lines. `Reads(a, n, p)` is
  the parser after `n` symbols: its lists hold what those documents report, largest count and first name
  (`Gathered`), its event holds the lines of the run that is under way (`Holds`), its pending bytes are the
  half line, and of the two texts it has as many characters as their first `MaxText` bytes make, whatever `Runes`
  is. It is proved one symbol at a time (`TakeReads`) and carried over a chunk of any length by
  induction (`ChunkReads`), so that it does not matter where the answer was cut. What lists and event hold is
  claimed of `WellFormed` answers, as in the property. Finishing adds the line and the event that are still open
  (`FinalReads`), and the estimate follows (`BillIs`). `ParserFits` is `Reads` for the bytes read
  so far; `FinalFits` says that from the `sync.Once` on, the bill is that of the parser as it stood, which
  `Read` and `Close` leave alone afterwards; `ModeFits` and `CallsFit` tie the handler's place to
  whether the one call was made. `TerminalUsageIsExact` then needs only that the last report is the largest.
- **Map order.** The search of a document is a recursive function on JSON values. That it exists is
  `DepthRecursion`, and what it finds `SearchFinds`: both go by induction on the nesting depth, which, like the
  inductions on subsets and numbers, is stated with the *set* of the values that have the property
  (`DepthInduction`, on layers of the values). Each object's report is a fold over an order of its keys;
  for every order the fold ends at the largest count, and at a name one of the objects gives. Two readings then
  have the same counts, and the same model where only one is named. That there is a reading at all
  needs an order of the keys (`OrdersExist`), and each fold of reports that exist to be one (`FoldAnswers`).
- **Text.** The same induction, with null as a part of everything that is not null, as an absent field reads
  as null. What is *silent* is so in all its parts, so that content, whose fields are parts, finds nothing
  there; and the values in which the search finds nothing are closed under taking parts.
- **Reports.** A report under way is *ordered*: each part it has read is at least the one before and at most
  what is stored, since rows are only added (`StoredGrows`); parts it has not read say nothing. It is also at
  least what its reader was shown before. Of counts this is so always (`CountsBounded`, `LinesBounded`), of
  costs while `cut` has no label they are a sum over (`CostsBounded`, `CostsOrdered`), which `Insert` keeps up
  by noting the label of each row that costs less than nothing (`NotedParts`). A report is equal to what is
  stored while its reader is `calm`. That a sum over groups equals the sum over rows is `TotalOfGroups`.
- **Advice.** `PaidAsPriced` says of the stored rows what they cost, until prices change. Averages are rounded
  toward zero, so for sums that are not negative the price of the average call times the number of calls is no
  more than was paid (`AveragesCostLess`). The loop over the providers is a fold, and for every order it ends at
  a model none undercuts (`BestIsCheapest`); a strict comparison then sends nobody on from there.
- **Anomalies.** Whoever writes a row is then about to look at it, and whoever looks sees the rows as they
  are; the statistics themselves are never expanded, only that they depend on the rows and the day.
- **Tenants.** `IInv` says of every actor what it knows (an id it holds is the row's id, a key it was
  authenticated on was alive, a view holds its tenant's rows). Tables only *grow*
  (`Grows`): ids stay, ends stay. What one actor knows is therefore not disturbed by another's step,
  and each action is proved for the actor that takes it. That every key has a tenant (`Owned`) is a second
  invariant on top: a new key takes the id that `EnsureTenant` came out with.
- **Migrations.** A process that is ready has the complete schema, and only such a one stores rows: so a file
  that gets its first row has no backfill to come. A version a process has read stays applied, and while its
  transaction holds the write lock nobody else moves the version, so it commits exactly the next one.
- **Lifecycle.** Past `Run` nobody accepts, and status 0 is only reached over a drained shutdown.
  What the goroutine sent is in the channel until `Run` is over.
- **Periods.** A reset in progress has seen what is due less what was charged since, so the subtraction
  leaves just that. For months, the least first day after a day exists (the naturals are well founded),
  and no first day lies between it and the day's own.

**Model-checked only.** The liveness properties (`RecordingEnds`, `LeavingEndsTheHandler`, `StopEnds`), since
liveness under fairness is out of the prover's reach. Their safety halves are proved where there are any:
`RecordingAdvances` is the measure under `RecordingEnds`, and `ReceiveFindsValue` is why the last wait under
`StopEnds` is none. That the measure is bounded, so that a recording ends, would be an induction under
fairness, and that some step of it can always be taken is ENABLED; both are left to TLC. So is how long
the text of a document is (`ContentText`, `RecursiveText`): that there is some is `TextIsFound`, its length
is any number in the theorems on `capture` and what those functions compute in the run. Requests
(`PromptText`, `Trimmed`) only set a length too.

## 5. Where code and documents disagree

- `abandoned_stream`: a streaming request *"still writes the final usage row"* (`README.md:462`). The
  row is written under the request's context (`stream.go:251`). In the trace every byte, and there are some, was
  sent on, and the end of the stream was read while the client was still there; it leaves before the row is
  written, and there is none.
- `partial_usage`: *"If a provider stream does not expose terminal usage, LLM Cost Guardian falls back to
  prompt/output estimation"* (`docs/architecture.md:63`). Only a count of zero is estimated
  (`stream.go:125`); an early partial report stands.
- `lifetime`: *"Daily, weekly, and monthly spending limits"* (`README.md:70`). `current_spend` only ever
  grows: nothing at a period's end resets it, and a daily budget that was used up on Monday refuses
  requests on Tuesday, with no usage that day (`budget.go:105`).

One more needs no run, as it can be read off `ResponseCapture!TrackEnds`: *"Usage recording is non-blocking to
minimize proxy latency"* (`docs/architecture.md:77`), but a buffered answer is tracked, with every budget and
webhook, before it is sent (`handler.go:175`).

Oddities that the modules show in passing, which no document denies and no property forbids:

- A request whose message content is a list of parts cannot be read into a struct with a string
  (`extractor.go:100`); the error is ignored, and without a reported count the input is estimated as nothing.
- A document without text where its provider puts it is searched for strings, and content counts once more for
  each level above it (`stream.go:434`): the estimate is far above the text.
- The data lines of two events without the blank line between them are joined to no JSON at all (`stream.go:179`).
- The tracker prices the name the answer gives its model (`stream.go:230`); one that no pricing file lists is
  refused and only logged.
- A file of an earlier release that holds usage cannot be opened any more: the third migration's backfill fails on
  its rows at every start (`migrations.go:103-141`; `Stuck`).
- `lcg track` with negative tokens (`track.go:36`) lowers cost counters that `/metrics` exports as counters, and with
  enough of them recommendations promise savings above what was paid.
- A budget with a limit of zero refuses everything and never raises an alert (`budget.go:63`).
- `/metrics` loads every row ever stored within ten seconds (`server.go:124`): `GiveUp` is what it comes to.
- A forecast counts days without a row as missing, not as zero, and the running day as a full one
  (`intelligence.go:151`).

## 6. Not modelled

- **Forecast and prompt suggestions** (`intelligence.go`, `Forecast` and `PromptOptimizations`): one query each
  and then arithmetic that nothing acts on. No document promises anything about their numbers, so a model
  could only restate them.
- **Which URL is which provider's** (`DetectProvider`, `extractModelFromPath`, `isStreamingRequest`): string matching
  on one request. What depends on it is an input of `ResponseCapture`.
- **Tokenizer, configuration, export, PDF, alert payloads, Prometheus text**: conversions without control.
- **Read-only commands**: one of the queries above, then formatting.
- **SDKs, images, dashboards**: outside the program.
- **Rows of negative cost** are in `UsageReports` only. In `SpendPipeline`, `SpendLedger`, `BudgetPeriods` and
  `AnomalyAlerts` a cost is a natural number: there `lcg track` with negative tokens would lower budgets and
  rollups, about which those modules say nothing.
- Inside the modelled parts: floating-point rounding, and whether a notifier's delivery succeeds (`sent` and
  `alerted` record the attempt).

The parts that are modelled apart meet at narrow places: `ResponseCapture` hands a call to the tracker, which
is `SpendPipeline`'s `Capture` or `NothingToRecord`; `TenantAccess` hands it a tenant, which is a constant
there; `AnomalyAlerts` goes on where `SpendPipeline`'s recording ends. None of them reads back what another
writes, except the tables, and each module that reads a table has the statements that write it.
Components and reasons are in `PROJECT.json`.
