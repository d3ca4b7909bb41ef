------------------------- MODULE UsageReportsProofs -------------------------
(***************************************************************************)
(* UsageReports, for any labels, calls, prices, readers and filters.       *)
(*                                                                         *)
(* PartsInOrder, CalmReplyAgrees and CountersOnlyGrow speak of reports     *)
(* that are complete.  The inductive invariant says of one under way what  *)
(* they say of the parts it has read so far: they are in order, none is    *)
(* more than what is stored, none is less than the scrape before it, and   *)
(* if nothing has been recorded meanwhile each is what is stored.  What is *)
(* said of costs holds as long as no row of negative cost has come in.     *)
(***************************************************************************)
EXTENDS UsageReports, TotalsProofs, SequenceTheorems

\* What a filter matches, and the parts of a report made of it now.
Matching(x) == {l \in Passes(x) : rows[l] > 0}
Line(f, x) == [l \in Labels |-> IF l \in Matching(x) THEN f[l] ELSE 0]
CountOf(x) == Total(rows, Matching(x))
CostOf(x) == Total(spent, Matching(x))
Groups(x, f) == [v \in {l[f] : l \in Matching(x)} |-> Total(spent, {l \in Matching(x) : l[f] = v})]

Statements == Fields \cup {"totals", "records", "advice"}

\* How many statements of its plan a report has behind it.
Progress(s) == Len(Plan(s.endpoint)) - Len(s.todo)

\* What is left of a report's plan is the end of it.
PlanFits(s) ==
    /\ s.todo \in Seq(Statements) /\ Len(s.todo) <= Len(Plan(s.endpoint))
    /\ \A i \in 1..Len(s.todo) : s.todo[i] = Plan(s.endpoint)[Progress(s) + i]

\* What a report and the answers given are made of.
CounterFields == {"count", "cost", "lineRows", "lineCost", "cut"}
ReportFields == CounterFields \cup {"busy", "endpoint", "filter", "todo", "by", "advice"}
ReportShape(s) ==
    /\ DOMAIN s = ReportFields /\ DOMAIN s.by = Fields
    /\ s.busy \in BOOLEAN /\ s.endpoint \in Endpoints /\ s.filter \in Filters
    /\ PlanFits(s) /\ AreCounters(s)
    /\ \A l \in DOMAIN s.advice : l \in Labels /\ s.advice[l].savings \in Nat
    /\ \A f \in Fields : IsFiniteSet(DOMAIN s.by[f]) /\ \A v \in DOMAIN s.by[f] : s.by[f][v] \in Int
    /\ s.endpoint = "recommendations" => s.cost = 0 /\ s.by = Blank.by
AnswersShape(a) ==
    DOMAIN a = Filters /\ \A x \in Filters : DOMAIN a[x] = CounterFields /\ AreCounters(a[x])

RegistryFits(reg) ==
    DOMAIN reg \subseteq Supported /\ \A p \in DOMAIN reg : reg[p] \in Seq(ModelPricing) \ {<<>>}
StoredFits ==
    /\ rows \in [Labels -> Nat] /\ tokens \in [Labels -> Tokens] /\ spent \in [Labels -> Int]
    /\ \A l \in Labels : rows[l] = 0 => spent[l] = 0
    /\ RegistryFits(registry) /\ dated \in BOOLEAN

\* Nothing shown before is more than what is stored.
CountsBounded(s, x) == s.count <= CountOf(x) /\ \A l \in Labels : s.lineRows[l] <= Line(rows, x)[l]
LinesBounded(s, x) == \A l \in Labels \ s.cut : s.lineCost[l] <= Line(spent, x)[l]
Bounded(s, x) ==
    /\ CountsBounded(s, x) /\ LinesBounded(s, x)
    /\ Uncut(s, x) => s.cost <= CostOf(x)

\* No part of a report read so far is.
CostsBounded(s, x) ==
    /\ Progress(s) >= 1 => s.cost <= CostOf(x)
    /\ Progress(s) >= 2 => Sum(s.by.tenant) <= CostOf(x)
    /\ Progress(s) >= 3 => Sum(s.by.provider) <= CostOf(x)
    /\ Progress(s) >= 4 => Sum(s.by.model) <= CostOf(x)
    /\ Progress(s) >= 5 => Sum(s.by.project) <= CostOf(x)
    /\ Progress(s) >= 6 => Sum(s.lineCost) <= CostOf(x)
PartsBounded(s) ==
    /\ CountsBounded(s, s.filter)
    /\ s.endpoint # "recommendations" =>
          /\ Progress(s) >= 6 => LinesBounded(s, s.filter)
          /\ Uncut(s, s.filter) => CostsBounded(s, s.filter)

\* The parts read so far are in order.
CostsOrdered(s) ==
    /\ Progress(s) >= 2 => s.cost <= Sum(s.by.tenant)
    /\ Progress(s) >= 3 => Sum(s.by.tenant) <= Sum(s.by.provider)
    /\ Progress(s) >= 4 => Sum(s.by.provider) <= Sum(s.by.model)
    /\ Progress(s) >= 5 => Sum(s.by.model) <= Sum(s.by.project)
    /\ Progress(s) >= 6 => Sum(s.by.project) <= Sum(s.lineCost)
Ordered(s) ==
    /\ Progress(s) >= 6 => s.count <= Sum(s.lineRows)
    /\ s.endpoint # "recommendations" /\ Uncut(s, s.filter) => CostsOrdered(s)

\* They are not less than what the last answer showed.
Grown(s, before) ==
    s.endpoint # "recommendations" =>
        /\ Progress(s) >= 1 => /\ before.count <= s.count
                               /\ Uncut(before, s.filter) => before.cost <= s.cost
        /\ Progress(s) >= 6 => /\ \A l \in Labels : before.lineRows[l] <= s.lineRows[l]
                               /\ \A l \in Labels \ before.cut : before.lineCost[l] <= s.lineCost[l]

\* They are what is stored.
Exact(s) ==
    LET x == s.filter IN
    IF s.endpoint = "recommendations"
    THEN Progress(s) >= 1 =>
            /\ DOMAIN s.advice = Matching(x)
            /\ \A l \in Matching(x) : s.advice[l] \in Advice(l, Own(l))
    ELSE /\ Progress(s) >= 1 => s.count = CountOf(x) /\ s.cost = CostOf(x)
         /\ Progress(s) >= 2 => s.by.tenant = Groups(x, "tenant")
         /\ Progress(s) >= 3 => s.by.provider = Groups(x, "provider")
         /\ Progress(s) >= 4 => s.by.model = Groups(x, "model")
         /\ Progress(s) >= 5 => s.by.project = Groups(x, "project")
         /\ Progress(s) >= 6 => s.lineRows = Line(rows, x) /\ s.lineCost = Line(spent, x)

\* As long as prices have not changed, what a label's calls cost is what its tokens cost.
PaidAsPriced ==
    ~dated => \A l \in Labels :
        IF rows[l] = 0 THEN spent[l] = 0 /\ tokens[l] = [in |-> 0, out |-> 0]
        ELSE SupportsModel(registry, l.provider, l.model) /\ spent[l] = PaidWith(l, Own(l))

ReportFits(r) ==
    LET s == report[r] IN
    /\ ReportShape(s) /\ AnswersShape(shown[r])
    /\ s.busy => PartsBounded(s) /\ Ordered(s) /\ Grown(s, shown[r][s.filter])
    /\ r \in calm => s.busy /\ Exact(s)
    /\ \A x \in Filters : Bounded(shown[r][x], x)

IInv ==
    /\ StoredFits /\ PaidAsPriced
    /\ DOMAIN report = Readers /\ DOMAIN shown = Readers /\ calm \subseteq Readers
    /\ \A r \in Readers : ReportFits(r)

-----------------------------------------------------------------------------
(* The plan of a report. *)

\* The plans, written out.
LEMMA Plans ==
  /\ Plan("metrics") = <<"totals", "tenant", "provider", "model", "project", "records">>
  /\ Plan("summary") = <<"totals", "tenant", "provider", "model", "project">>
  /\ Plan("recommendations") = <<"advice">>
  <1> DEFINE six == <<"totals", "tenant", "provider", "model", "project", "records">>
             last == <<"records">>
             joined == Summary \o last
  <1>1. joined = six
    <2>1. Summary \in Seq(Statements) /\ last \in Seq(Statements) /\ six \in Seq(Statements)
      BY DEF Statements, Fields, Summary
    <2>2. Len(Summary) = 5 /\ Len(last) = 1 /\ last[1] = "records" /\ Len(six) = 6
      BY DEF Summary
    <2> HIDE DEF last
    <2>3. /\ joined \in Seq(Statements) /\ Len(joined) = Len(Summary) + Len(last)
          /\ \A i \in 1..(Len(Summary) + Len(last)) :
                joined[i] = IF i <= Len(Summary) THEN Summary[i] ELSE last[i - Len(Summary)]
      BY <2>1, ConcatProperties
    <2>4. Len(joined) = 6 /\ \A i \in 1..6 : joined[i] = IF i <= 5 THEN Summary[i] ELSE "records"
      <3> HIDE DEF joined
      <3> QED BY <2>2, <2>3
    <2>5. \A i \in 1..6 : six[i] = IF i <= 5 THEN Summary[i] ELSE "records"
      BY DEF Summary
    <2> HIDE DEF joined, six
    <2>6. /\ joined \in Seq(Statements) /\ six \in Seq(Statements) /\ Len(joined) = Len(six)
          /\ \A i \in 1..Len(joined) : joined[i] = six[i]
      BY <2>1, <2>2, <2>3, <2>4, <2>5
    <2> QED BY <2>6, SeqEqual
  <1>2. "metrics" # "summary" /\ "recommendations" \notin {"metrics", "summary"}
    OBVIOUS
  <1> QED BY <1>1, <1>2 DEF Plan, Summary

\* A report that has a statement before it is at that statement's place in its plan, and
\* with the statement behind it one further.
LEMMA PlanMoves ==
  ASSUME NEW s, s.endpoint \in Endpoints, PlanFits(s), s.todo # <<>>,
         NEW t, t.endpoint = s.endpoint, t.todo = Tail(s.todo)
  PROVE  /\ PlanFits(t) /\ Progress(t) = Progress(s) + 1
         /\ Progress(s) \in 0..(Len(Plan(s.endpoint)) - 1)
         /\ Head(s.todo) = Plan(s.endpoint)[Progress(s) + 1]
  <1> DEFINE plan == Plan(s.endpoint)
             left == s.todo
             n == Len(plan)
             m == Len(left)
             rest == Tail(left)
             k == Len(rest)
  <1>1. n \in Nat /\ Plan(t.endpoint) = plan
    BY Plans DEF Endpoints
  <1>2. left \in Seq(Statements) /\ left # <<>> /\ m <= n
    BY DEF PlanFits
  <1>3. Progress(s) = n - m /\ Progress(t) = n - k
    BY <1>1 DEF Progress
  <1>4. \A i \in 1..m : left[i] = plan[Progress(s) + i]
    BY DEF PlanFits
  <1>5. t.todo = rest
    OBVIOUS
  <1>6. /\ m \in Nat \ {0} /\ Head(left) = left[1]
        /\ rest \in Seq(Statements) /\ k = m - 1
        /\ \A i \in 1..(m - 1) : rest[i] = left[i + 1]
    BY <1>2
  <1>7. Plan(t.endpoint) = plan /\ Len(Plan(t.endpoint)) = n /\ Len(t.todo) = k
    BY <1>1, <1>5
  <1> HIDE DEF plan, left, n, m, rest, k
  <1>8. Progress(t) = Progress(s) + 1
    BY <1>1, <1>3, <1>6
  <1>9. \A i \in 1..k : rest[i] = plan[Progress(t) + i]
    BY <1>1, <1>3, <1>4, <1>6, <1>8
  <1>10. PlanFits(t)
    <2>1. t.todo \in Seq(Statements)
      BY <1>5, <1>6
    <2>2. Len(t.todo) <= Len(Plan(t.endpoint))
      BY <1>1, <1>2, <1>6, <1>7
    <2>3. \A i \in 1..Len(t.todo) : t.todo[i] = Plan(t.endpoint)[Progress(t) + i]
      BY <1>5, <1>7, <1>9, Zenon
    <2> QED BY <2>1, <2>2, <2>3 DEF PlanFits
  <1>11. Progress(s) \in 0..(n - 1) /\ Head(left) = plan[Progress(s) + 1]
    BY <1>1, <1>2, <1>3, <1>4, <1>6
  <1> QED BY <1>8, <1>10, <1>11 DEF plan, left, n

\* The place of every statement.
LEMMA PlaceOf ==
  ASSUME NEW e \in Endpoints, NEW n \in 0..(Len(Plan(e)) - 1)
  PROVE  /\ Plan(e)[n + 1] = "totals" => e # "recommendations" /\ n = 0
         /\ Plan(e)[n + 1] = "tenant" => e # "recommendations" /\ n = 1
         /\ Plan(e)[n + 1] = "provider" => e # "recommendations" /\ n = 2
         /\ Plan(e)[n + 1] = "model" => e # "recommendations" /\ n = 3
         /\ Plan(e)[n + 1] = "project" => e # "recommendations" /\ n = 4
         /\ Plan(e)[n + 1] = "records" => e = "metrics" /\ n = 5
         /\ Plan(e)[n + 1] = "advice" => e = "recommendations" /\ n = 0
  <1>1. CASE e = "metrics"
    BY <1>1, Plans
  <1>2. CASE e = "summary"
    BY <1>2, Plans
  <1>3. CASE e = "recommendations"
    BY <1>3, Plans
  <1> QED BY <1>1, <1>2, <1>3 DEF Endpoints

-----------------------------------------------------------------------------
(* What is stored.  Rows are only ever added, and nothing of them changes.  *)

\* The sum over a part of the labels is that of the line with zeros elsewhere.
LEMMA LineTotal ==
  ASSUME NEW f, \A l \in Labels : f[l] \in Int, NEW M \in SUBSET Labels
  PROVE  /\ Total(f, M) \in Int
         /\ Sum([l \in Labels |-> IF l \in M THEN f[l] ELSE 0]) = Total(f, M)
  <1> DEFINE g == [l \in Labels |-> IF l \in M THEN f[l] ELSE 0]
  <1>1. Total(f, M) \in Int
    BY LabelsAssumption, TotalInt
  <1>2. DOMAIN g = Labels /\ \A l \in Labels : f[l] \in Int /\ g[l] = IF l \in M THEN f[l] ELSE 0
    OBVIOUS
  <1> HIDE DEF g
  <1>3. Total(f, M) = Total(g, Labels)
    BY <1>2, LabelsAssumption, TotalWhere
  <1> QED BY <1>1, <1>2, <1>3 DEF Sum, g

\* More of more labels adds up to more.
LEMMA TotalGrows ==
  ASSUME NEW f, NEW g, \A l \in Labels : f[l] \in Nat /\ g[l] \in Nat /\ f[l] <= g[l],
         NEW M \in SUBSET Labels, NEW N \in SUBSET Labels, M \subseteq N
  PROVE  Total(f, M) <= Total(g, N)
  <1>1. IsFiniteSet(M) /\ IsFiniteSet(N)
    BY LabelsAssumption, FS_Subset
  <1>2. Total(f, M) <= Total(g, M)
    BY <1>1, TotalAtMost
  <1>3. Total(g, M) <= Total(g, N) /\ Total(g, M) \in Nat /\ Total(g, N) \in Nat
    BY <1>1, TotalNat
  <1>4. Total(f, M) \in Nat
    BY <1>1, TotalNat
  <1> QED BY <1>2, <1>3, <1>4

\* The parts a report is made of now.
LEMMA StoredParts ==
  ASSUME StoredFits, NEW x
  PROVE  /\ Matching(x) \in SUBSET Labels /\ CountOf(x) \in Nat /\ CostOf(x) \in Int
         /\ Line(rows, x) \in [Labels -> Nat] /\ Line(spent, x) \in [Labels -> Int]
         /\ Sum(Line(rows, x)) = CountOf(x) /\ Sum(Line(spent, x)) = CostOf(x)
  <1>1. \A l \in Labels : rows[l] \in Nat /\ rows[l] \in Int /\ spent[l] \in Int
    BY DEF StoredFits
  <1>2. Matching(x) \in SUBSET Labels
    BY DEF Matching, Passes
  <1>3. CountOf(x) \in Nat
    BY <1>1, <1>2, LabelsAssumption, TotalNat DEF CountOf
  <1>4. Line(rows, x) \in [Labels -> Nat] /\ Line(spent, x) \in [Labels -> Int]
    BY <1>1 DEF Line
  <1>5. /\ Sum(Line(rows, x)) = CountOf(x)
        /\ Sum(Line(spent, x)) = CostOf(x) /\ CostOf(x) \in Int
    BY <1>1, <1>2, LineTotal DEF Line, CountOf, CostOf
  <1> QED BY <1>2, <1>3, <1>4, <1>5

\* However the matching rows are grouped, the sums of the groups add up to the cost of all.
LEMMA GroupParts ==
  ASSUME StoredFits, NEW x, NEW f
  PROVE  /\ IsFiniteSet(DOMAIN Groups(x, f)) /\ Sum(Groups(x, f)) = CostOf(x)
         /\ \A v \in DOMAIN Groups(x, f) : Groups(x, f)[v] \in Int
  <1> DEFINE S == Matching(x)
             V == {l[f] : l \in S}
             key == [l \in S |-> l[f]]
             g == Groups(x, f)
  <1>1. S \in SUBSET Labels /\ \A l \in Labels : spent[l] \in Int
    BY DEF Matching, Passes, StoredFits
  <1>2. IsFiniteSet(S) /\ \A l \in S : spent[l] \in Int
    BY <1>1, LabelsAssumption, FS_Subset
  <1>3. key \in Surjection(S, V)
    BY DEF Surjection
  <1>4. DOMAIN g = V /\ \A v \in V : g[v] = Total(spent, {l \in S : key[l] = v})
    <2>1. \A v \in V : {l \in S : key[l] = v} = {l \in S : l[f] = v}
      OBVIOUS
    <2> QED BY <2>1 DEF Groups
  <1>5. \A v \in V : g[v] \in Int
    <2>1. \A v \in V : {l \in S : key[l] = v} \in SUBSET Labels
      BY <1>1
    <2> QED BY <1>1, <1>4, <2>1, LineTotal
  <1> HIDE DEF S, V, key, g
  <1>6. IsFiniteSet(V) /\ Total(g, V) = Total(spent, S)
    BY <1>2, <1>3, <1>4, TotalOfGroups
  <1> QED BY <1>4, <1>5, <1>6 DEF Sum, CostOf, g, S

\* A label without rows has cost nothing: the cost of the matching rows is that of all the
\* labels the filter lets through.
LEMMA CostOfAll ==
  ASSUME StoredFits, NEW x
  PROVE  CostOf(x) = Total(spent, Passes(x)) /\ IsFiniteSet(Passes(x)) /\ Passes(x) \in SUBSET Labels
  <1>1. Passes(x) \in SUBSET Labels /\ IsFiniteSet(Passes(x))
    <2>1. Passes(x) \in SUBSET Labels
      BY DEF Passes
    <2> QED BY <2>1, LabelsAssumption, FS_Subset
  <1>2. Matching(x) \in SUBSET Passes(x)
    BY DEF Matching
  <1>3. \A l \in Passes(x) : spent[l] \in Int /\ spent[l] = IF l \in Matching(x) THEN spent[l] ELSE 0
    <2> SUFFICES ASSUME NEW l \in Passes(x), l \notin Matching(x) PROVE spent[l] = 0
      BY <1>1 DEF StoredFits
    <2>1. rows[l] \in Nat /\ ~(rows[l] > 0) /\ (rows[l] = 0 => spent[l] = 0)
      BY <1>1 DEF StoredFits, Matching
    <2> QED BY <2>1
  <1>4. Total(spent, Matching(x)) = Total(spent, Passes(x))
    BY <1>1, <1>2, <1>3, TotalWhere
  <1> QED BY <1>1, <1>4 DEF CostOf

\* The same in the next state.
LEMMA CostOfAllNext ==
  ASSUME NEW x
  PROVE  StoredFits' => CostOf(x)' = Total(spent', Passes(x))
  <1>1. StoredFits => CostOf(x) = Total(spent, Passes(x))
    BY CostOfAll
  <1>2. (StoredFits => CostOf(x) = Total(spent, Passes(x)))'
    BY <1>1, PTL
  <1> QED BY <1>2 DEF Passes

\* Where no label's rows get less, and no label's cost but those of some, no part does that
\* these have no part in.
LEMMA StoredGrows ==
  ASSUME StoredFits, StoredFits', NEW low \in SUBSET Labels, \A l \in Labels : rows[l] <= rows'[l],
         \A l \in Labels \ low : spent[l] <= spent'[l], NEW x
  PROVE  /\ CountOf(x) <= CountOf(x)' /\ (low \cap Passes(x) = {} => CostOf(x) <= CostOf(x)')
         /\ \A l \in Labels : Line(rows, x)[l] <= Line(rows, x)'[l]
         /\ \A l \in Labels \ low : Line(spent, x)[l] <= Line(spent, x)'[l]
  <1>1. \A l \in Labels : /\ rows[l] \in Nat /\ rows'[l] \in Nat /\ spent[l] \in Int /\ spent'[l] \in Int
                          /\ (rows[l] = 0 => spent[l] = 0)
    BY DEF StoredFits
  <1>2. /\ Matching(x) \in SUBSET Labels /\ Matching(x)' \in SUBSET Labels
        /\ Matching(x) \subseteq Matching(x)'
    BY <1>1 DEF Matching, Passes
  <1>3. CountOf(x) <= CountOf(x)'
    BY <1>1, <1>2, TotalGrows DEF CountOf
  <1>4. ASSUME low \cap Passes(x) = {} PROVE CostOf(x) <= CostOf(x)'
    <2>1. /\ CostOf(x) = Total(spent, Passes(x)) /\ IsFiniteSet(Passes(x)) /\ Passes(x) \in SUBSET Labels
          /\ CostOf(x)' = Total(spent', Passes(x))
      BY CostOfAll, CostOfAllNext
    <2>2. \A l \in Passes(x) : spent[l] \in Int /\ spent'[l] \in Int /\ spent[l] <= spent'[l]
      BY <1>1, <1>4, <2>1
    <2> QED BY <2>1, <2>2, TotalAtMost
  <1>5. /\ \A l \in Labels : Line(rows, x)[l] <= Line(rows, x)'[l]
        /\ \A l \in Labels \ low : Line(spent, x)[l] <= Line(spent, x)'[l]
    <2>1. \A l \in Labels :
             /\ Line(rows, x)[l] = (IF l \in Matching(x) THEN rows[l] ELSE 0)
             /\ Line(spent, x)[l] = (IF l \in Matching(x) THEN spent[l] ELSE 0)
             /\ Line(rows, x)'[l] = (IF l \in Matching(x)' THEN rows'[l] ELSE 0)
             /\ Line(spent, x)'[l] = (IF l \in Matching(x)' THEN spent'[l] ELSE 0)
      BY DEF Line
    <2>2. \A l \in Labels : l \in Matching(x)' => l \in Matching(x) \/ rows[l] = 0
      BY <1>1 DEF Matching, Passes
    <2>3. \A l \in Labels : Line(rows, x)[l] <= Line(rows, x)'[l]
      BY <1>1, <1>2, <2>1
    <2>4. ASSUME NEW l \in Labels \ low PROVE Line(spent, x)[l] <= Line(spent, x)'[l]
      BY <1>1, <1>2, <2>1, <2>2
    <2> QED BY <2>3, <2>4
  <1> QED BY <1>3, <1>4, <1>5

\* Where nothing is stored, nothing stored changes.
LEMMA StoredKeeps ==
  ASSUME UNCHANGED usage, NEW x
  PROVE  /\ Matching(x)' = Matching(x)
         /\ CountOf(x)' = CountOf(x) /\ CostOf(x)' = CostOf(x)
         /\ Line(rows, x)' = Line(rows, x) /\ Line(spent, x)' = Line(spent, x)
         /\ \A f : Groups(x, f)' = Groups(x, f)
  BY DEF usage, Matching, Passes, CountOf, CostOf, Line, Groups

\* Sequences joined together hold what each of them holds.
LEMMA FlattenHolds ==
  ASSUME NEW S, NEW seqs \in Seq(Seq(S))
  PROVE  /\ FlattenSeq(seqs) \in Seq(S)
         /\ \A x : (\E j \in DOMAIN FlattenSeq(seqs) : FlattenSeq(seqs)[j] = x)
                   <=> \E i \in DOMAIN seqs : \E j \in DOMAIN seqs[i] : seqs[i][j] = x
  <1> DEFINE n == Len(seqs)
             In(x, s) == \E j \in DOMAIN s : s[j] = x
             V == Seq(S)
  <1>1. n \in Nat /\ DOMAIN seqs = 1..n /\ \A i \in 1..n : seqs[i] \in V
    OBVIOUS
  <1>2. CASE n = 0
    <2>1. DOMAIN seqs = {} /\ FlattenSeq(seqs) = seqs /\ seqs = <<>>
      BY <1>1, <1>2 DEF FlattenSeq
    <2> QED BY <2>1
  <1>3. CASE n # 0
    <2>1. PICK f : /\ FlattenSeq(seqs) = f[n]
                   /\ \A i \in 1..n :
                         f[i] \in V /\ f[i] = IF i = 1 THEN seqs[i] ELSE f[i - 1] \o seqs[i]
      BY <1>1, <1>3, FlattenJoins
    <2>8. FlattenSeq(seqs) = f[n]
      BY <2>1
    <2>9. \A i \in 1..n : f[i] = IF i = 1 THEN seqs[i] ELSE f[i - 1] \o seqs[i]
      BY <2>1
    <2> DEFINE G == {k \in 0..n : k # 0 =>
                       f[k] \in V /\ \A x : In(x, f[k]) <=> \E i \in 1..k : In(x, seqs[i])}
    <2>10. 0 \in G
      BY <1>1
    <2>11. ASSUME NEW k \in 0..(n - 1), k \in G PROVE k + 1 \in G
      <3>1. k + 1 \in 1..n /\ k + 1 \in 0..n /\ seqs[k + 1] \in V
        BY <1>1
      <3>2. CASE k = 0
        <4>1. f[1] = seqs[1] /\ seqs[1] \in V /\ \A i \in 1..1 : i = 1
          BY <2>9, <3>1, <3>2
        <4> QED BY <3>1, <3>2, <4>1
      <3>3. CASE k # 0
        <4> DEFINE a == f[k]
                   b == seqs[k + 1]
                   c == f[k + 1]
        <4>1. a \in V /\ b \in V /\ c = a \o b
          <5>1. k + 1 # 1 /\ (k + 1) - 1 = k
            BY <3>3
          <5> QED BY <2>9, <2>11, <3>1, <3>3, <5>1
        <4>2. \A x : In(x, a) <=> \E i \in 1..k : In(x, seqs[i])
          BY <2>11, <3>3
        <4>3. /\ c \in V /\ Len(c) = Len(a) + Len(b) /\ DOMAIN c = 1..Len(c)
              /\ DOMAIN a = 1..Len(a) /\ DOMAIN b = 1..Len(b) /\ Len(a) \in Nat /\ Len(b) \in Nat
              /\ \A j \in 1..(Len(a) + Len(b)) : c[j] = IF j <= Len(a) THEN a[j] ELSE b[j - Len(a)]
          <5> HIDE DEF a, b, c
          <5> QED BY <4>1, ConcatProperties, LenProperties
        <4> HIDE DEF a, b, c
        <4>4. \A x : In(x, c) <=> In(x, a) \/ In(x, b)
          <5> TAKE x
          <5>1. ASSUME NEW j \in DOMAIN c PROVE In(c[j], a) \/ In(c[j], b)
            <6>1. CASE j <= Len(a)
              BY <4>3, <6>1
            <6>2. CASE ~(j <= Len(a))
              <7>1. j - Len(a) \in DOMAIN b /\ c[j] = b[j - Len(a)]
                BY <4>3, <6>2
              <7> QED BY <7>1
            <6> QED BY <6>1, <6>2
          <5>2. ASSUME NEW j \in DOMAIN a PROVE In(a[j], c)
            BY <4>3
          <5>3. ASSUME NEW j \in DOMAIN b PROVE In(b[j], c)
            <6>1. j + Len(a) \in DOMAIN c /\ ~(j + Len(a) <= Len(a)) /\ (j + Len(a)) - Len(a) = j
              BY <4>3
            <6>2. c[j + Len(a)] = b[j]
              BY <4>3, <6>1
            <6> QED BY <6>1, <6>2
          <5> QED BY <5>1, <5>2, <5>3
        <4>5. \A x : (\E i \in 1..(k + 1) : In(x, seqs[i])) <=> In(x, b) \/ \E i \in 1..k : In(x, seqs[i])
          <5>1. \A i \in 1..(k + 1) : i = k + 1 \/ i \in 1..k
            OBVIOUS
          <5>2. k + 1 \in 1..(k + 1) /\ \A i \in 1..k : i \in 1..(k + 1)
            OBVIOUS
          <5> HIDE DEF In
          <5> QED BY <5>1, <5>2 DEF b
        <4>6. \A x : In(x, c) <=> \E i \in 1..(k + 1) : In(x, seqs[i])
          <5> HIDE DEF In
          <5> QED BY <4>2, <4>4, <4>5
        <4> QED BY <3>1, <4>3, <4>6 DEF c
      <3> QED BY <3>2, <3>3
    <2>12. n \in G
      <3>1. \A k \in 0..(n - 1) : k \in G => k + 1 \in G
        BY <2>11
      <3>2. n \in 0..n
        BY <1>1
      <3> HIDE DEF G, n
      <3> QED BY <1>1, <2>10, <3>1, <3>2, CountingInduction
    <2> QED BY <1>1, <1>3, <2>8, <2>12
  <1> QED BY <1>2, <1>3

-----------------------------------------------------------------------------
(* Prices *)

\* The models a registry has a price for.
Listed(reg) ==
    {c \in [provider : DOMAIN reg, model : Models] : SupportsModel(reg, c.provider, c.model)}

CallCost(reg, c, in, out) == Calculate(reg, c.provider, c.model, in, out)
Family(c) == NormalizeModelFamily(c.model)

\* A model that has a price has that of one of the entries of its provider.
LEMMA PriceType ==
  ASSUME NEW reg, RegistryFits(reg), NEW p, NEW m, SupportsModel(reg, p, m)
  PROVE  PricePerToken(reg, p, m) \in ModelPricing /\ m \in Models
  <1> DEFINE entries == Entries(reg, p, m)
             n == Len(reg[p])
  <1>1. p \in DOMAIN reg /\ entries # {} /\ reg[p] \in Seq(ModelPricing)
    BY DEF SupportsModel, RegistryFits
  <1>2. n \in Nat /\ entries \in SUBSET (1..n)
    BY <1>1 DEF Entries
  <1>3. \A i \in 1..n : reg[p][i] \in ModelPricing
    BY <1>1
  <1> HIDE DEF entries, n
  <1>4. Max(entries) \in entries
    BY <1>1, <1>2, MaxIn
  <1>5. reg[p][Max(entries)] \in ModelPricing
    BY <1>2, <1>3, <1>4
  <1>6. m \in Models
    <2>1. reg[p][Max(entries)].model = m
      BY <1>4 DEF entries, Entries
    <2> QED BY <1>5, <2>1 DEF ModelPricing
  <1> QED BY <1>5, <1>6 DEF PricePerToken, entries

\* A call costs a whole number.
LEMMA CostType ==
  ASSUME NEW reg, RegistryFits(reg), NEW p, NEW m, SupportsModel(reg, p, m), NEW in \in Int, NEW out \in Int
  PROVE  Calculate(reg, p, m, in, out) \in Int
  <1> DEFINE price == PricePerToken(reg, p, m)
  <1>1. price \in ModelPricing
    BY PriceType
  <1>2. price.in \in Nat /\ price.out \in Nat
    BY <1>1 DEF ModelPricing
  <1> QED BY <1>2 DEF Calculate

\* There are few providers.
LEMMA ProvidersFinite ==
  ASSUME NEW reg, RegistryFits(reg)
  PROVE  IsFiniteSet(DOMAIN reg)
  <1>1. IsFiniteSet({"openai"} \cup {"anthropic"} \cup {"azure-openai"} \cup {"bedrock"} \cup {"vertex-ai"})
    BY FS_Singleton, FS_Union
  <1>2. Supported = {"openai"} \cup {"anthropic"} \cup {"azure-openai"} \cup {"bedrock"} \cup {"vertex-ai"}
    BY DEF Supported
  <1> QED BY <1>1, <1>2, FS_Subset DEF RegistryFits

\* Whatever the order of the providers, the candidates are the models that have a price.
LEMMA CandidatesListed ==
  ASSUME NEW reg, RegistryFits(reg), NEW order \in SetToSeqs(DOMAIN reg)
  PROVE  /\ Candidates(reg, order) \in Seq(Listed(reg))
         /\ \A c \in Listed(reg) :
               \E i \in DOMAIN Candidates(reg, order) : Candidates(reg, order)[i] = c
  <1> DEFINE L == Listed(reg)
             Of(p) == [j \in DOMAIN reg[p] |-> [provider |-> p, model |-> reg[p][j].model]]
             seqs == [i \in DOMAIN order |-> Of(order[i])]
  <1>1. order \in Seq(DOMAIN reg) /\ \A p \in DOMAIN reg : \E i \in DOMAIN order : order[i] = p
    BY ProvidersFinite, OrdersCover
  <1>2. ASSUME NEW p \in DOMAIN reg
        PROVE  Of(p) \in Seq(L)
    <2>1. reg[p] \in Seq(ModelPricing)
      BY DEF RegistryFits
    <2>2. \A j \in DOMAIN reg[p] : [provider |-> p, model |-> reg[p][j].model] \in L
      <3> SUFFICES ASSUME NEW j \in DOMAIN reg[p]
                   PROVE  [provider |-> p, model |-> reg[p][j].model] \in L
        OBVIOUS
      <3>1. reg[p][j] \in ModelPricing
        BY <2>1
      <3>2. reg[p][j].model \in Models
        BY <3>1 DEF ModelPricing
      <3>3. SupportsModel(reg, p, reg[p][j].model)
        BY DEF SupportsModel, Entries
      <3> QED BY <3>2, <3>3 DEF Listed
    <2>3. DOMAIN reg[p] = 1..Len(reg[p]) /\ Len(reg[p]) \in Nat
      BY <2>1
    <2> HIDE DEF L
    <2> QED BY <2>2, <2>3
  <1>3. seqs \in Seq(Seq(L))
    <2>1. \A i \in DOMAIN order : order[i] \in DOMAIN reg
      BY <1>1
    <2>2. DOMAIN order = 1..Len(order) /\ Len(order) \in Nat
      BY <1>1
    <2>3. \A i \in DOMAIN order : Of(order[i]) \in Seq(L)
      BY <1>2, <2>1
    <2> HIDE DEF Of, L
    <2> QED BY <2>2, <2>3
  <1>4. Candidates(reg, order) = FlattenSeq(seqs)
    BY DEF Candidates
  <1>5. ASSUME NEW c \in L
        PROVE  \E i \in DOMAIN seqs : \E j \in DOMAIN seqs[i] : seqs[i][j] = c
    <2>1. /\ c = [provider |-> c.provider, model |-> c.model] /\ c.provider \in DOMAIN reg
          /\ SupportsModel(reg, c.provider, c.model)
      BY DEF Listed
    <2>2. PICK j \in DOMAIN reg[c.provider] : reg[c.provider][j].model = c.model
      BY <2>1 DEF SupportsModel, Entries
    <2>3. PICK i \in DOMAIN order : order[i] = c.provider
      BY <1>1, <2>1
    <2>4. i \in DOMAIN seqs /\ j \in DOMAIN seqs[i] /\ seqs[i][j] = [provider |-> c.provider, model |-> c.model]
      BY <2>2, <2>3
    <2> QED BY <2>1, <2>4
  <1> HIDE DEF seqs, L
  <1>6. /\ FlattenSeq(seqs) \in Seq(L)
        /\ \A x : (\E j \in DOMAIN FlattenSeq(seqs) : FlattenSeq(seqs)[j] = x)
                   <=> \E i \in DOMAIN seqs : \E j \in DOMAIN seqs[i] : seqs[i][j] = x
    BY <1>3, FlattenHolds
  <1> QED BY <1>4, <1>5, <1>6 DEF L

-----------------------------------------------------------------------------
(* RecommendModels *)

\* What the loop over the candidates is to find: the model in use, or a cheaper one of its
\* family; none of the family is cheaper.
Cheapest(reg, own, in, out, c) ==
    /\ c = own \/ (/\ c \in Listed(reg) /\ Family(c) = Family(own)
                   /\ CallCost(reg, c, in, out) < CallCost(reg, own, in, out))
    /\ CallCost(reg, c, in, out) <= CallCost(reg, own, in, out)
    /\ \A d \in Listed(reg) :
          Family(d) = Family(own) => CallCost(reg, c, in, out) <= CallCost(reg, d, in, out)

\* In whatever order it looks, the loop finds it.
LEMMA BestIsCheapest ==
  ASSUME NEW reg, RegistryFits(reg), NEW own \in Listed(reg), NEW in \in Int, NEW out \in Int,
         NEW order \in SetToSeqs(DOMAIN reg)
  PROVE  Cheapest(reg, own, in, out, Best(reg, own, in, out, order))
  <1> DEFINE L == Listed(reg)
             Cost(c) == CallCost(reg, c, in, out)
             Better(best, c) == Family(c) = Family(own) /\ Cost(c) < Cost(best)
             cands == Candidates(reg, order)
             D == DOMAIN cands
             Loops(g) == g = [T \in SUBSET D |->
                                IF T = {} THEN own
                                ELSE IF Better(g[T \ {Max(T)}], cands[Max(T)]) THEN cands[Max(T)]
                                     ELSE g[T \ {Max(T)}]]
             n == Len(cands)
  <1>1. cands \in Seq(L) /\ \A c \in L : \E i \in D : cands[i] = c
    BY CandidatesListed
  <1>2. n \in Nat /\ D = 1..n /\ IsFiniteSet(D) /\ \A i \in D : cands[i] \in L
    <2> HIDE DEF cands, L
    <2> QED BY <1>1, FS_Interval
  <1>3. \A c \in L : Cost(c) \in Int
    BY CostType DEF Listed, CallCost
  <1>4. \A T \in SUBSET D : T # {} => Max(T) \in T
    BY <1>2, MaxIn
  <1>5. \E g : Loops(g)
    <2> DEFINE step == [p \in L \X D |-> IF Better(p[1], cands[p[2]]) THEN cands[p[2]] ELSE p[1]]
               pick == [T \in SUBSET D |-> Max(T)]
    <2>1. step \in [L \X D -> L]
      <3> HIDE DEF L, D, cands, Better
      <3> QED BY <1>2
    <2>2. \A T \in SUBSET D : T # {} => pick[T] \in T
      BY <1>4
    <2>3. PICK g : Folds(L, own, pick, step, D, g)
      <3> HIDE DEF L, D, pick, step
      <3>1. own \in L
        BY DEF L
      <3> QED BY <1>2, <2>1, <2>2, <3>1, FoldsExist
    <2>4. g = [T \in SUBSET D |-> g[T]]
      BY <2>3 DEF Folds
    <2>5. ASSUME NEW T \in SUBSET D
          PROVE  g[T] = IF T = {} THEN own
                        ELSE IF Better(g[T \ {Max(T)}], cands[Max(T)]) THEN cands[Max(T)]
                             ELSE g[T \ {Max(T)}]
      <3>1. g[T] = IF T = {} THEN own ELSE step[<<g[T \ {pick[T]}], pick[T]>>]
        <4> HIDE DEF step, pick
        <4> QED BY <2>3 DEF Folds
      <3>2. CASE T = {}
        BY <3>1, <3>2
      <3>3. CASE T # {}
        <4>1. pick[T] = Max(T) /\ Max(T) \in D
          BY <1>4, <3>3
        <4>2. g[T \ {Max(T)}] \in L
          BY <2>3 DEF Folds
        <4>3. <<g[T \ {Max(T)}], Max(T)>> \in L \X D
          BY <4>1, <4>2
        <4> HIDE DEF L, D, cands, Better, pick
        <4> QED BY <3>1, <3>3, <4>1, <4>3
      <3> QED BY <3>2, <3>3
    <2>6. Loops(g)
      <3> HIDE DEF L, D, cands, Better
      <3> QED BY <2>4, <2>5
    <2> QED BY <2>6
  <1> DEFINE f == CHOOSE g : Loops(g)
  <1>6. Loops(f)
    <2> HIDE DEF Loops
    <2> QED BY <1>5
  <1>7. Best(reg, own, in, out, order) = f[D]
    BY DEF Best, FoldLeft, MapThenFoldSet, CallCost, Family
  <1> HIDE DEF f
  <1> DEFINE Fits(c, T) == /\ c \in L /\ (c = own \/ (Family(c) = Family(own) /\ Cost(c) < Cost(own)))
                           /\ \A i \in T : Family(cands[i]) = Family(own) => Cost(c) <= Cost(cands[i])
             G == {T \in SUBSET D : Fits(f[T], T)}
  <1>8. ASSUME NEW T \in SUBSET D, \A U \in SUBSET T : U # T => U \in G PROVE T \in G
    <2>1. CASE T = {}
      <3>1. f[T] = own
        BY <1>6, <2>1
      <3> QED BY <2>1, <3>1
    <2>2. CASE T # {}
      <3> DEFINE m == Max(T)
                 U == T \ {m}
                 c == f[U]
                 d == cands[m]
      <3>1. m \in T /\ m \in D /\ U \in SUBSET T /\ U # T
        BY <1>4, <2>2
      <3>2. Fits(c, U)
        BY <1>8, <3>1
      <3>3. f[T] = IF Better(c, d) THEN d ELSE c
        BY <1>6, <2>2
      <3>4. d \in L /\ c \in L /\ Cost(c) \in Int /\ Cost(d) \in Int /\ Cost(own) \in Int
        BY <1>2, <1>3, <3>1, <3>2
      <3>5. \A i \in U : i \in D /\ Cost(cands[i]) \in Int
        BY <1>2, <1>3
      <3>6. \A i \in T : i \in U \/ i = m
        OBVIOUS
      <3> HIDE DEF L, D, cands, Cost, m, U, c
      <3>7. CASE Better(c, d)
        BY <3>2, <3>3, <3>4, <3>5, <3>6, <3>7
      <3>8. CASE ~Better(c, d)
        BY <3>2, <3>3, <3>4, <3>5, <3>6, <3>8
      <3> QED BY <3>7, <3>8
    <2> QED BY <2>1, <2>2
  <1>9. Fits(f[D], D)
    <2>1. \A T \in SUBSET D : (\A U \in SUBSET T : U # T => U \in G) => T \in G
      BY <1>8
    <2>2. \A T \in SUBSET D : T \in G
      <3>1. IsFiniteSet(D)
        BY <1>2
      <3> HIDE DEF G, D
      <3> QED BY <3>1, <2>1, SubsetInduction
    <2> QED BY <2>2
  <1>10. f[D] \in L /\ Cost(f[D]) \in Int /\ Cost(own) \in Int
    BY <1>3, <1>9
  <1> HIDE DEF f, L, cands, D, Cost
  <1>11. Cost(f[D]) <= Cost(own)
    BY <1>9, <1>10
  <1>12. \A d \in L : Family(d) = Family(own) => Cost(f[D]) <= Cost(d)
    BY <1>1, <1>9
  <1> QED BY <1>7, <1>9, <1>11, <1>12 DEF Cheapest, L, Cost

\* What RecommendModels gives for the rows of one model: nothing, or the cheapest of the
\* family for a call of average size.
Recommends(reg, own, count, in, out, a) ==
    LET avgIn == Average(in, count)
        avgOut == Average(out, count)
    IN
    \/ (own \notin Listed(reg) \/ Family(own) = "") /\ a = [to |-> own, savings |-> 0]
    \/ /\ own \in Listed(reg) /\ Family(own) # ""
       /\ Cheapest(reg, own, avgIn, avgOut, a.to)
       /\ a.savings = (CallCost(reg, own, avgIn, avgOut) - CallCost(reg, a.to, avgIn, avgOut)) * count

\* Whole division, by the number of rows, rounds down what is not negative.
LEMMA AverageRoundsDown ==
  ASSUME NEW t \in Int, NEW n \in Nat \ {0}
  PROVE  Average(t, n) \in Int /\ (t \in Nat => Average(t, n) \in Nat /\ Average(t, n) * n <= t)
  <1>1. CASE t >= 0
    <2>1. Average(t, n) = t \div n /\ t \in Nat
      BY <1>1 DEF Average
    <2> QED BY <2>1
  <1>2. CASE ~(t >= 0)
    <2>1. Average(t, n) = -((-t) \div n) /\ t \notin Nat /\ -t \in Nat
      BY <1>2 DEF Average
    <2> QED BY <2>1
  <1> QED BY <1>1, <1>2

\* A natural number of times as much is more.
LEMMA TimesGrows ==
  ASSUME NEW a \in Nat, NEW b \in Nat, a <= b, NEW c \in Nat
  PROVE  a * c <= b * c /\ a * c \in Nat /\ b * c \in Nat
  <1>1. PICK d \in Nat : b = a + d
    <2>1. b - a \in Nat /\ b = a + (b - a)
      OBVIOUS
    <2> QED BY <2>1
  <1>2. b * c = a * c + d * c /\ d * c \in Nat /\ a * c \in Nat
    BY <1>1
  <1> QED BY <1>2

\* The price of n average calls is at most that of all their tokens.
LEMMA AveragesCostLess ==
  ASSUME NEW a \in Nat, NEW b \in Nat, NEW n \in Nat, NEW s \in Nat, NEW t \in Nat,
         NEW p \in Nat, NEW q \in Nat, a * n <= s, b * n <= t
  PROVE  (a * p + b * q) * n <= s * p + t * q
  <1>1. a * n \in Nat /\ b * n \in Nat
    OBVIOUS
  <1>2. (a * n) * p <= s * p /\ (b * n) * q <= t * q
    BY <1>1, TimesGrows
  <1>3. (a * p + b * q) * n = (a * n) * p + (b * n) * q
    OBVIOUS
  <1>4. (a * n) * p \in Nat /\ (b * n) * q \in Nat /\ s * p \in Nat /\ t * q \in Nat
    BY <1>1
  <1> QED BY <1>2, <1>3, <1>4

\* So is the difference of two prices, if none is negative.
LEMMA AveragesSaveLess ==
  ASSUME NEW a \in Nat, NEW b \in Nat, NEW n \in Nat, NEW s \in Nat, NEW t \in Nat,
         NEW p \in Nat, NEW q \in Nat, NEW x \in Nat, NEW y \in Nat, a * n <= s, b * n <= t
  PROVE  /\ ((a * p + b * q) - (a * x + b * y)) * n <= s * p + t * q
         /\ x <= p /\ y <= q =>
               ((a * p + b * q) - (a * x + b * y)) * n <= (s * p + t * q) - (s * x + t * y)
  <1>1. ((a * p + b * q) - (a * x + b * y)) * n = (a * p + b * q) * n - (a * x + b * y) * n
    OBVIOUS
  <1>2. (a * p + b * q) * n \in Nat /\ (a * x + b * y) * n \in Nat
    OBVIOUS
  <1>3. (a * p + b * q) * n <= s * p + t * q /\ s * p + t * q \in Nat
    BY AveragesCostLess
  <1>4. ASSUME x <= p, y <= q
        PROVE  ((a * p + b * q) - (a * x + b * y)) * n <= (s * p + t * q) - (s * x + t * y)
    <2>1. p - x \in Nat /\ q - y \in Nat
      BY <1>4
    <2>2. (a * (p - x) + b * (q - y)) * n <= s * (p - x) + t * (q - y)
      BY <2>1, AveragesCostLess
    <2>3. a * (p - x) + b * (q - y) = (a * p + b * q) - (a * x + b * y)
      OBVIOUS
    <2>4. s * (p - x) + t * (q - y) = (s * p + t * q) - (s * x + t * y)
      OBVIOUS
    <2> QED BY <2>2, <2>3, <2>4
  <1> QED BY <1>1, <1>2, <1>3, <1>4

\* What is recommended, for whatever rows there are.
LEMMA AdviceRecommends ==
  ASSUME NEW reg, RegistryFits(reg), NEW p, NEW m, NEW own, own = [provider |-> p, model |-> m],
         NEW n \in Nat \ {0}, NEW in \in Int, NEW out \in Int,
         NEW a \in RecommendModels(reg, own, n, in, out)
  PROVE  Recommends(reg, own, n, in, out, a) /\ a.savings \in Nat
  <1> DEFINE avgIn == Average(in, n)
             avgOut == Average(out, n)
             Cost(c) == CallCost(reg, c, avgIn, avgOut)
  <1>1. avgIn \in Int /\ avgOut \in Int
    BY AverageRoundsDown
  <1>2. CASE SupportsModel(reg, own.provider, own.model) /\ NormalizeModelFamily(own.model) # ""
    <2>1. PICK order \in SetToSeqs(DOMAIN reg) :
             a = [to |-> Best(reg, own, avgIn, avgOut, order),
                  savings |-> (Cost(own) - Cost(Best(reg, own, avgIn, avgOut, order))) * n]
      BY <1>2 DEF RecommendModels, CallCost
    <2>2. own \in Listed(reg) /\ Family(own) # ""
      <3>1. p \in DOMAIN reg /\ m \in Models /\ SupportsModel(reg, p, m)
        BY <1>2, PriceType DEF SupportsModel
      <3> QED BY <1>2, <3>1 DEF Listed, Family
    <2> DEFINE b == Best(reg, own, avgIn, avgOut, order)
    <2>3. Cheapest(reg, own, avgIn, avgOut, b)
      BY <1>1, <2>2, BestIsCheapest
    <2>4. a.to = b /\ a.savings = (Cost(own) - Cost(b)) * n
      BY <2>1
    <2>5. b \in Listed(reg)
      BY <2>2, <2>3 DEF Cheapest
    <2>6. Cost(own) \in Int /\ Cost(b) \in Int
      BY <1>1, <2>2, <2>5, CostType DEF CallCost, Listed
    <2>7. Cost(b) <= Cost(own)
      BY <2>3 DEF Cheapest
    <2> HIDE DEF b, avgIn, avgOut, Cost
    <2>8. Cost(own) - Cost(b) \in Nat
      BY <2>6, <2>7
    <2>9. a.savings \in Nat
      BY <2>4, <2>8
    <2> QED BY <2>2, <2>3, <2>4, <2>9 DEF Recommends, avgIn, avgOut, Cost
  <1>3. CASE ~(SupportsModel(reg, own.provider, own.model) /\ NormalizeModelFamily(own.model) # "")
    <2>1. a = [to |-> own, savings |-> 0]
      BY <1>3 DEF RecommendModels
    <2>2. own \notin Listed(reg) \/ Family(own) = ""
      BY <1>3 DEF Listed, Family
    <2> QED BY <2>1, <2>2 DEF Recommends
  <1> QED BY <1>2, <1>3

\* A recommendation is one saving, whichever model it names, and one that can be had.
LEMMA AdviceCanBeHad ==
  ASSUME NEW reg, RegistryFits(reg), NEW p, NEW m, NEW own, own = [provider |-> p, model |-> m],
         NEW n \in Nat \ {0}, NEW in \in Int, NEW out \in Int,
         NEW a \in RecommendModels(reg, own, n, in, out),
         NEW b \in RecommendModels(reg, own, n, in, out), a.to # own
  PROVE  /\ a.savings > 0 /\ b.savings = a.savings
         /\ a.to \in Listed(reg) /\ own \in Listed(reg)
         /\ in \in Nat /\ out \in Nat =>
              /\ a.savings <= CallCost(reg, own, in, out)
              /\ LET q == PricePerToken(reg, p, m)
                     r == PricePerToken(reg, a.to.provider, a.to.model)
                 IN r.in <= q.in /\ r.out <= q.out =>
                       a.savings <= CallCost(reg, own, in, out) - CallCost(reg, a.to, in, out)
  <1> DEFINE avgIn == Average(in, n)
             avgOut == Average(out, n)
             Cost(c) == CallCost(reg, c, avgIn, avgOut)
             q == PricePerToken(reg, p, m)
             r == PricePerToken(reg, a.to.provider, a.to.model)
  <1>1. /\ avgIn \in Int /\ avgOut \in Int
        /\ in \in Nat => avgIn \in Nat /\ avgIn * n <= in
        /\ out \in Nat => avgOut \in Nat /\ avgOut * n <= out
    BY AverageRoundsDown
  <1>2. /\ Recommends(reg, own, n, in, out, a) /\ a.savings \in Nat
        /\ Recommends(reg, own, n, in, out, b) /\ b.savings \in Nat
    BY AdviceRecommends
  <1>3. /\ own \in Listed(reg) /\ Family(own) # "" /\ Cheapest(reg, own, avgIn, avgOut, a.to)
        /\ a.savings = (Cost(own) - Cost(a.to)) * n
    <2>1. a # [to |-> own, savings |-> 0]
      OBVIOUS
    <2> QED BY <1>2, <2>1 DEF Recommends
  <1>4. Cheapest(reg, own, avgIn, avgOut, b.to) /\ b.savings = (Cost(own) - Cost(b.to)) * n
    BY <1>2, <1>3 DEF Recommends
  <1>5. /\ a.to \in Listed(reg) /\ Family(a.to) = Family(own) /\ Cost(a.to) < Cost(own)
        /\ b.to \in Listed(reg) /\ (b.to = own \/ Family(b.to) = Family(own))
    BY <1>3, <1>4 DEF Cheapest
  <1>6. Cost(own) \in Int /\ Cost(a.to) \in Int /\ Cost(b.to) \in Int
    BY <1>1, <1>3, <1>5, CostType DEF CallCost, Listed
  <1>7. Cost(a.to) = Cost(b.to)
    <2>1. Cost(b.to) <= Cost(a.to)
      BY <1>4, <1>5 DEF Cheapest
    <2>2. Cost(a.to) <= Cost(b.to)
      BY <1>3, <1>5 DEF Cheapest
    <2> HIDE DEF Cost
    <2> QED BY <1>6, <2>1, <2>2
  <1>8. q \in ModelPricing /\ r \in ModelPricing
    BY <1>3, <1>5, PriceType DEF Listed
  <1>9. q.in \in Nat /\ q.out \in Nat /\ r.in \in Nat /\ r.out \in Nat
    BY <1>8 DEF ModelPricing
  <1>10. /\ Cost(own) = avgIn * q.in + avgOut * q.out
         /\ Cost(a.to) = avgIn * r.in + avgOut * r.out
         /\ CallCost(reg, own, in, out) = in * q.in + out * q.out
         /\ CallCost(reg, a.to, in, out) = in * r.in + out * r.out
    BY DEF CallCost, Calculate
  <1> HIDE DEF avgIn, avgOut, Cost, q, r
  <1>11. a.savings > 0
    <2>1. Cost(own) - Cost(a.to) \in Nat /\ 1 <= Cost(own) - Cost(a.to)
      BY <1>5, <1>6
    <2>2. 1 * n <= (Cost(own) - Cost(a.to)) * n
      BY <2>1, TimesGrows
    <2>3. 1 * n <= a.savings
      BY <1>3, <2>2
    <2> QED BY <1>2, <2>3
  <1>12. b.savings = a.savings
    BY <1>3, <1>4, <1>7
  <1>13. ASSUME in \in Nat, out \in Nat
         PROVE  /\ (Cost(own) - Cost(a.to)) * n <= in * q.in + out * q.out
                /\ r.in <= q.in /\ r.out <= q.out =>
                      (Cost(own) - Cost(a.to)) * n <= (in * q.in + out * q.out) - (in * r.in + out * r.out)
    <2>1. /\ ((avgIn * q.in + avgOut * q.out) - (avgIn * r.in + avgOut * r.out)) * n <= in * q.in + out * q.out
          /\ r.in <= q.in /\ r.out <= q.out =>
                ((avgIn * q.in + avgOut * q.out) - (avgIn * r.in + avgOut * r.out)) * n
                   <= (in * q.in + out * q.out) - (in * r.in + out * r.out)
      BY <1>1, <1>9, <1>13, AveragesSaveLess, ZenonT(30)
    <2> QED BY <1>10, <2>1
  <1>14. in \in Nat /\ out \in Nat => a.savings <= CallCost(reg, own, in, out)
    BY <1>3, <1>10, <1>13
  <1>15. in \in Nat /\ out \in Nat /\ r.in <= q.in /\ r.out <= q.out =>
            a.savings <= CallCost(reg, own, in, out) - CallCost(reg, a.to, in, out)
    BY <1>3, <1>10, <1>13
  <1> QED BY <1>3, <1>5, <1>11, <1>12, <1>14, <1>15 DEF q, r

\* Whoever uses the model recommended is recommended no other.
LEMMA AdviceIsFinal ==
  ASSUME NEW reg, RegistryFits(reg), NEW p, NEW m, NEW own, own = [provider |-> p, model |-> m],
         NEW n \in Nat \ {0}, NEW in \in Int, NEW out \in Int,
         NEW a \in RecommendModels(reg, own, n, in, out), a.to # own,
         NEW b \in RecommendModels(reg, a.to, n, in, out)
  PROVE  b.to = a.to
  <1> DEFINE avgIn == Average(in, n)
             avgOut == Average(out, n)
             Cost(c) == CallCost(reg, c, avgIn, avgOut)
  <1>1. avgIn \in Int /\ avgOut \in Int
    BY AverageRoundsDown
  <1>2. own \in Listed(reg) /\ Cheapest(reg, own, avgIn, avgOut, a.to)
    <2>1. a # [to |-> own, savings |-> 0]
      OBVIOUS
    <2>2. Recommends(reg, own, n, in, out, a)
      BY AdviceRecommends
    <2> QED BY <2>1, <2>2 DEF Recommends
  <1>3. a.to \in Listed(reg) /\ Family(a.to) = Family(own)
    BY <1>2 DEF Cheapest
  <1>4. a.to = [provider |-> a.to.provider, model |-> a.to.model]
    BY <1>3 DEF Listed
  <1>5. Recommends(reg, a.to, n, in, out, b)
    BY <1>4, AdviceRecommends
  <1>6. CASE b = [to |-> a.to, savings |-> 0]
    BY <1>6
  <1>7. CASE Cheapest(reg, a.to, avgIn, avgOut, b.to) /\ b.to # a.to
    <2>1. b.to \in Listed(reg) /\ Family(b.to) = Family(own) /\ Cost(b.to) < Cost(a.to)
      BY <1>3, <1>7 DEF Cheapest
    <2>2. Cost(a.to) <= Cost(b.to)
      BY <1>2, <2>1 DEF Cheapest
    <2>3. Cost(a.to) \in Int /\ Cost(b.to) \in Int
      BY <1>1, <1>3, <2>1, CostType DEF CallCost, Listed
    <2> HIDE DEF Cost
    <2> QED BY <2>1, <2>2, <2>3
  <1> QED BY <1>5, <1>6, <1>7 DEF Recommends

-----------------------------------------------------------------------------
(* A statement of a report.  Here s is the report before it and t after it. *)

\* What ReportFits says of a report alone.
PartsFit(s, before) ==
    /\ ReportShape(s)
    /\ s.busy => PartsBounded(s) /\ Ordered(s) /\ Grown(s, before[s.filter])

\* Running the statement at the head of the plan, with the parts `changed` set by it.
Runs(s, t, step, changed) ==
    /\ s.busy /\ s.todo # <<>> /\ Head(s.todo) = step
    /\ DOMAIN t = ReportFields /\ t.todo = Tail(s.todo)
    /\ \A f \in ReportFields \ (changed \cup {"todo"}) : t[f] = s[f]

\* The sums over the groups a report has read are whole numbers.
LEMMA GroupSums ==
  ASSUME NEW s, ReportShape(s)
  PROVE  \A f \in Fields : Sum(s.by[f]) \in Int
  BY TotalInt DEF ReportShape, Sum

\* The statement that runs is the one at the report's place, which moves on.
LEMMA RunsMoves ==
  ASSUME NEW s, ReportShape(s), NEW t, NEW step, NEW changed, Runs(s, t, step, changed),
         changed \cap {"endpoint", "busy", "filter"} = {}
  PROVE  /\ t.endpoint = s.endpoint /\ t.filter = s.filter /\ t.busy /\ s.busy
         /\ PlanFits(t) /\ Progress(t) = Progress(s) + 1
         /\ step = "totals" => s.endpoint # "recommendations" /\ Progress(s) = 0
         /\ step = "tenant" => s.endpoint # "recommendations" /\ Progress(s) = 1
         /\ step = "provider" => s.endpoint # "recommendations" /\ Progress(s) = 2
         /\ step = "model" => s.endpoint # "recommendations" /\ Progress(s) = 3
         /\ step = "project" => s.endpoint # "recommendations" /\ Progress(s) = 4
         /\ step = "records" => s.endpoint # "recommendations" /\ Progress(s) = 5
         /\ step = "advice" => s.endpoint = "recommendations" /\ Progress(s) = 0
  <1>1. s.endpoint \in Endpoints /\ PlanFits(s) /\ s.todo # <<>> /\ Head(s.todo) = step
    BY DEF ReportShape, Runs
  <1>2. t.endpoint = s.endpoint /\ t.filter = s.filter /\ t.busy /\ s.busy /\ t.todo = Tail(s.todo)
    BY DEF Runs, ReportFields
  <1>3. /\ PlanFits(t) /\ Progress(t) = Progress(s) + 1
        /\ Progress(s) \in 0..(Len(Plan(s.endpoint)) - 1)
        /\ step = Plan(s.endpoint)[Progress(s) + 1]
    BY <1>1, <1>2, PlanMoves
  <1>4. "metrics" # "recommendations"
    OBVIOUS
  <1> QED BY <1>1, <1>2, <1>3, <1>4, PlaceOf

\* SELECT COUNT(*), SUM(cost_usd).
LEMMA TotalsFit ==
  ASSUME StoredFits, NEW s, NEW t, NEW before, PartsFit(s, before), AnswersShape(before),
         \A x \in Filters : Bounded(before[x], x),
         Runs(s, t, "totals", {"count", "cost"}),
         t.count = CountOf(s.filter), t.cost = CostOf(s.filter)
  PROVE  PartsFit(t, before) /\ Exact(t)
  <1>1. ReportShape(s) /\ PartsBounded(s)
    BY DEF PartsFit, Runs
  <1>2. /\ t.endpoint = s.endpoint /\ t.filter = s.filter /\ t.busy /\ PlanFits(t)
        /\ t.endpoint # "recommendations" /\ Progress(t) = 1
    BY <1>1, RunsMoves
  <1>3. /\ t.by = s.by /\ t.lineRows = s.lineRows /\ t.lineCost = s.lineCost /\ t.advice = s.advice
        /\ DOMAIN t = ReportFields /\ t.cut = s.cut
    BY DEF Runs, ReportFields, CounterFields
  <1>4. CountOf(s.filter) \in Nat /\ CostOf(s.filter) \in Int
    BY StoredParts
  <1>5. ReportShape(t)
    BY <1>1, <1>2, <1>3, <1>4 DEF ReportShape, AreCounters
  <1>6. PartsBounded(t)
    BY <1>1, <1>2, <1>3, <1>4 DEF PartsBounded, CountsBounded, CostsBounded
  <1>7. Ordered(t) /\ Exact(t)
    BY <1>2 DEF Ordered, CostsOrdered, Exact
  <1>8. Grown(t, before[t.filter])
    <2>1. t.filter \in Filters
      BY <1>5 DEF ReportShape
    <2> QED BY <1>2, <2>1 DEF Grown, Bounded, CountsBounded
  <1> QED BY <1>5, <1>6, <1>7, <1>8 DEF PartsFit

\* SELECT f, SUM(cost_usd) ... GROUP BY f.
LEMMA GroupsFit ==
  ASSUME StoredFits, NEW s, NEW t, NEW before, PartsFit(s, before), NEW f \in Fields,
         Runs(s, t, f, {"by"}), t.by = [s.by EXCEPT ![f] = Groups(s.filter, f)]
  PROVE  PartsFit(t, before) /\ (Exact(s) => Exact(t))
  <1> DEFINE x == s.filter
             part == Groups(x, f)
  <1>1. ReportShape(s) /\ PartsBounded(s) /\ Ordered(s) /\ Grown(s, before[x])
    BY DEF PartsFit, Runs
  <1>2. /\ t.endpoint = s.endpoint /\ t.filter = x /\ t.busy /\ PlanFits(t)
        /\ t.endpoint # "recommendations" /\ Progress(t) = Progress(s) + 1
        /\ f = "tenant" => Progress(s) = 1
        /\ f = "provider" => Progress(s) = 2
        /\ f = "model" => Progress(s) = 3
        /\ f = "project" => Progress(s) = 4
    BY <1>1, RunsMoves DEF Fields
  <1>3. /\ t.count = s.count /\ t.cost = s.cost /\ t.lineRows = s.lineRows /\ t.lineCost = s.lineCost
        /\ t.advice = s.advice /\ DOMAIN t = ReportFields /\ t.cut = s.cut
    BY DEF Runs, ReportFields, CounterFields
  <1>4. CostOf(x) \in Int
    BY StoredParts
  <1>5. IsFiniteSet(DOMAIN part) /\ Sum(part) = CostOf(x) /\ \A v \in DOMAIN part : part[v] \in Int
    BY GroupParts
  <1>6. /\ DOMAIN t.by = Fields /\ t.by[f] = part
        /\ \A g \in Fields \ {f} : t.by[g] = s.by[g]
    BY <1>1 DEF ReportShape
  <1> HIDE DEF part
  <1>7. ReportShape(t)
    BY <1>1, <1>2, <1>3, <1>5, <1>6 DEF ReportShape, AreCounters
  <1>8. \A g \in Fields : Sum(t.by[g]) \in Int /\ Sum(s.by[g]) \in Int
    BY <1>1, <1>7, GroupSums
  <1>9. PartsBounded(t)
    <2>1. CountsBounded(t, x)
      BY <1>1, <1>2, <1>3 DEF PartsBounded, CountsBounded
    <2>2. Progress(t) >= 6 => LinesBounded(t, x)
      BY <1>2 DEF Fields
    <2>3. Uncut(t, x) => CostsBounded(t, x)
      <3>1. Uncut(t, x) => CostsBounded(s, x)
        BY <1>1, <1>2, <1>3 DEF PartsBounded, Uncut
      <3> QED BY <1>2, <1>3, <1>4, <1>5, <1>6, <3>1 DEF CostsBounded, Fields
    <2> QED BY <1>2, <2>1, <2>2, <2>3 DEF PartsBounded
  <1>10. ~(Progress(t) >= 6)
    BY <1>2 DEF Fields
  <1>11. Ordered(t)
    <2>1. Uncut(t, x) => CostsBounded(s, x) /\ CostsOrdered(s)
      BY <1>1, <1>2, <1>3 DEF PartsBounded, Ordered, Uncut
    <2>2. Uncut(t, x) => CostsOrdered(t)
      BY <1>2, <1>3, <1>5, <1>6, <1>8, <2>1 DEF CostsOrdered, CostsBounded, Fields
    <2> QED BY <1>2, <1>10, <2>2 DEF Ordered
  <1>12. Grown(t, before[t.filter])
    BY <1>1, <1>2, <1>3 DEF Grown, Fields
  <1>13. Exact(s) => Exact(t)
    BY <1>2, <1>3, <1>6 DEF Exact, Fields, part
  <1> QED BY <1>7, <1>9, <1>11, <1>12, <1>13 DEF PartsFit

\* SELECT of the rows, and the grouping of renderPrometheusMetrics.
LEMMA RecordsFit ==
  ASSUME StoredFits, NEW s, NEW t, NEW before, PartsFit(s, before), AnswersShape(before),
         \A x \in Filters : Bounded(before[x], x),
         Runs(s, t, "records", {"lineRows", "lineCost"}),
         t.lineRows = Line(rows, s.filter), t.lineCost = Line(spent, s.filter)
  PROVE  PartsFit(t, before) /\ (Exact(s) => Exact(t))
  <1> DEFINE x == s.filter
  <1>1. ReportShape(s) /\ PartsBounded(s) /\ Ordered(s) /\ Grown(s, before[x])
    BY DEF PartsFit, Runs
  <1>2. /\ t.endpoint = s.endpoint /\ t.filter = x /\ t.busy /\ PlanFits(t)
        /\ t.endpoint # "recommendations" /\ Progress(t) = 6 /\ Progress(s) = 5
    BY <1>1, RunsMoves
  <1>3. /\ t.count = s.count /\ t.cost = s.cost /\ t.by = s.by
        /\ t.advice = s.advice /\ DOMAIN t = ReportFields /\ t.cut = s.cut
    BY DEF Runs, ReportFields, CounterFields
  <1>4. /\ Line(rows, x) \in [Labels -> Nat] /\ Line(spent, x) \in [Labels -> Int] /\ CostOf(x) \in Int
        /\ Sum(Line(rows, x)) = CountOf(x) /\ Sum(Line(spent, x)) = CostOf(x)
    BY StoredParts
  <1>5. ReportShape(t)
    BY <1>1, <1>2, <1>3, <1>4 DEF ReportShape, AreCounters
  <1>6. PartsBounded(t)
    <2>1. CountsBounded(t, x)
      BY <1>1, <1>2, <1>3, <1>4 DEF PartsBounded, CountsBounded
    <2>2. LinesBounded(t, x)
      BY <1>4 DEF LinesBounded
    <2>3. Uncut(t, x) => CostsBounded(t, x)
      <3>1. Uncut(t, x) => CostsBounded(s, x)
        BY <1>1, <1>2, <1>3 DEF PartsBounded, Uncut
      <3> QED BY <1>2, <1>3, <1>4, <3>1 DEF CostsBounded
    <2> QED BY <1>2, <2>1, <2>2, <2>3 DEF PartsBounded
  <1>7. Ordered(t)
    <2>1. s.count <= CountOf(x)
      BY <1>1 DEF PartsBounded, CountsBounded
    <2>2. Uncut(t, x) => CostsBounded(s, x) /\ CostsOrdered(s)
      BY <1>1, <1>2, <1>3 DEF PartsBounded, Ordered, Uncut
    <2>3. Uncut(t, x) => CostsOrdered(t)
      BY <1>2, <1>3, <1>4, <2>2 DEF CostsOrdered, CostsBounded
    <2> QED BY <1>2, <1>3, <1>4, <2>1, <2>3 DEF Ordered
  <1>8. Grown(t, before[t.filter])
    <2>1. t.filter \in Filters
      BY <1>5 DEF ReportShape
    <2> QED BY <1>1, <1>2, <1>3, <2>1 DEF Grown, Bounded, CountsBounded, LinesBounded
  <1>9. Exact(s) => Exact(t)
    BY <1>2, <1>3 DEF Exact
  <1> QED BY <1>5, <1>6, <1>7, <1>8, <1>9 DEF PartsFit

\* SELECT of the rows, and RecommendModels.
LEMMA AdviceFits ==
  ASSUME StoredFits, NEW s, NEW t, NEW before, PartsFit(s, before),
         Runs(s, t, "advice", {"advice"}), DOMAIN t.advice = Matching(s.filter),
         \A l \in Matching(s.filter) : t.advice[l] \in Advice(l, Own(l))
  PROVE  PartsFit(t, before) /\ Exact(t)
  <1> DEFINE x == s.filter
  <1>1. ReportShape(s) /\ PartsBounded(s)
    BY DEF PartsFit, Runs
  <1>2. /\ t.endpoint = s.endpoint /\ t.filter = x /\ t.busy /\ PlanFits(t)
        /\ t.endpoint = "recommendations" /\ Progress(t) = 1
    BY <1>1, RunsMoves
  <1>3. /\ t.count = s.count /\ t.cost = s.cost /\ t.lineRows = s.lineRows /\ t.lineCost = s.lineCost
        /\ t.by = s.by /\ DOMAIN t = ReportFields /\ t.cut = s.cut
    BY DEF Runs, ReportFields, CounterFields
  <1>4. ASSUME NEW l \in Matching(x) PROVE l \in Labels /\ t.advice[l].savings \in Nat
    <2>1. l \in Labels /\ rows[l] \in Nat \ {0} /\ tokens[l].in \in Int /\ tokens[l].out \in Int
      BY DEF Matching, Passes, StoredFits, Tokens
    <2>2. RegistryFits(registry)
      BY DEF StoredFits
    <2>3. t.advice[l] \in RecommendModels(registry, Own(l), rows[l], tokens[l].in, tokens[l].out)
      BY DEF Advice
    <2> QED BY <2>1, <2>2, <2>3, AdviceRecommends DEF Own
  <1>5. ReportShape(t)
    BY <1>1, <1>2, <1>3, <1>4 DEF ReportShape, AreCounters
  <1>6. PartsBounded(t)
    BY <1>1, <1>2, <1>3 DEF PartsBounded, CountsBounded
  <1>7. Ordered(t) /\ Grown(t, before[t.filter])
    BY <1>2 DEF Ordered, Grown
  <1>8. Exact(t)
    BY <1>2 DEF Exact
  <1> QED BY <1>5, <1>6, <1>7, <1>8 DEF PartsFit

-----------------------------------------------------------------------------
(* The steps. *)

\* A complete report has all of its plan behind it.
LEMMA CompleteReports ==
  ASSUME IInv, NEW r \in Readers, Complete(r)
  PROVE  LET s == report[r] IN
         /\ s.endpoint = "metrics" => Progress(s) = 6
         /\ s.endpoint = "summary" => Progress(s) = 5
         /\ s.endpoint = "recommendations" => Progress(s) = 1
  <1>1. report[r].todo = <<>>
    BY DEF Complete
  <1>2. Len(report[r].todo) = 0
    BY <1>1
  <1> QED BY <1>2, Plans DEF Progress

\* Of what is stored, and of what has been shown, a report sees only what it is given.
LEMMA OtherReports ==
  ASSUME NEW q \in Readers, ReportFits(q), UNCHANGED <<usage, registry>>,
         report'[q] = report[q], shown'[q] = shown[q], q \in calm' => q \in calm
  PROVE  ReportFits(q)'
  <1> DEFINE s == report[q]
             a == shown[q]
  <1>1. \A x : /\ CountOf(x)' = CountOf(x) /\ CostOf(x)' = CostOf(x)
               /\ Line(rows, x)' = Line(rows, x) /\ Line(spent, x)' = Line(spent, x)
               /\ Matching(x)' = Matching(x) /\ \A f : Groups(x, f)' = Groups(x, f)
    BY StoredKeeps
  <1>2. \A l \in Labels : \A own : Advice(l, own)' = Advice(l, own)
    BY DEF Advice, usage
  <1>3. \A b, x : Bounded(b, x) => Bounded(b, x)'
    BY <1>1 DEF Bounded, CountsBounded, LinesBounded
  <1>4. PartsBounded(s) => PartsBounded(s)'
    BY <1>1, <1>3 DEF PartsBounded, CountsBounded, LinesBounded, CostsBounded
  <1>5. Exact(s) => Exact(s)'
    BY <1>1, <1>2 DEF Exact, Matching, Passes
  <1> QED BY <1>3, <1>4, <1>5 DEF ReportFits

\* A step of one report that leaves it fitting keeps the invariant.
LEMMA ReportSteps ==
  ASSUME IInv, NEW r \in Readers, UNCHANGED <<usage, prices>>,
         DOMAIN report' = Readers, \A q \in Readers \ {r} : report'[q] = report[q],
         DOMAIN shown' = Readers, \A q \in Readers \ {r} : shown'[q] = shown[q],
         calm' \subseteq calm \cup {r}, r \in calm' => report'[r].busy /\ Exact(report'[r]),
         PartsFit(report'[r], shown'[r]), AnswersShape(shown'[r]),
         \A x \in Filters : Bounded(shown'[r][x], x)
  PROVE  IInv'
  <1>1. UNCHANGED <<usage, registry, dated>>
    BY DEF prices
  <1>2. \A q \in Readers \ {r} : ReportFits(q)'
    BY <1>1, OtherReports DEF IInv
  <1>3. PICK t : t = report'[r]
    OBVIOUS
  <1>4. PICK a : a = shown'[r]
    OBVIOUS
  <1>5. ReportFits(r)'
    <2>1. \A x : /\ CountOf(x)' = CountOf(x) /\ CostOf(x)' = CostOf(x)
                 /\ Line(rows, x)' = Line(rows, x) /\ Line(spent, x)' = Line(spent, x)
                 /\ Matching(x)' = Matching(x) /\ \A f : Groups(x, f)' = Groups(x, f)
      BY StoredKeeps
    <2>2. \A l \in Labels : \A own : Advice(l, own)' = Advice(l, own)
      BY <1>1 DEF Advice, usage
    <2>3. \A b, x : Bounded(b, x) => Bounded(b, x)'
      BY <2>1 DEF Bounded, CountsBounded, LinesBounded
    <2>4. \A b : PartsBounded(b) => PartsBounded(b)'
      BY <2>1, <2>3 DEF PartsBounded, CountsBounded, LinesBounded, CostsBounded
    <2>5. \A b : Exact(b) => Exact(b)'
      BY <2>1, <2>2 DEF Exact, Matching, Passes
    <2>6. /\ ReportShape(t) /\ AnswersShape(a)
          /\ t.busy => PartsBounded(t)' /\ Ordered(t) /\ Grown(t, a[t.filter])
          /\ r \in calm' => t.busy /\ Exact(t)'
          /\ \A x \in Filters : Bounded(a[x], x)'
      BY <1>3, <1>4, <2>3, <2>4, <2>5 DEF PartsFit
    <2> QED BY <1>3, <1>4, <2>6 DEF ReportFits
  <1>6. StoredFits' /\ PaidAsPriced'
    BY <1>1 DEF IInv, StoredFits, PaidAsPriced, PaidWith, usage
  <1>7. calm' \subseteq Readers
    BY DEF IInv
  <1> QED BY <1>2, <1>5, <1>6, <1>7 DEF IInv

\* What the invariant says of a reader's report and of what it has been shown.
LEMMA ReportParts ==
  ASSUME IInv, NEW r \in Readers
  PROVE  /\ PartsFit(report[r], shown[r]) /\ AnswersShape(shown[r]) /\ ReportShape(report[r])
         /\ \A x \in Filters : Bounded(shown[r][x], x)
         /\ r \in calm => report[r].busy /\ Exact(report[r])
         /\ StoredFits /\ Selected(r) = Matching(report[r].filter)
  BY DEF IInv, ReportFits, PartsFit, Selected, Matching

\* The statements, as steps.
LEMMA ReadsKeep ==
  ASSUME IInv, NEW r \in Readers, ReadTotals(r) \/ ReadField(r) \/ ReadRecords(r) \/ ReadAdvice(r)
  PROVE  IInv'
  <1> DEFINE s == report[r]
             t == report'[r]
             x == s.filter
  <1>1. /\ PartsFit(s, shown[r]) /\ AnswersShape(shown[r]) /\ ReportShape(s) /\ StoredFits
        /\ \A y \in Filters : Bounded(shown[r][y], y)
        /\ r \in calm => s.busy /\ Exact(s)
        /\ Selected(r) = Matching(x)
    BY ReportParts
  <1>2. DOMAIN report = Readers /\ DOMAIN s = ReportFields /\ DOMAIN s.by = Fields
    BY <1>1 DEF IInv, ReportShape
  <1>3. /\ UNCHANGED <<usage, prices>> /\ shown' = shown /\ calm' = calm /\ DOMAIN report' = Readers
        /\ \A q \in Readers \ {r} : report'[q] = report[q]
    BY <1>2 DEF ReadTotals, ReadField, ReadRecords, ReadAdvice, IInv
  <1>4. PartsFit(t, shown[r]) /\ (Exact(s) => Exact(t)) /\ t.busy
    <2>1. CASE ReadTotals(r)
      <3>1. /\ Runs(s, t, "totals", {"count", "cost"})
            /\ t.count = CountOf(x) /\ t.cost = CostOf(x)
        BY <1>1, <1>2, <2>1 DEF ReadTotals, Doing, Runs, ReportFields, CounterFields, CountOf, CostOf
      <3>2. t.busy
        BY <3>1 DEF Runs, ReportFields
      <3> HIDE DEF s, t
      <3> QED BY <1>1, <3>1, <3>2, TotalsFit DEF x
    <2>2. CASE ReadField(r)
      <3>1. PICK f \in Fields :
               /\ Doing(r, f)
               /\ report' = [report EXCEPT ![r].by[f] = GroupedBy(r, f), ![r].todo = Tail(@)]
        BY <2>2 DEF ReadField
      <3>2. GroupedBy(r, f) = Groups(x, f)
        BY <1>1 DEF GroupedBy, Groups
      <3>3. Runs(s, t, f, {"by"}) /\ t.by = [s.by EXCEPT ![f] = Groups(x, f)]
        BY <1>2, <3>1, <3>2 DEF Doing, Runs, ReportFields, CounterFields
      <3>4. t.busy
        BY <3>3 DEF Runs, ReportFields
      <3> HIDE DEF s, t
      <3> QED BY <1>1, <3>3, <3>4, GroupsFit DEF x
    <2>3. CASE ReadRecords(r)
      <3>1. /\ Runs(s, t, "records", {"lineRows", "lineCost"})
            /\ t.lineRows = Line(rows, x) /\ t.lineCost = Line(spent, x)
        BY <1>1, <1>2, <2>3 DEF ReadRecords, Doing, Runs, ReportFields, CounterFields, Line
      <3>2. t.busy
        BY <3>1 DEF Runs, ReportFields
      <3> HIDE DEF s, t
      <3> QED BY <1>1, <3>1, <3>2, RecordsFit DEF x
    <2>4. CASE ReadAdvice(r)
      <3>1. PICK advice \in [Selected(r) -> UNION {Advice(l, Own(l)) : l \in Selected(r)}] :
               /\ \A l \in Selected(r) : advice[l] \in Advice(l, Own(l))
               /\ report' = [report EXCEPT ![r].advice = advice, ![r].todo = Tail(@)]
        BY <2>4 DEF ReadAdvice
      <3>2. Doing(r, "advice")
        BY <2>4 DEF ReadAdvice
      <3>3. Runs(s, t, "advice", {"advice"}) /\ t.advice = advice
        BY <1>2, <3>1, <3>2 DEF Doing, Runs, ReportFields, CounterFields
      <3>4. t.busy
        BY <3>3 DEF Runs, ReportFields
      <3>5. DOMAIN t.advice = Matching(x) /\ \A l \in Matching(x) : t.advice[l] \in Advice(l, Own(l))
        BY <1>1, <3>1, <3>3
      <3> HIDE DEF s, t
      <3> QED BY <1>1, <3>3, <3>4, <3>5, AdviceFits DEF x
    <2> QED BY <2>1, <2>2, <2>3, <2>4
  <1>5. r \in calm' => t.busy /\ Exact(t)
    BY <1>1, <1>3, <1>4
  <1>6. DOMAIN shown' = Readers /\ \A q \in Readers \ {r} : shown'[q] = shown[q]
    BY <1>3 DEF IInv
  <1>7. /\ PartsFit(t, shown'[r]) /\ AnswersShape(shown'[r])
        /\ \A y \in Filters : Bounded(shown'[r][y], y)
    BY <1>1, <1>3, <1>4
  <1> HIDE DEF s
  <1> QED BY <1>3, <1>5, <1>6, <1>7, ReportSteps

\* The shape of a report that has read nothing.
LEMMA UnreadFits ==
  ASSUME NEW t, DOMAIN t = ReportFields, t.busy \in BOOLEAN, t.endpoint \in Endpoints,
         t.filter \in Filters, PlanFits(t), t.count = 0, t.cost = 0, t.by = Blank.by,
         t.lineRows = Nothing, t.lineCost = Nothing, t.advice = <<>>, t.cut = {}
  PROVE  ReportShape(t)
  <1>1. DOMAIN t.by = Fields /\ \A f \in Fields : t.by[f] = <<>>
    BY DEF Blank
  <1>2. DOMAIN <<>> = {}
    OBVIOUS
  <1>3. Nothing \in [Labels -> Nat] /\ Nothing \in [Labels -> Int]
    BY DEF Nothing
  <1> QED BY <1>1, <1>2, <1>3, FS_EmptySet DEF ReportShape, AreCounters

\* A plan as a whole is the end of itself.
LEMMA WholePlan ==
  ASSUME NEW t, t.endpoint \in Endpoints, t.todo = Plan(t.endpoint)
  PROVE  PlanFits(t) /\ Progress(t) = 0
  <1>1. Plan(t.endpoint) \in Seq(Statements) /\ Len(Plan(t.endpoint)) \in Nat
    <2>1. CASE t.endpoint = "metrics"
      <3>1. <<"totals", "tenant", "provider", "model", "project", "records">> \in Seq(Statements)
        BY DEF Statements, Fields
      <3>2. Plan(t.endpoint) = <<"totals", "tenant", "provider", "model", "project", "records">>
        BY <2>1, Plans
      <3> QED BY <3>1, <3>2
    <2>2. CASE t.endpoint = "summary"
      <3>1. <<"totals", "tenant", "provider", "model", "project">> \in Seq(Statements)
        BY DEF Statements, Fields
      <3>2. Plan(t.endpoint) = <<"totals", "tenant", "provider", "model", "project">>
        BY <2>2, Plans
      <3> QED BY <3>1, <3>2
    <2>3. CASE t.endpoint = "recommendations"
      <3>1. <<"advice">> \in Seq(Statements)
        BY DEF Statements, Fields
      <3>2. Plan(t.endpoint) = <<"advice">>
        BY <2>3, Plans
      <3> QED BY <3>1, <3>2
    <2> QED BY <2>1, <2>2, <2>3 DEF Endpoints
  <1>2. Progress(t) = 0
    BY <1>1 DEF Progress
  <1> QED BY <1>1, <1>2 DEF PlanFits

\* A reader without a report.
LEMMA BlankFits ==
  ASSUME NEW before
  PROVE  PartsFit(Blank, before) /\ ~Blank.busy
  <1>1. /\ DOMAIN Blank = ReportFields /\ Blank.busy = FALSE /\ Blank.endpoint = "summary"
        /\ Blank.filter = Everyone /\ Blank.todo = <<>> /\ Blank.count = 0 /\ Blank.cost = 0
        /\ Blank.lineRows = Nothing /\ Blank.lineCost = Nothing /\ Blank.advice = <<>> /\ Blank.cut = {}
    BY DEF Blank, ReportFields, CounterFields
  <1>2. PlanFits(Blank)
    <2>1. <<>> \in Seq(Statements) /\ Len(<<>>) = 0
      OBVIOUS
    <2>2. Len(Plan("summary")) = 5
      BY Plans
    <2> QED BY <1>1, <2>1, <2>2 DEF PlanFits
  <1>3. Blank.filter \in Filters /\ Blank.endpoint \in Endpoints /\ Blank.busy \in BOOLEAN
    BY <1>1, FiltersAssumption DEF Endpoints
  <1>4. ReportShape(Blank)
    BY <1>1, <1>2, <1>3, UnreadFits
  <1> QED BY <1>1, <1>4 DEF PartsFit

\* A request comes in.
LEMMA BeginKeeps == ASSUME IInv, NEW r \in Readers, Begin(r) PROVE IInv'
  <1>1. PICK e \in Endpoints, x \in Filters :
           report' = [report EXCEPT ![r] = [Blank EXCEPT !.busy = TRUE, !.endpoint = e,
                                                         !.filter = x, !.todo = Plan(e)]]
    BY DEF Begin
  <1> DEFINE t == report'[r]
  <1>2. /\ DOMAIN report' = Readers /\ \A q \in Readers \ {r} : report'[q] = report[q]
        /\ t = [Blank EXCEPT !.busy = TRUE, !.endpoint = e, !.filter = x, !.todo = Plan(e)]
    BY <1>1 DEF IInv
  <1>3. /\ DOMAIN t = ReportFields /\ t.busy = TRUE /\ t.endpoint = e /\ t.filter = x /\ t.todo = Plan(e)
        /\ t.count = 0 /\ t.cost = 0 /\ t.by = Blank.by
        /\ t.lineRows = Nothing /\ t.lineCost = Nothing /\ t.advice = <<>> /\ t.cut = {}
    BY <1>2 DEF Blank, ReportFields, CounterFields
  <1> HIDE DEF t
  <1>4. PlanFits(t) /\ Progress(t) = 0
    BY <1>3, WholePlan
  <1>5. StoredFits
    BY DEF IInv
  <1>6. ReportShape(t) /\ PartsBounded(t)
    <2>1. ReportShape(t)
      BY <1>3, <1>4, UnreadFits
    <2>2. CountOf(x) \in Nat /\ Line(rows, x) \in [Labels -> Nat]
      BY <1>5, StoredParts
    <2>3. CountsBounded(t, x)
      BY <1>3, <2>2 DEF CountsBounded, Nothing
    <2> QED BY <1>3, <1>4, <2>1, <2>3 DEF PartsBounded, CostsBounded
  <1>7. PartsFit(t, shown[r]) /\ Exact(t) /\ t.busy
    BY <1>3, <1>4, <1>6 DEF PartsFit, Ordered, CostsOrdered, Grown, Exact
  <1>8. /\ UNCHANGED <<usage, prices>> /\ shown' = shown /\ calm' = calm \cup {r}
    BY DEF Begin
  <1>9. /\ DOMAIN shown' = Readers /\ AnswersShape(shown'[r])
        /\ \A y \in Filters : Bounded(shown'[r][y], y)
    BY <1>8, ReportParts DEF IInv
  <1> QED BY <1>2, <1>7, <1>8, <1>9, ReportSteps DEF t

\* A report ends without an answer.
LEMMA GiveUpKeeps == ASSUME IInv, NEW r \in Readers, GiveUp(r) PROVE IInv'
  <1>1. /\ report' = [report EXCEPT ![r] = Blank] /\ calm' = calm \ {r} /\ shown' = shown
        /\ UNCHANGED <<usage, prices>>
    BY DEF GiveUp
  <1>2. /\ DOMAIN report' = Readers /\ report'[r] = Blank
        /\ \A q \in Readers \ {r} : report'[q] = report[q]
    BY <1>1 DEF IInv
  <1>3. PartsFit(report'[r], shown'[r])
    BY <1>2, BlankFits DEF IInv
  <1>4. /\ DOMAIN shown' = Readers /\ AnswersShape(shown'[r])
        /\ \A y \in Filters : Bounded(shown'[r][y], y)
    BY <1>1, ReportParts DEF IInv
  <1> QED BY <1>1, <1>2, <1>3, <1>4, ReportSteps

\* A report is answered; what a scrape has shown is never more than is stored.
LEMMA ReplyKeeps == ASSUME IInv, NEW r \in Readers, Reply(r) PROVE IInv'
  <1> DEFINE s == report[r]
  <1>1. /\ report' = [report EXCEPT ![r] = Blank] /\ calm' = calm \ {r}
        /\ UNCHANGED <<usage, prices>>
        /\ shown' = IF s.endpoint = "metrics" THEN [shown EXCEPT ![r][s.filter] = Counters(s)] ELSE shown
    BY DEF Reply
  <1>2. /\ DOMAIN report' = Readers /\ report'[r] = Blank
        /\ \A q \in Readers \ {r} : report'[q] = report[q]
    BY <1>1 DEF IInv
  <1>3. PartsFit(report'[r], shown'[r])
    BY <1>2, BlankFits DEF IInv
  <1>4. DOMAIN shown' = Readers /\ \A q \in Readers \ {r} : shown'[q] = shown[q]
    BY <1>1 DEF IInv
  <1>5. /\ ReportShape(s) /\ PartsBounded(s) /\ AnswersShape(shown[r])
        /\ \A x \in Filters : Bounded(shown[r][x], x)
    BY ReportParts DEF PartsFit, Reply, Complete
  <1>6. /\ AreCounters(Counters(s)) /\ DOMAIN Counters(s) = CounterFields /\ s.filter \in Filters
        /\ s.endpoint = "metrics" => Bounded(Counters(s), s.filter)
    <2>1. s.endpoint = "metrics" => Progress(s) = 6
      BY CompleteReports DEF Reply
    <2>2. s.endpoint = "metrics" =>
             /\ CountsBounded(s, s.filter) /\ LinesBounded(s, s.filter)
             /\ Uncut(s, s.filter) => s.cost <= CostOf(s.filter)
      BY <1>5, <2>1 DEF PartsBounded, CostsBounded
    <2>3. /\ Counters(s).count = s.count /\ Counters(s).cost = s.cost /\ Counters(s).cut = s.cut
          /\ Counters(s).lineRows = s.lineRows /\ Counters(s).lineCost = s.lineCost
          /\ DOMAIN Counters(s) = CounterFields
      BY DEF Counters, CounterFields
    <2> HIDE DEF s
    <2>4. s.endpoint = "metrics" => Bounded(Counters(s), s.filter)
      BY <2>2, <2>3 DEF Bounded, CountsBounded, LinesBounded, Uncut
    <2>5. AreCounters(Counters(s)) /\ s.filter \in Filters
      BY <1>5, <2>3 DEF ReportShape, AreCounters
    <2> QED BY <2>3, <2>4, <2>5
  <1>7. /\ DOMAIN shown'[r] = Filters
        /\ \A x \in Filters : shown'[r][x] = shown[r][x]
                             \/ /\ x = s.filter /\ s.endpoint = "metrics"
                                /\ shown'[r][x] = Counters(s)
    BY <1>1, <1>5, <1>6 DEF AnswersShape, IInv
  <1>8. AnswersShape(shown'[r]) /\ \A x \in Filters : Bounded(shown'[r][x], x)
    BY <1>5, <1>6, <1>7 DEF AnswersShape
  <1> HIDE DEF s
  <1> QED BY <1>1, <1>2, <1>3, <1>4, <1>8, ReportSteps

\* The registry of files that the process starts on.
LEMMA NewRegistryFits ==
  ASSUME NEW files, Starts(files), \A i \in DOMAIN files : files[i].models \in Seq(ModelPricing)
  PROVE  RegistryFits(NewRegistry(files))
  <1> DEFINE P == {files[i].provider : i \in DOMAIN files}
  <1>1. DOMAIN NewRegistry(files) = P
    BY DEF NewRegistry
  <1>2. \A i \in DOMAIN files : files[i].provider \in Supported /\ files[i].models # <<>>
    BY DEF Starts, Loads
  <1>3. ASSUME NEW p \in P PROVE NewRegistry(files)[p] \in Seq(ModelPricing) \ {<<>>}
    <2> DEFINE file == CHOOSE f \in ToSet(files) : f.provider = p
    <2>1. file \in ToSet(files)
      BY DEF ToSet
    <2>2. NewRegistry(files)[p] = file.models
      BY DEF NewRegistry
    <2> HIDE DEF file
    <2> QED BY <1>2, <2>1, <2>2 DEF ToSet
  <1> QED BY <1>1, <1>2, <1>3 DEF RegistryFits

\* The parts of a report in the next state.
LEMMA StoredPartsNext ==
  ASSUME NEW x
  PROVE  StoredFits' => /\ CountOf(x)' \in Nat /\ CostOf(x)' \in Int
                        /\ Line(rows, x)' \in [Labels -> Nat] /\ Line(spent, x)' \in [Labels -> Int]
  <1>1. StoredFits => /\ CountOf(x) \in Nat /\ CostOf(x) \in Int
                      /\ Line(rows, x) \in [Labels -> Nat] /\ Line(spent, x) \in [Labels -> Int]
    BY StoredParts
  <1>2. (StoredFits => /\ CountOf(x) \in Nat /\ CostOf(x) \in Int
                       /\ Line(rows, x) \in [Labels -> Nat] /\ Line(spent, x) \in [Labels -> Int])'
    BY <1>1, PTL
  <1> QED BY <1>2

\* What the history notes of a row changes nothing else.
LEMMA NotedParts ==
  ASSUME NEW s, "cut" \in DOMAIN s, NEW l, NEW cost, NEW t, t = Noted(s, l, cost)
  PROVE  /\ DOMAIN t = DOMAIN s /\ \A f \in DOMAIN s \ {"cut"} : t[f] = s[f]
         /\ t.cut = s.cut \cup (IF cost < 0 THEN {l} ELSE {})
  BY DEF Noted

\* A report under way and a row that is recorded.
LEMMA ReportNotes ==
  ASSUME NEW s, ReportShape(s), NEW l \in Labels, NEW cost, NEW t, t = Noted(s, l, cost)
  PROVE  /\ ReportShape(t) /\ t.filter = s.filter /\ t.endpoint = s.endpoint /\ t.busy = s.busy
         /\ t.count = s.count /\ t.cost = s.cost /\ t.by = s.by /\ t.lineRows = s.lineRows
         /\ t.lineCost = s.lineCost /\ Progress(t) = Progress(s)
         /\ t.cut = s.cut \cup (IF cost < 0 THEN {l} ELSE {})
  <1>1. DOMAIN s = ReportFields /\ "cut" \in DOMAIN s
    BY DEF ReportShape, ReportFields, CounterFields
  <1>2. /\ DOMAIN t = ReportFields /\ t.cut = s.cut \cup (IF cost < 0 THEN {l} ELSE {})
        /\ \A f \in ReportFields \ {"cut"} : t[f] = s[f]
    BY <1>1, NotedParts
  <1>3. /\ t.filter = s.filter /\ t.endpoint = s.endpoint /\ t.busy = s.busy /\ t.todo = s.todo
        /\ t.count = s.count /\ t.cost = s.cost /\ t.by = s.by /\ t.lineRows = s.lineRows
        /\ t.lineCost = s.lineCost /\ t.advice = s.advice
    BY <1>2 DEF ReportFields, CounterFields
  <1>4. Progress(t) = Progress(s) /\ (PlanFits(s) => PlanFits(t))
    BY <1>3 DEF Progress, PlanFits
  <1>5. AreCounters(t)
    <2>1. AreCounters(s)
      BY DEF ReportShape
    <2> QED BY <1>2, <1>3, <2>1 DEF AreCounters
  <1>6. ReportShape(t)
    BY <1>2, <1>3, <1>4, <1>5 DEF ReportShape
  <1> QED BY <1>2, <1>3, <1>4, <1>6

\* A call is recorded.
LEMMA InsertKeeps == ASSUME IInv, NEW call \in Calls, Insert(call) PROVE IInv'
  <1> DEFINE l == call.label
             cost == Calculate(registry, l.provider, l.model, call.in, call.out)
             low == IF cost < 0 THEN {l} ELSE {}
  <1>1. l \in Labels /\ call.in \in Int /\ call.out \in Int
    BY CallsAssumption
  <1>2. StoredFits /\ PaidAsPriced
    BY DEF IInv
  <1>3. /\ SupportsModel(registry, l.provider, l.model)
        /\ rows' = [rows EXCEPT ![l] = @ + 1]
        /\ tokens' = [tokens EXCEPT ![l] = [in |-> @.in + call.in, out |-> @.out + call.out]]
        /\ spent' = [spent EXCEPT ![l] = @ + cost]
        /\ calm' = {} /\ registry' = registry /\ dated' = dated
        /\ report' = [r \in Readers |-> Noted(report[r], l, cost)]
        /\ shown' = [r \in Readers |-> [x \in Filters |-> Noted(shown[r][x], l, cost)]]
    BY DEF Insert, prices
  <1>4. cost \in Int /\ low \in SUBSET Labels
    BY <1>1, <1>2, <1>3, CostType DEF StoredFits
  <1> HIDE DEF l, cost
  <1>5. /\ rows[l] \in Nat /\ spent[l] \in Int /\ tokens[l].in \in Int /\ tokens[l].out \in Int
        /\ rows'[l] = rows[l] + 1 /\ spent'[l] = spent[l] + cost
        /\ tokens'[l] = [in |-> tokens[l].in + call.in, out |-> tokens[l].out + call.out]
        /\ \A k \in Labels \ {l} : rows'[k] = rows[k] /\ spent'[k] = spent[k] /\ tokens'[k] = tokens[k]
    BY <1>1, <1>2, <1>3 DEF StoredFits, Tokens
  <1>6. StoredFits'
    <2>1. tokens'[l] \in Tokens
      BY <1>1, <1>5 DEF Tokens
    <2>2. tokens' \in [Labels -> Tokens]
      BY <1>2, <1>3, <1>5, <2>1 DEF StoredFits
    <2>3. rows' \in [Labels -> Nat] /\ spent' \in [Labels -> Int]
      BY <1>2, <1>3, <1>4, <1>5 DEF StoredFits
    <2>4. \A k \in Labels : rows'[k] = 0 => spent'[k] = 0
      BY <1>2, <1>5 DEF StoredFits
    <2> QED BY <1>2, <1>3, <2>2, <2>3, <2>4 DEF StoredFits
  <1>7. PaidAsPriced'
    <2> SUFFICES ASSUME ~dated, NEW k \in Labels
                 PROVE  IF rows'[k] = 0 THEN spent'[k] = 0 /\ tokens'[k] = [in |-> 0, out |-> 0]
                        ELSE SupportsModel(registry, k.provider, k.model) /\ spent'[k] = PaidWith(k, Own(k))'
      BY <1>3 DEF PaidAsPriced
    <2>1. CASE k # l
      BY <1>2, <1>3, <1>5, <2>1 DEF PaidAsPriced, PaidWith
    <2>2. CASE k = l
      <3> DEFINE price == PricePerToken(registry, l.provider, l.model)
      <3>1. price.in \in Nat /\ price.out \in Nat
        BY <1>2, <1>3, PriceType DEF StoredFits, ModelPricing
      <3>2. cost = call.in * price.in + call.out * price.out
        BY DEF cost, Calculate
      <3>3. PaidWith(l, Own(l))' = (tokens[l].in + call.in) * price.in + (tokens[l].out + call.out) * price.out
        BY <1>3, <1>5 DEF PaidWith, Own, Calculate
      <3>4. spent[l] = tokens[l].in * price.in + tokens[l].out * price.out
        <4>1. CASE rows[l] = 0
          BY <1>1, <1>2, <3>1, <4>1 DEF PaidAsPriced
        <4>2. CASE rows[l] # 0
          BY <1>1, <1>2, <4>2 DEF PaidAsPriced, PaidWith, Own, Calculate
        <4> QED BY <4>1, <4>2
      <3> HIDE DEF price
      <3>5. spent'[l] = PaidWith(l, Own(l))'
        BY <1>1, <1>5, <3>1, <3>2, <3>3, <3>4
      <3>6. rows'[l] # 0
        BY <1>5
      <3> QED BY <1>3, <2>2, <3>5, <3>6
    <2> QED BY <2>1, <2>2
  <1>8. ASSUME NEW x
        PROVE  /\ CountOf(x) <= CountOf(x)' /\ (low \cap Passes(x) = {} => CostOf(x) <= CostOf(x)')
               /\ \A k \in Labels : Line(rows, x)[k] <= Line(rows, x)'[k]
               /\ \A k \in Labels \ low : Line(spent, x)[k] <= Line(spent, x)'[k]
               /\ CountOf(x) \in Nat /\ CostOf(x) \in Int /\ CountOf(x)' \in Nat /\ CostOf(x)' \in Int
               /\ Line(rows, x) \in [Labels -> Nat] /\ Line(rows, x)' \in [Labels -> Nat]
               /\ Line(spent, x) \in [Labels -> Int] /\ Line(spent, x)' \in [Labels -> Int]
    <2>1. /\ \A k \in Labels : rows[k] <= rows'[k]
          /\ \A k \in Labels \ low : spent[k] <= spent'[k]
      <3>1. \A k \in Labels : rows[k] \in Nat /\ spent[k] \in Int
        BY <1>2 DEF StoredFits
      <3>2. \A k \in Labels : rows[k] <= rows'[k]
        BY <1>5, <3>1
      <3>3. \A k \in Labels \ low : k = l => cost >= 0
        BY <1>4
      <3>4. \A k \in Labels \ low : spent[k] <= spent'[k]
        <4> HIDE DEF low
        <4> QED BY <1>4, <1>5, <3>1, <3>3
      <3> QED BY <3>2, <3>4
    <2>2. /\ CountOf(x) \in Nat /\ CostOf(x) \in Int
          /\ Line(rows, x) \in [Labels -> Nat] /\ Line(spent, x) \in [Labels -> Int]
      BY <1>2, StoredParts
    <2>3. /\ CountOf(x)' \in Nat /\ CostOf(x)' \in Int
          /\ Line(rows, x)' \in [Labels -> Nat] /\ Line(spent, x)' \in [Labels -> Int]
      BY <1>6, StoredPartsNext
    <2> HIDE DEF low
    <2>4. /\ CountOf(x) <= CountOf(x)' /\ (low \cap Passes(x) = {} => CostOf(x) <= CostOf(x)')
          /\ \A k \in Labels : Line(rows, x)[k] <= Line(rows, x)'[k]
          /\ \A k \in Labels \ low : Line(spent, x)[k] <= Line(spent, x)'[k]
      BY <1>2, <1>6, <1>4, <2>1, StoredGrows
    <2> QED BY <2>2, <2>3, <2>4
  <1>9. ASSUME NEW b, NEW c, AreCounters(b), c.count = b.count, c.lineRows = b.lineRows, NEW x
        PROVE  CountsBounded(b, x) => CountsBounded(c, x)'
    <2>1. b.count \in Nat /\ \A k \in Labels : b.lineRows[k] \in Nat
      BY <1>9 DEF AreCounters
    <2>2. \A k \in Labels : /\ Line(rows, x)[k] \in Nat /\ Line(rows, x)'[k] \in Nat
                            /\ Line(rows, x)[k] <= Line(rows, x)'[k]
      BY <1>8
    <2>3. CountOf(x) \in Nat /\ CountOf(x)' \in Nat /\ CountOf(x) <= CountOf(x)'
      BY <1>8
    <2> QED BY <1>9, <2>1, <2>2, <2>3 DEF CountsBounded
  <1>10. ASSUME NEW b, NEW c, AreCounters(b), c.lineCost = b.lineCost, c.cut = b.cut \cup low, NEW x
         PROVE  LinesBounded(b, x) => LinesBounded(c, x)'
    <2> SUFFICES ASSUME LinesBounded(b, x), NEW k \in Labels \ c.cut
                 PROVE  c.lineCost[k] <= Line(spent, x)'[k]
      BY DEF LinesBounded
    <2>1. k \in Labels \ b.cut /\ k \in Labels \ low
      BY <1>10
    <2>2. b.lineCost[k] \in Int /\ b.lineCost[k] <= Line(spent, x)[k]
      BY <1>10, <2>1 DEF AreCounters, LinesBounded
    <2>3. /\ Line(spent, x)[k] \in Int /\ Line(spent, x)'[k] \in Int
          /\ Line(spent, x)[k] <= Line(spent, x)'[k]
      BY <1>8, <2>1
    <2> QED BY <1>10, <2>2, <2>3
  <1>11. ASSUME NEW b, NEW c, c.cut = b.cut \cup low, NEW x, Uncut(c, x)
         PROVE  /\ Uncut(b, x) /\ CostOf(x) \in Int /\ CostOf(x)' \in Int
                /\ CostOf(x) <= CostOf(x)'
    <2>1. Uncut(b, x) /\ low \cap Passes(x) = {}
      <3> HIDE DEF low
      <3> QED BY <1>11 DEF Uncut
    <2> QED BY <1>8, <2>1
  <1>12. ASSUME NEW q \in Readers PROVE ReportFits(q)'
    <2>1. PICK s : s = report[q]
      OBVIOUS
    <2>2. PICK a : a = shown[q]
      OBVIOUS
    <2>3. PICK t : t = report'[q]
      OBVIOUS
    <2>4. PICK e : e = shown'[q]
      OBVIOUS
    <2>5. /\ ReportShape(s) /\ AnswersShape(a)
          /\ s.busy => PartsBounded(s) /\ Ordered(s) /\ Grown(s, a[s.filter])
          /\ \A x \in Filters : Bounded(a[x], x)
      BY <2>1, <2>2 DEF IInv, ReportFits
    <2>6. /\ ReportShape(t) /\ t.filter = s.filter /\ t.endpoint = s.endpoint /\ t.busy = s.busy
          /\ t.count = s.count /\ t.cost = s.cost /\ t.by = s.by /\ t.lineRows = s.lineRows
          /\ t.lineCost = s.lineCost /\ Progress(t) = Progress(s) /\ t.cut = s.cut \cup low
      <3>1. t = Noted(s, l, cost)
        BY <1>3, <2>1, <2>3
      <3> QED BY <1>1, <2>5, <3>1, ReportNotes
    <2>7. ASSUME NEW x \in Filters
          PROVE  /\ DOMAIN e[x] = CounterFields /\ AreCounters(a[x]) /\ AreCounters(e[x])
                 /\ e[x].count = a[x].count /\ e[x].cost = a[x].cost
                 /\ e[x].lineRows = a[x].lineRows /\ e[x].lineCost = a[x].lineCost
                 /\ e[x].cut = a[x].cut \cup low
      <3>1. e[x] = Noted(a[x], l, cost)
        BY <1>3, <2>2, <2>4
      <3>2. DOMAIN a[x] = CounterFields /\ "cut" \in DOMAIN a[x] /\ AreCounters(a[x])
        BY <2>5 DEF AnswersShape, CounterFields
      <3>3. /\ DOMAIN e[x] = CounterFields /\ e[x].cut = a[x].cut \cup low
            /\ \A f \in CounterFields \ {"cut"} : e[x][f] = a[x][f]
        BY <3>1, <3>2, NotedParts
      <3>4. /\ e[x].count = a[x].count /\ e[x].cost = a[x].cost
            /\ e[x].lineRows = a[x].lineRows /\ e[x].lineCost = a[x].lineCost
        BY <3>3 DEF CounterFields
      <3>5. AreCounters(e[x])
        <4> HIDE DEF low
        <4> QED BY <1>4, <3>2, <3>3, <3>4 DEF AreCounters
      <3> QED BY <3>2, <3>3, <3>4, <3>5
    <2>8. AnswersShape(e)
      <3>1. DOMAIN e = Filters
        BY <1>3, <2>4
      <3> QED BY <2>7, <3>1 DEF AnswersShape
    <2> HIDE DEF low
    <2>9. ASSUME NEW x \in Filters PROVE Bounded(e[x], x)'
      <3>1. CountsBounded(a[x], x) /\ LinesBounded(a[x], x) /\ (Uncut(a[x], x) => a[x].cost <= CostOf(x))
        BY <2>5 DEF Bounded
      <3>2. CountsBounded(e[x], x)' /\ LinesBounded(e[x], x)'
        BY <1>9, <1>10, <2>7, <3>1
      <3>3. ASSUME Uncut(e[x], x) PROVE e[x].cost <= CostOf(x)'
        <4>1. Uncut(a[x], x) /\ CostOf(x) \in Int /\ CostOf(x)' \in Int /\ CostOf(x) <= CostOf(x)'
          BY <1>11, <2>7, <3>3
        <4>2. a[x].cost \in Int /\ e[x].cost = a[x].cost
          BY <2>7 DEF AreCounters
        <4> QED BY <3>1, <4>1, <4>2
      <3>4. Uncut(e[x], x)' => Uncut(e[x], x)
        BY <2>4 DEF Uncut, Passes
      <3> QED BY <3>2, <3>3, <3>4 DEF Bounded
    <2>10. s.busy => PartsBounded(t)'
      <3> SUFFICES ASSUME s.busy PROVE PartsBounded(t)'
        OBVIOUS
      <3> DEFINE x == s.filter
      <3>1. AreCounters(s) /\ PartsBounded(s)
        BY <2>5 DEF ReportShape
      <3>2. CountsBounded(t, x)'
        BY <1>9, <2>6, <3>1 DEF PartsBounded
      <3>3. t.endpoint # "recommendations" /\ Progress(t) >= 6 => LinesBounded(t, x)'
        BY <1>10, <2>6, <3>1 DEF PartsBounded
      <3>4. ASSUME t.endpoint # "recommendations", Uncut(t, x) PROVE CostsBounded(t, x)'
        <4>1. Uncut(s, x) /\ CostOf(x) \in Int /\ CostOf(x)' \in Int /\ CostOf(x) <= CostOf(x)'
          BY <1>11, <2>6, <3>4
        <4>2. CostsBounded(s, x)
          BY <2>6, <3>1, <3>4, <4>1 DEF PartsBounded
        <4>3. s.cost \in Int /\ Sum(s.lineCost) \in Int /\ \A f \in Fields : Sum(s.by[f]) \in Int
          <5>1. s.lineCost \in [Labels -> Int] /\ s.cost \in Int
            BY <3>1 DEF AreCounters
          <5>2. Sum(s.lineCost) \in Int
            BY <5>1, LabelsAssumption, TotalInt DEF Sum
          <5> QED BY <2>5, <5>1, <5>2, GroupSums
        <4> HIDE DEF x
        <4> QED BY <2>6, <4>1, <4>2, <4>3 DEF CostsBounded, Fields
      <3> QED BY <2>6, <3>2, <3>3, <3>4 DEF PartsBounded, Uncut, Passes
    <2>11. s.busy => Ordered(t) /\ Grown(t, e[t.filter])
      <3>1. s.busy => Ordered(t)
        BY <2>5, <2>6 DEF Ordered, CostsOrdered, Uncut
      <3>2. t.filter \in Filters
        BY <2>6 DEF ReportShape
      <3>3. s.busy => Grown(t, e[t.filter])
        BY <2>5, <2>6, <2>7, <3>2 DEF Grown, Uncut
      <3> QED BY <3>1, <3>3
    <2>12. report'[q] = t /\ shown'[q] = e /\ q \notin calm'
      BY <1>3, <2>3, <2>4
    <2> QED BY <2>5, <2>6, <2>8, <2>9, <2>10, <2>11, <2>12 DEF ReportFits
  <1>13. DOMAIN report' = Readers /\ DOMAIN shown' = Readers /\ calm' \subseteq Readers
    BY <1>3
  <1> QED BY <1>6, <1>7, <1>12, <1>13 DEF IInv

\* The process starts again.
LEMMA RestartKeeps == ASSUME IInv, Restart PROVE IInv'
  <1>1. PICK files \in Releases : Starts(files) /\ registry' = NewRegistry(files)
    BY DEF Restart
  <1>2. /\ dated' = (dated \/ Sum(rows) > 0) /\ report' = [r \in Readers |-> Blank] /\ calm' = {}
        /\ UNCHANGED usage /\ shown' = shown
    BY DEF Restart
  <1>3. StoredFits /\ PaidAsPriced
    BY DEF IInv
  <1>4. UNCHANGED <<rows, tokens, spent>>
    BY <1>2 DEF usage
  <1>5. RegistryFits(registry')
    <2>1. \A i \in DOMAIN files : files[i].models \in Seq(ModelPricing)
      BY ReleasesAssumption
    <2> QED BY <1>1, <2>1, NewRegistryFits
  <1>6. StoredFits'
    BY <1>2, <1>3, <1>4, <1>5 DEF StoredFits
  <1>7. PaidAsPriced'
    <2> SUFFICES ASSUME ~dated, ~(Sum(rows) > 0), NEW l \in Labels
                 PROVE  rows[l] = 0 /\ spent[l] = 0 /\ tokens[l] = [in |-> 0, out |-> 0]
      BY <1>2, <1>4 DEF PaidAsPriced
    <2>1. \A k \in Labels : rows[k] \in Nat
      BY <1>3 DEF StoredFits
    <2>2. Total(rows, Labels) = rows[l] + Total(rows, Labels \ {l})
      BY <2>1, LabelsAssumption, TotalTakes
    <2>3. Total(rows, Labels \ {l}) \in Nat
      BY <2>1, LabelsAssumption, TotalNat
    <2>4. Sum(rows) = Total(rows, Labels)
      BY <1>3 DEF StoredFits, Sum
    <2>5. rows[l] = 0
      BY <2>1, <2>2, <2>3, <2>4
    <2> QED BY <1>3, <2>5 DEF PaidAsPriced
  <1>8. ASSUME NEW q \in Readers PROVE ReportFits(q)'
    <2>1. \A x : /\ CountOf(x)' = CountOf(x) /\ CostOf(x)' = CostOf(x)
                 /\ Line(rows, x)' = Line(rows, x) /\ Line(spent, x)' = Line(spent, x)
      BY <1>2, StoredKeeps
    <2>2. \A b, x : Bounded(b, x) => Bounded(b, x)'
      BY <2>1 DEF Bounded, CountsBounded, LinesBounded
    <2>4. PICK s : s = Blank
      OBVIOUS
    <2>5. PICK a : a = shown[q]
      OBVIOUS
    <2>6. report'[q] = s /\ shown'[q] = a /\ q \notin calm'
      BY <1>2, <2>4, <2>5
    <2>7. ReportShape(s) /\ ~s.busy
      BY <2>4, BlankFits DEF PartsFit
    <2>8. AnswersShape(a) /\ \A x \in Filters : Bounded(a[x], x)
      BY <2>5, ReportParts
    <2> QED BY <2>2, <2>6, <2>7, <2>8 DEF ReportFits
  <1>9. DOMAIN report' = Readers /\ DOMAIN shown' = Readers /\ calm' \subseteq Readers
    BY <1>2 DEF IInv
  <1> QED BY <1>6, <1>7, <1>8, <1>9 DEF IInv

\* Nothing is stored or shown at the start.
LEMMA InitFits == Init => IInv
  <1> SUFFICES ASSUME Init PROVE IInv
    OBVIOUS
  <1>1. StoredFits
    <2>1. RegistryFits(registry)
      BY ReleasesAssumption, NewRegistryFits DEF Init
    <2>2. rows \in [Labels -> Nat] /\ spent \in [Labels -> Int] /\ \A l \in Labels : spent[l] = 0
      BY DEF Init, Nothing
    <2>3. tokens \in [Labels -> Tokens] /\ dated \in BOOLEAN
      <3>1. [in |-> 0, out |-> 0] \in Tokens
        BY DEF Tokens
      <3> QED BY <3>1 DEF Init
    <2> QED BY <2>1, <2>2, <2>3 DEF StoredFits
  <1>2. PaidAsPriced
    BY DEF Init, PaidAsPriced, Nothing
  <1>3. ASSUME NEW r \in Readers PROVE ReportFits(r)
    <2>1. /\ report[r] = Blank /\ shown[r] = [x \in Filters |-> Counters(Blank)] /\ r \notin calm
      BY <1>3 DEF Init
    <2>2. PartsFit(Blank, shown[r]) /\ ~Blank.busy
      BY <1>1, BlankFits
    <2>3. AreCounters(Counters(Blank)) /\ AnswersShape(shown[r])
      BY <2>1 DEF AnswersShape, AreCounters, Counters, CounterFields, Blank, Nothing
    <2>4. ASSUME NEW x \in Filters PROVE Bounded(shown[r][x], x)
      <3>1. /\ CountOf(x) \in Nat /\ Line(rows, x) \in [Labels -> Nat]
            /\ CostOf(x) = Total(spent, Passes(x)) /\ IsFiniteSet(Passes(x)) /\ Passes(x) \in SUBSET Labels
        BY <1>1, StoredParts, CostOfAll
      <3>2. \A l \in Labels : spent[l] = 0
        BY DEF Init, Nothing
      <3>3. CostOf(x) = 0 /\ \A l \in Labels : Line(spent, x)[l] = 0
        BY <3>1, <3>2, TotalOfZeros DEF Line
      <3>4. /\ shown[r][x].count = 0 /\ shown[r][x].cost = 0
            /\ \A l \in Labels : shown[r][x].lineRows[l] = 0 /\ shown[r][x].lineCost[l] = 0
        BY <2>1 DEF Counters, Blank, Nothing
      <3> QED BY <3>1, <3>4, <3>3 DEF Bounded, CountsBounded, LinesBounded
    <2> QED BY <2>1, <2>2, <2>3, <2>4 DEF ReportFits, PartsFit
  <1> QED BY <1>1, <1>2, <1>3 DEF IInv, Init

\* Every step keeps the invariant.
LEMMA StepsFit == IInv /\ [Next]_vars => IInv'
  <1> SUFFICES ASSUME IInv, [Next]_vars PROVE IInv'
    OBVIOUS
  <1>1. ASSUME NEW call \in Calls, Insert(call) PROVE IInv'
    BY <1>1, InsertKeeps
  <1>2. CASE Restart
    BY <1>2, RestartKeeps
  <1>3. ASSUME NEW r \in Readers,
               Begin(r) \/ ReadTotals(r) \/ ReadField(r) \/ ReadRecords(r) \/ ReadAdvice(r)
                  \/ Reply(r) \/ GiveUp(r)
        PROVE  IInv'
    BY <1>3, BeginKeeps, ReadsKeep, ReplyKeeps, GiveUpKeeps
  <1>4. CASE UNCHANGED vars
    <2>1. UNCHANGED <<usage, registry, dated, report, shown, calm>>
      BY <1>4 DEF vars, prices
    <2>2. \A r \in Readers : ReportFits(r)'
      BY <2>1, OtherReports DEF IInv
    <2>3. StoredFits' /\ PaidAsPriced'
      BY <2>1 DEF IInv, StoredFits, PaidAsPriced, PaidWith, usage
    <2> QED BY <2>1, <2>2, <2>3 DEF IInv
  <1> QED BY <1>1, <1>2, <1>3, <1>4 DEF Next

\* What the theorems rest on.
LEMMA FitAlways == Spec => []IInv
  BY InitFits, StepsFit, PTL DEF Spec

-----------------------------------------------------------------------------
(* What the reports promise. *)

\* The types of everything.
LEMMA FitsTyped == IInv => TypeOK
  <1> SUFFICES ASSUME IInv PROVE TypeOK
    OBVIOUS
  <1>1. ASSUME NEW r \in Readers
        PROVE  ReportShape(report[r]) /\ AnswersShape(shown[r])
    BY ReportParts
  <1> QED BY <1>1 DEF IInv, TypeOK, StoredFits, RegistryFits, ReportShape, AnswersShape

\* TypeOK: counts and savings are natural numbers, and sums whole ones, whatever is read when:
\* no SUM of sqlite.go:134-160 is NULL, and no saving of intelligence.go:262-279 negative.
THEOREM ReportsTyped == Spec => []TypeOK
  BY FitAlways, FitsTyped, PTL

\* The parts of one complete report.
LEMMA PartsAreOrdered == IInv => PartsInOrder
  <1> SUFFICES ASSUME IInv, NEW r \in Readers, Complete(r)
               PROVE  LET s == report[r] IN
                      /\ s.endpoint = "metrics" => s.count <= Sum(s.lineRows)
                      /\ Uncut(s, s.filter) =>
                            /\ s.cost <= Sum(s.by.tenant)
                            /\ Sum(s.by.tenant) <= Sum(s.by.provider)
                            /\ Sum(s.by.provider) <= Sum(s.by.model)
                            /\ Sum(s.by.model) <= Sum(s.by.project)
                            /\ s.endpoint # "recommendations" => Sum(s.by.project) <= Total(spent, Selected(r))
                            /\ s.endpoint = "metrics" =>
                                  /\ Sum(s.by.project) <= Sum(s.lineCost)
                                  /\ Sum(s.lineCost) <= Total(spent, Selected(r))
    BY DEF PartsInOrder
  <1>1. PICK s : s = report[r]
    OBVIOUS
  <1>2. /\ ReportShape(s) /\ PartsBounded(s) /\ Ordered(s) /\ StoredFits
        /\ Total(spent, Selected(r)) = CostOf(s.filter)
    BY <1>1, ReportParts DEF PartsFit, CostOf, Complete
  <1>3. /\ s.endpoint = "metrics" => Progress(s) = 6
        /\ s.endpoint = "summary" => Progress(s) = 5
        /\ s.endpoint = "recommendations" => Progress(s) = 1
    BY <1>1, CompleteReports
  <1>4. s.endpoint \in Endpoints
    BY <1>2 DEF ReportShape
  <1>7. CASE s.endpoint = "recommendations"
    <2>1. s.cost = 0 /\ s.by = [f \in Fields |-> <<>>]
      BY <1>2, <1>7 DEF ReportShape, Blank
    <2>2. \A f \in Fields : Sum(s.by[f]) = 0
      BY <2>1, TotalOfNone DEF Sum
    <2> QED BY <1>1, <1>7, <2>1, <2>2 DEF Fields
  <1>8. CASE s.endpoint \in {"metrics", "summary"}
    <2>1. s.endpoint # "recommendations" /\ Progress(s) >= 5 /\ (s.endpoint = "metrics" => Progress(s) >= 6)
      BY <1>3, <1>8
    <2>2. Uncut(s, s.filter) => CostsBounded(s, s.filter) /\ CostsOrdered(s)
      BY <1>2, <2>1 DEF PartsBounded, Ordered
    <2>3. s.endpoint = "metrics" => s.count <= Sum(s.lineRows)
      BY <1>2, <2>1 DEF Ordered
    <2>4. Progress(s) >= 1 /\ Progress(s) >= 2 /\ Progress(s) >= 3 /\ Progress(s) >= 4
      BY <1>3, <1>8
    <2> QED BY <1>1, <1>2, <2>1, <2>2, <2>3, <2>4 DEF CostsBounded, CostsOrdered
  <1> QED BY <1>4, <1>7, <1>8 DEF Endpoints

\* PartsInOrder: whatever is recorded between the statements of sqlite.go:134-160 and
\* server.go:117-129, a later part of a reply is never less than an earlier one; a cost, as
\* long as none of what is recorded is of negative cost.
THEOREM PartsStayInOrder == Spec => []PartsInOrder
  BY FitAlways, PartsAreOrdered, PTL

\* One group of what is stored is the same labels' part of the line.
LEMMA GroupOfLine ==
  ASSUME StoredFits, NEW x, NEW g, NEW f, NEW v, g = Groups(x, f), v \in DOMAIN g
  PROVE  g[v] = Total(Line(spent, x), {l \in Labels : l[f] = v})
  <1> DEFINE S == {l \in Labels : l[f] = v}
             T == {l \in Matching(x) : l[f] = v}
             line == Line(spent, x)
  <1>1. S \in SUBSET Labels /\ IsFiniteSet(S)
    BY LabelsAssumption, FS_Subset
  <1>2. T \in SUBSET S /\ \A l \in S : spent[l] \in Int /\ line[l] = IF l \in T THEN spent[l] ELSE 0
    BY DEF StoredFits, Matching, Passes, Line
  <1>3. g[v] = Total(spent, T)
    BY DEF Groups
  <1> HIDE DEF S, T, line
  <1>4. Total(spent, T) = Total(line, S)
    BY <1>1, <1>2, TotalWhere
  <1> QED BY <1>3, <1>4 DEF S, line

\* A complete report of a calm reader.
LEMMA CalmAgrees == IInv => CalmReplyAgrees
  <1> SUFFICES ASSUME IInv, NEW r \in calm, Complete(r)
               PROVE  LET s == report[r] IN
                      /\ \A f \in Fields : Sum(s.by[f]) = s.cost
                      /\ s.endpoint = "metrics" =>
                            /\ Sum(s.lineCost) = s.cost /\ Sum(s.lineRows) = s.count
                            /\ \A f \in Fields : \A v \in DOMAIN s.by[f] :
                                  s.by[f][v] = Total(s.lineCost, {l \in Labels : l[f] = v})
    BY DEF CalmReplyAgrees
  <1>1. PICK s : s = report[r]
    OBVIOUS
  <1>2. r \in Readers
    BY DEF IInv
  <1>3. ReportShape(s) /\ Exact(s) /\ StoredFits
    BY <1>1, <1>2, ReportParts
  <1>4. /\ s.endpoint = "metrics" => Progress(s) = 6
        /\ s.endpoint = "summary" => Progress(s) = 5
        /\ s.endpoint = "recommendations" => Progress(s) = 1
    BY <1>1, <1>2, CompleteReports
  <1>5. CASE s.endpoint = "recommendations"
    <2>1. s.cost = 0 /\ s.by = [f \in Fields |-> <<>>]
      BY <1>3, <1>5 DEF ReportShape, Blank
    <2>2. \A f \in Fields : Sum(s.by[f]) = 0
      BY <2>1, TotalOfNone DEF Sum
    <2> QED BY <1>1, <1>5, <2>1, <2>2
  <1>6. CASE s.endpoint \in {"metrics", "summary"}
    <2> DEFINE x == s.filter
    <2>1. s.count = CountOf(x) /\ s.cost = CostOf(x)
      BY <1>3, <1>4, <1>6 DEF Exact
    <2>2. \A f \in Fields : s.by[f] = Groups(x, f)
      BY <1>3, <1>4, <1>6 DEF Exact, Fields
    <2>3. s.endpoint = "metrics" => s.lineRows = Line(rows, x) /\ s.lineCost = Line(spent, x)
      BY <1>3, <1>4 DEF Exact
    <2> HIDE DEF x
    <2>4. \A f \in Fields : Sum(s.by[f]) = s.cost
      BY <1>3, <2>1, <2>2, GroupParts
    <2>5. s.endpoint = "metrics" => Sum(s.lineCost) = s.cost /\ Sum(s.lineRows) = s.count
      BY <1>3, <2>1, <2>3, StoredParts
    <2>6. ASSUME s.endpoint = "metrics", NEW f \in Fields, NEW v \in DOMAIN s.by[f]
          PROVE  s.by[f][v] = Total(s.lineCost, {l \in Labels : l[f] = v})
      <3>1. s.by[f] = Groups(x, f) /\ s.lineCost = Line(spent, x)
        BY <2>2, <2>3, <2>6
      <3>2. s.by[f][v] = Total(Line(spent, x), {l \in Labels : l[f] = v})
        BY <1>3, <2>6, <3>1, GroupOfLine
      <3> QED BY <3>1, <3>2
    <2> QED BY <1>1, <2>4, <2>5, <2>6
  <1> QED BY <1>3, <1>5, <1>6 DEF ReportShape, Endpoints

\* CalmReplyAgrees: the six statements filter and group alike.
THEOREM CalmRepliesAgree == Spec => []CalmReplyAgrees
  BY FitAlways, CalmAgrees, PTL

\* What a complete scrape shows against the scrape before it.
LEMMA ScrapesGrow == IInv => CountersOnlyGrow
  <1> SUFFICES ASSUME IInv, NEW r \in Readers, Complete(r), report[r].endpoint = "metrics"
               PROVE  LET now == report[r]
                          before == shown[r][now.filter]
                      IN
                      /\ before.count <= now.count
                      /\ \A l \in Labels : before.lineRows[l] <= now.lineRows[l]
                      /\ Uncut(before, now.filter) => before.cost <= now.cost
                      /\ \A l \in Labels \ before.cut : before.lineCost[l] <= now.lineCost[l]
    BY DEF CountersOnlyGrow
  <1>1. Progress(report[r]) = 6
    BY CompleteReports
  <1>2. Grown(report[r], shown[r][report[r].filter])
    BY ReportParts DEF PartsFit, Complete
  <1> QED BY <1>1, <1>2 DEF Grown

\* CountersOnlyGrow: of what metrics.go:28-44 declares as counters, the counts of requests
\* never go down, and a cost only after a row of negative cost that it takes in.
THEOREM CountersGrow == Spec => []CountersOnlyGrow
  BY FitAlways, ScrapesGrow, PTL

\* What is advised of a label is what RecommendModels makes of rows there are.
LEMMA AdvisedOfRows ==
  ASSUME IInv, NEW r \in Advised, NEW l \in DOMAIN report[r].advice
  PROVE  /\ r \in Readers /\ StoredFits /\ PaidAsPriced /\ RegistryFits(registry)
         /\ l \in Labels /\ rows[l] \in Nat \ {0}
         /\ tokens[l].in \in Int /\ tokens[l].out \in Int /\ spent[l] \in Int
         /\ report[r].advice[l] \in RecommendModels(registry, Own(l), rows[l], tokens[l].in, tokens[l].out)
  <1>1. r \in calm /\ r \in Readers /\ Complete(r) /\ report[r].endpoint = "recommendations"
    BY DEF Advised, IInv
  <1>2. Exact(report[r]) /\ StoredFits /\ Progress(report[r]) = 1
    BY <1>1, ReportParts, CompleteReports
  <1>3. /\ DOMAIN report[r].advice = Matching(report[r].filter)
        /\ \A k \in Matching(report[r].filter) : report[r].advice[k] \in Advice(k, Own(k))
    BY <1>1, <1>2 DEF Exact
  <1>4. l \in Labels /\ rows[l] > 0 /\ report[r].advice[l] \in Advice(l, Own(l))
    BY <1>3 DEF Matching, Passes
  <1>5. rows[l] \in Nat /\ spent[l] \in Int /\ tokens[l] \in Tokens
    BY <1>2, <1>4 DEF StoredFits
  <1> QED BY <1>1, <1>2, <1>4, <1>5 DEF IInv, StoredFits, Tokens, Advice

\* What is promised can be had.
LEMMA AdviceIsHad == IInv => AdviceSaves
  <1> SUFFICES ASSUME IInv, NEW r \in Advised, NEW l \in DOMAIN report[r].advice,
                      report[r].advice[l].to # Own(l)
               PROVE  LET a == report[r].advice[l] IN
                      /\ a.savings > 0 /\ \A b \in Advice(l, Own(l)) : b.savings = a.savings
                      /\ tokens[l].in >= 0 /\ tokens[l].out >= 0 =>
                            /\ a.savings <= PaidWith(l, Own(l)) /\ (~dated => a.savings <= spent[l])
                            /\ NotDearer(a.to, Own(l)) => a.savings <= PaidWith(l, Own(l)) - PaidWith(l, a.to)
    BY DEF AdviceSaves
  <1>1. PICK a : a = report[r].advice[l]
    OBVIOUS
  <1>2. PICK own : own = Own(l)
    OBVIOUS
  <1>3. /\ PaidAsPriced /\ RegistryFits(registry) /\ l \in Labels /\ rows[l] \in Nat \ {0}
        /\ tokens[l].in \in Int /\ tokens[l].out \in Int
        /\ a \in RecommendModels(registry, own, rows[l], tokens[l].in, tokens[l].out)
    BY <1>1, <1>2, AdvisedOfRows
  <1>4. own = [provider |-> l.provider, model |-> l.model] /\ a.to # own
    BY <1>1, <1>2 DEF Own
  <1>5. ASSUME NEW b \in Advice(l, own)
        PROVE  /\ a.savings > 0 /\ b.savings = a.savings
               /\ tokens[l].in >= 0 /\ tokens[l].out >= 0 =>
                     /\ a.savings <= PaidWith(l, own)
                     /\ NotDearer(a.to, own) => a.savings <= PaidWith(l, own) - PaidWith(l, a.to)
    <2>1. b \in RecommendModels(registry, own, rows[l], tokens[l].in, tokens[l].out)
      BY <1>5 DEF Advice
    <2>2. own.provider = l.provider /\ own.model = l.model
      BY <1>4
    <2>3. /\ a.savings > 0 /\ b.savings = a.savings
          /\ tokens[l].in \in Nat /\ tokens[l].out \in Nat =>
                /\ a.savings <= CallCost(registry, own, tokens[l].in, tokens[l].out)
                /\ LET q == PricePerToken(registry, l.provider, l.model)
                       n == PricePerToken(registry, a.to.provider, a.to.model)
                   IN n.in <= q.in /\ n.out <= q.out =>
                         a.savings <= CallCost(registry, own, tokens[l].in, tokens[l].out)
                                         - CallCost(registry, a.to, tokens[l].in, tokens[l].out)
      BY <1>3, <1>4, <2>1, AdviceCanBeHad
    <2>4. tokens[l].in >= 0 /\ tokens[l].out >= 0 => tokens[l].in \in Nat /\ tokens[l].out \in Nat
      BY <1>3
    <2> QED BY <2>2, <2>3, <2>4 DEF PaidWith, CallCost, NotDearer
  <1>6. a \in Advice(l, own)
    BY <1>3 DEF Advice
  <1>7. ~dated => spent[l] = PaidWith(l, own)
    BY <1>2, <1>3 DEF PaidAsPriced
  <1> QED BY <1>1, <1>2, <1>5, <1>6, <1>7

\* AdviceSaves: however much intelligence.go:244-279 rounds away, what is promised can be had.
THEOREM SavingsAreReal == Spec => []AdviceSaves
  BY FitAlways, AdviceIsHad, PTL

\* Nobody is sent on.
LEMMA AdviceStays == IInv => AdviceSettles
  <1> SUFFICES ASSUME IInv, NEW r \in Advised, NEW l \in DOMAIN report[r].advice,
                      report[r].advice[l].to # Own(l),
                      NEW b \in Advice(l, report[r].advice[l].to)
               PROVE  b.to = report[r].advice[l].to
    BY DEF AdviceSettles
  <1>1. PICK a : a = report[r].advice[l]
    OBVIOUS
  <1>2. PICK own : own = Own(l)
    OBVIOUS
  <1>3. /\ RegistryFits(registry) /\ rows[l] \in Nat \ {0}
        /\ tokens[l].in \in Int /\ tokens[l].out \in Int
        /\ a \in RecommendModels(registry, own, rows[l], tokens[l].in, tokens[l].out)
    BY <1>1, <1>2, AdvisedOfRows
  <1>4. own = [provider |-> l.provider, model |-> l.model] /\ a.to # own
    BY <1>1, <1>2 DEF Own
  <1>5. b \in RecommendModels(registry, a.to, rows[l], tokens[l].in, tokens[l].out)
    BY <1>1 DEF Advice
  <1>6. b.to = a.to
    BY <1>3, <1>4, <1>5, AdviceIsFinal
  <1> QED BY <1>1, <1>6

\* AdviceSettles: the order of registry.go:55-66 sends nobody from one model to the next.
THEOREM AdviceIsSettled == Spec => []AdviceSettles
  BY FitAlways, AdviceStays, PTL
=============================================================================
