------------------------ MODULE SpendPipelineProofs ------------------------
(* Theorems about SpendPipeline, for every value of its constants: its types, the bound on   *)
(* what a budget overspends, its alerts, its sums of money, and the ledger it implements.    *)
EXTENDS SpendRefinement, TotalsProofs, FiniteSetTheorems, TLAPS

\* A job that starts is a job.
LEMMA NewJobType ==
  ASSUME NEW pc \in PCs, NEW t \in Tenants, NEW p \in Scopes, NEW c \in 0..MaxCost
  PROVE  NewJob(pc, t, p, c) \in Job
  <1>1. (CHOOSE b \in Budgets : TRUE) \in Budgets
    BY BudgetsAssumption
  <1> QED
    BY <1>1 DEF NewJob, Job, Levels

\* The job a worker rests in is a job.
LEMMA IdleJobType == IdleJob \in Job
  <1>1. (CHOOSE t \in Tenants : TRUE) \in Tenants
    BY ScopeAssumption
  <1>2. "idle" \in PCs /\ NoProject \in Scopes /\ 0 \in 0..MaxCost
    BY CostsAssumption DEF PCs, Scopes
  <1> QED
    BY <1>1, <1>2, NewJobType DEF IdleJob

\* Whatever a budget holds, the level of its alert is one of the four.
LEMMA LevelType == ASSUME NEW bud PROVE LevelOf(bud) \in Levels
  BY DEF LevelOf, Levels, AlertLevels

\* A worker that becomes a job keeps the type of job.
LEMMA BecomeType ==
  ASSUME TypeOK, NEW w \in Workers, NEW j \in Job, Become(w, j)
  PROVE  job' \in [Workers -> Job]
  BY DEF TypeOK, Become

\* Moving to another pc keeps the type of job.
LEMMA GotoType ==
  ASSUME TypeOK, NEW w \in Workers, NEW pc \in PCs, Goto(w, pc)
  PROVE  job' \in [Workers -> Job]
  <1>1. [job[w] EXCEPT !.pc = pc] \in Job
    BY DEF TypeOK, Job
  <1> QED BY <1>1, BecomeType DEF Goto

\* A request that ends keeps the types of job and gone.
LEMMA FinishType ==
  ASSUME TypeOK, NEW w \in Workers, Finish(w)
  PROVE  job' \in [Workers -> Job] /\ gone' \subseteq Handlers
  BY IdleJobType, BecomeType DEF TypeOK, Finish

\* So does going on to the next budget of RecordSpend's loop.
LEMMA NextBudgetType ==
  ASSUME TypeOK, NEW w \in Workers, NextBudget(w)
  PROVE  job' \in [Workers -> Job] /\ gone' \subseteq Handlers
  <1>1. CASE job[w].todo = {}
    BY <1>1, FinishType DEF NextBudget
  <1>2. CASE job[w].todo # {}
    BY <1>2, GotoType DEF NextBudget, PCs, TypeOK
  <1> QED BY <1>1, <1>2

\* The tables and the history start with their types.
LEMMA InitType == Init => TypeOK
  <1> SUFFICES ASSUME Init PROVE TypeOK
    OBVIOUS
  <1>1. \A b \in Budgets : Higher(InitBudget[b].limit, InitBudget[b].spend + 1) \in Int
    BY InitAssumption DEF Higher, Budget
  <1> QED
    BY <1>1, IdleJobType, InitAssumption DEF Init, TypeOK

-----------------------------------------------------------------------------
(* Type correctness *)

\* The steps of a handler before anything is recorded keep every type.
LEMMA ProxyType ==
  ASSUME TypeOK, NEW h \in Handlers, Proxy(h) PROVE TypeOK'
  <1> h \in Workers
    BY DEF Workers
  <1>1. CASE Arrive(h)
    <2>1. "admission" \in PCs /\ 0 \in 0..MaxCost
      BY CostsAssumption DEF PCs
    <2>2. job' \in [Workers -> Job]
      BY <1>1, <2>1, NewJobType, BecomeType DEF Arrive
    <2> QED BY <1>1, <2>2 DEF TypeOK, Arrive, tables, history
  <1>2. CASE Admit(h)
    <2>1. job' \in [Workers -> Job]
      BY <1>2, GotoType DEF Admit, PCs
    <2> QED BY <1>2, <2>1 DEF TypeOK, Admit, tables, history
  <1>3. CASE Deny(h)
    BY <1>3, FinishType DEF TypeOK, Deny, tables, history
  <1>4. CASE NothingToRecord(h)
    BY <1>4, FinishType DEF TypeOK, NothingToRecord, tables, history
  <1>5. CASE Capture(h)
    <2>1. PICK c \in Costs : Become(h, [job[h] EXCEPT !.pc = "insert", !.cost = c])
      BY <1>5 DEF Capture
    <2>2. [job[h] EXCEPT !.pc = "insert", !.cost = c] \in Job
      BY CostsAssumption DEF TypeOK, Job, PCs
    <2>3. job' \in [Workers -> Job]
      BY <2>1, <2>2, BecomeType
    <2> QED BY <1>5, <2>3 DEF TypeOK, Capture, tables, history
  <1>6. CASE Disconnect(h)
    BY <1>6 DEF TypeOK, Disconnect, tables, history
  <1> QED BY <1>1, <1>2, <1>3, <1>4, <1>5, <1>6 DEF Proxy

\* So does the start of `lcg track`.
LEMMA StartTrackType ==
  ASSUME TypeOK, NEW w \in Trackers, StartTrack(w) PROVE TypeOK'
  <1>1. PICK t \in Tenants, p \in Scopes, c \in Costs : Become(w, NewJob("insert", t, p, c))
    BY DEF StartTrack
  <1>2. NewJob("insert", t, p, c) \in Job
    BY NewJobType, CostsAssumption DEF PCs
  <1>3. job' \in [Workers -> Job]
    BY <1>1, <1>2, BecomeType DEF Workers
  <1> QED BY <1>3 DEF TypeOK, StartTrack, tables, history

\* The statements of RecordUsage keep the tables' types.
LEMMA RecordUsageType ==
  ASSUME TypeOK, NEW w \in Workers,
         InsertRow(w) \/ RollHourly(w) \/ RollDaily(w) \/ RecordFails(w) \/ UnheardRow(w)
  PROVE  TypeOK'
  <1>1. job[w].cost \in Nat /\ SeriesOf(w) \in Series
    BY CostsAssumption DEF TypeOK, Job, SeriesOf, Series
  <1>2. CASE InsertRow(w)
    <2>1. job' \in [Workers -> Job]
      BY <1>2, GotoType DEF InsertRow, PCs
    <2>2. usage' \in [Series -> Nat]
      BY <1>1, <1>2 DEF TypeOK, InsertRow
    <2> QED BY <1>2, <2>1, <2>2 DEF TypeOK, InsertRow, history
  <1>3. CASE RollHourly(w)
    <2>1. job' \in [Workers -> Job]
      BY <1>3, GotoType DEF RollHourly, PCs
    <2>2. hourly' \in [Series -> Nat]
      BY <1>1, <1>3 DEF TypeOK, RollHourly
    <2> QED BY <1>3, <2>1, <2>2 DEF TypeOK, RollHourly, history
  <1>4. CASE RollDaily(w)
    <2>1. job' \in [Workers -> Job]
      BY <1>4, GotoType DEF RollDaily, PCs
    <2>2. daily' \in [Series -> Nat]
      BY <1>1, <1>4 DEF TypeOK, RollDaily
    <2> QED BY <1>4, <2>1, <2>2 DEF TypeOK, RollDaily, history
  <1>5. CASE RecordFails(w)
    BY <1>5, FinishType DEF TypeOK, RecordFails, tables
  <1>6. CASE UnheardRow(w)
    <2>1. job' \in [Workers -> Job] /\ gone' \subseteq Handlers
      BY <1>6, FinishType DEF UnheardRow
    <2>2. /\ usage' \in [Series -> Nat] /\ hourly' \in [Series -> Nat]
          /\ daily' \in [Series -> Nat]
      BY <1>1, <1>6 DEF TypeOK, UnheardRow
    <2> QED BY <1>6, <2>1, <2>2 DEF TypeOK, UnheardRow
  <1> QED BY <1>2, <1>3, <1>4, <1>5, <1>6

\* A charge whose answer is lost is a charge, after which the worker goes on with the other
\* budgets it has listed, or is done.
UnheardTo(w, b, j) ==
    /\ job[w] \in Job /\ job[w].pc = "update" /\ b \in job[w].todo
    /\ budget' = [budget EXCEPT ![b].spend = @ + job[w].cost]
    /\ unseen' = unseen \cup {b}
    /\ Become(w, j)
    /\ \/ j = IdleJob /\ job[w].todo = {b} /\ gone' = gone \ {w}
       \/ /\ j = [job[w] EXCEPT !.todo = @ \ {b}]
          /\ j.todo = job[w].todo \ {b} /\ j.todo # {}
          /\ j.pc = "update" /\ j.cost = job[w].cost
          /\ j.tenant = job[w].tenant /\ j.project = job[w].project
          /\ gone' = gone \cup {w}

LEMMA UnheardChargeStep ==
  ASSUME TypeOK, NEW w \in Workers, UnheardCharge(w)
  PROVE  \E b \in Budgets, j \in Job : UnheardTo(w, b, j)
  <1>1. PICK b \in Budgets :
          /\ IsNext(w, b)
          /\ budget' = [budget EXCEPT ![b].spend = @ + job[w].cost]
          /\ unseen' = unseen \cup {b}
          /\ IF job[w].todo = {b}
             THEN Finish(w)
             ELSE Become(w, [job[w] EXCEPT !.todo = @ \ {b}]) /\ gone' = gone \cup {w}
    BY DEF UnheardCharge
  <1>2. job[w] \in Job /\ job[w].pc = "update" /\ b \in job[w].todo
    BY <1>1 DEF TypeOK, UnheardCharge, IsNext
  <1>3. CASE job[w].todo = {b}
    <2>1. UnheardTo(w, b, IdleJob)
      BY <1>1, <1>2, <1>3 DEF Finish, UnheardTo
    <2> QED BY <2>1, IdleJobType
  <1>4. CASE job[w].todo # {b}
    <2> DEFINE j == [job[w] EXCEPT !.todo = @ \ {b}]
    <2>1. /\ j \in Job /\ j.todo = job[w].todo \ {b} /\ j.pc = "update"
          /\ j.cost = job[w].cost
          /\ j.tenant = job[w].tenant /\ j.project = job[w].project
      BY <1>2 DEF Job
    <2>2. j.todo # {}
      BY <1>2, <1>4, <2>1
    <2>3. Become(w, j) /\ gone' = gone \cup {w}
      BY <1>1, <1>4
    <2> HIDE DEF j
    <2>4. j = [job[w] EXCEPT !.todo = @ \ {b}]
      BY DEF j
    <2>5. UnheardTo(w, b, j)
      BY <1>1, <1>2, <2>1, <2>2, <2>3, <2>4 DEF UnheardTo
    <2> QED BY <2>1, <2>5
  <1> QED BY <1>3, <1>4

\* So do the steps of RecordSpend.
LEMMA RecordSpendType ==
  ASSUME TypeOK, NEW w \in Workers,
         \/ ListApplicable(w) \/ ChargeBudget(w) \/ ChargeFails(w) \/ UnheardCharge(w)
         \/ Reread(w) \/ RereadFails(w) \/ Notify(w)
  PROVE  TypeOK'
  <1>1. job[w] \in Job
    BY DEF TypeOK
  <1>2. CASE ListApplicable(w)
    <2>1. Applicable(w) \subseteq Budgets
      BY DEF TypeOK, Applicable
    <2>2. [job[w] EXCEPT !.pc = "update", !.todo = Applicable(w)] \in Job
      BY <1>1, <2>1 DEF Job, PCs
    <2>3. job' \in [Workers -> Job] /\ gone' \subseteq Handlers
      BY <1>2, <2>2, FinishType, BecomeType DEF ListApplicable, TypeOK
    <2> QED BY <1>2, <2>3 DEF TypeOK, ListApplicable, tables, history
  <1>3. CASE ChargeBudget(w)
    <2>1. PICK b \in Budgets :
            /\ budget' = [budget EXCEPT ![b].spend = @ + job[w].cost]
            /\ Become(w, [job[w] EXCEPT !.pc = "reread", !.cur = b, !.todo = @ \ {b}])
            /\ allowance' = IF w \in Trackers
                            THEN [allowance EXCEPT ![b] = @ + job[w].cost]
                            ELSE allowance
      BY <1>3 DEF ChargeBudget
    <2>2. [job[w] EXCEPT !.pc = "reread", !.cur = b, !.todo = @ \ {b}] \in Job
      BY <1>1 DEF Job, PCs
    <2>3. job' \in [Workers -> Job]
      BY <2>1, <2>2, BecomeType
    <2>4. job[w].cost \in Nat
      BY <1>1, CostsAssumption DEF Job
    <2>5. budget' \in [Budgets -> Budget] /\ \A x \in Budgets : budget'[x].spend \in Nat
      BY <2>1, <2>4 DEF TypeOK, Budget
    <2>6. allowance' \in [Budgets -> Int]
      BY <2>1, <2>4 DEF TypeOK
    <2> QED BY <1>3, <2>3, <2>5, <2>6 DEF TypeOK, ChargeBudget
  <1>4. CASE ChargeFails(w)
    <2>1. PICK b \in Budgets :
            IF job[w].todo = {b}
            THEN Finish(w)
            ELSE Become(w, [job[w] EXCEPT !.todo = @ \ {b}]) /\ UNCHANGED gone
      BY <1>4 DEF ChargeFails
    <2>2. [job[w] EXCEPT !.todo = @ \ {b}] \in Job
      BY <1>1 DEF Job
    <2>3. job' \in [Workers -> Job] /\ gone' \subseteq Handlers
      BY <2>1, <2>2, FinishType, BecomeType DEF TypeOK
    <2> QED BY <1>4, <2>3 DEF TypeOK, ChargeFails, tables
  <1>5. CASE Reread(w)
    <2> DEFINE level == LevelOf(budget[job[w].cur])
    <2>1. [job[w] EXCEPT !.pc = "notify", !.level = level] \in Job
      BY <1>1, LevelType DEF Job, PCs
    <2>2. job' \in [Workers -> Job] /\ gone' \subseteq Handlers
      BY <1>5, <2>1, NextBudgetType, BecomeType DEF Reread, TypeOK
    <2> QED BY <1>5, <2>2 DEF TypeOK, Reread, tables
  <1>6. CASE RereadFails(w)
    <2>1. job' \in [Workers -> Job] /\ gone' \subseteq Handlers
      BY <1>6, NextBudgetType DEF RereadFails
    <2>2. job[w].cur \in Budgets
      BY <1>1 DEF Job
    <2> QED BY <1>6, <2>1, <2>2 DEF TypeOK, RereadFails, tables
  <1>7. CASE Notify(w)
    <2>1. job' \in [Workers -> Job] /\ gone' \subseteq Handlers
      BY <1>7, NextBudgetType DEF Notify
    <2>2. sent' \in [Budgets -> SUBSET Levels]
      BY <1>1, <1>7 DEF TypeOK, Notify, Job
    <2> QED BY <1>7, <2>1, <2>2 DEF TypeOK, Notify, tables
  <1>8. CASE UnheardCharge(w)
    <2>1. PICK b \in Budgets, j \in Job : UnheardTo(w, b, j)
      BY <1>8, UnheardChargeStep
    <2>2. job[w].cost \in Nat
      BY <1>1, CostsAssumption DEF Job
    <2>3. budget' \in [Budgets -> Budget] /\ \A x \in Budgets : budget'[x].spend \in Nat
      BY <2>1, <2>2 DEF TypeOK, Budget, UnheardTo
    <2>4. job' \in [Workers -> Job] /\ gone' \subseteq Handlers /\ unseen' \subseteq Budgets
      BY <1>8, <2>1, BecomeType DEF TypeOK, UnheardCharge, UnheardTo
    <2> QED BY <1>8, <2>3, <2>4 DEF TypeOK, UnheardCharge
  <1> QED BY <1>2, <1>3, <1>4, <1>5, <1>6, <1>7, <1>8

\* So does `lcg budget set`: the spend it keeps, or starts with, is a natural number.
LEMMA SetsBudgetType ==
  ASSUME TypeOK, SetsBudget PROVE TypeOK'
  <1>1. PICK b \in Budgets, t \in Tenants, p \in Scopes, limit \in Limits, a \in Thresholds :
          SetBudget(b, t, p, limit, a)
    BY DEF SetsBudget
  <1> DEFINE spend == IF b \in defined THEN budget[b].spend ELSE 0
             row == [tenant |-> t, project |-> p, limit |-> limit, spend |-> spend, alertAt |-> a]
  <1>2. spend \in Nat
    BY DEF TypeOK
  <1>3. row \in Budget /\ row.spend \in Nat /\ limit \in Int
    BY <1>2, LimitsAssumption DEF Budget
  <1>4. budget' = [budget EXCEPT ![b] = row]
    BY <1>1 DEF SetBudget
  <1>5. budget' \in [Budgets -> Budget] /\ \A x \in Budgets : budget'[x].spend \in Nat
    <2> HIDE DEF row
    <2> QED BY <1>3, <1>4 DEF TypeOK
  <1>6. allowance' \in [Budgets -> Int]
    BY <1>1, <1>2, <1>3 DEF TypeOK, SetBudget, Higher
  <1>7. sets' \in Nat
    BY <1>1 DEF TypeOK, SetBudget
  <1> QED
    BY <1>1, <1>5, <1>6, <1>7 DEF TypeOK, SetBudget

\* Every step keeps every type.
LEMMA NextType == TypeOK /\ [Next]_vars => TypeOK'
  <1> SUFFICES ASSUME TypeOK, [Next]_vars PROVE TypeOK'
    OBVIOUS
  <1>1. CASE \E h \in Handlers : Proxy(h)
    BY <1>1, ProxyType
  <1>2. CASE \E w \in Trackers : StartTrack(w)
    BY <1>2, StartTrackType
  <1>3. CASE \E w \in Workers : Record(w)
    BY <1>3, RecordUsageType, RecordSpendType DEF Record
  <1>4. CASE SetsBudget
    BY <1>4, SetsBudgetType
  <1>5. CASE UNCHANGED vars
    BY <1>5 DEF TypeOK, vars, tables, history
  <1> QED
    BY <1>1, <1>2, <1>3, <1>4, <1>5 DEF Next, Quiet

\* In every state of every execution the tables, the workers' jobs and the history have
\* their types; in particular no budget's spend is ever negative.
THEOREM TypeCorrect == Spec => []TypeOK
  <1>1. Init => TypeOK
    BY InitType
  <1>2. TypeOK /\ [Next]_vars => TypeOK'
    BY NextType
  <1> QED BY <1>1, <1>2, PTL DEF Spec

-----------------------------------------------------------------------------
(* The overshoot bound.  OvershootBound says nothing of the requests in   *)
(* flight, so it is not inductive: an admitted request can take the spend  *)
(* past it in one step.  GateInv counts them: each handler that may still  *)
(* charge the budget has its MaxCost set aside.                            *)

Debtors(b) == {h \in Handlers : Owes(h, b)}

Reserved(b) == MaxCost * Cardinality(Debtors(b))
Ceiling(b) == allowance[b] - 1 + MaxCost * Cardinality(Handlers)

GateInv == DenyOnExceed => \A b \in defined : budget[b].spend + Reserved(b) <= Ceiling(b)

\* Multiplication by a natural number is monotone.
LEMMA TimesMonotone ==
  ASSUME NEW k \in Nat, NEW m \in Nat, NEW n \in Nat, m <= n
  PROVE  k * m <= k * n
  OBVIOUS

\* One factor fewer frees one summand.
LEMMA TimesPredecessor ==
  ASSUME NEW k \in Nat, NEW m \in Nat, NEW n \in Nat, m + 1 <= n
  PROVE  k * m + k <= k * n
  <1>1. k * (m + 1) = k * m + k
    OBVIOUS
  <1>2. k * (m + 1) <= k * n
    BY TimesMonotone
  <1> QED BY <1>1, <1>2

\* A set of handlers is finite and no larger than a set of handlers that contains it.
LEMMA HandlerCount ==
  ASSUME NEW S, NEW T, S \subseteq T, T \subseteq Handlers
  PROVE  /\ Cardinality(S) \in Nat /\ Cardinality(T) \in Nat
         /\ Cardinality(S) <= Cardinality(T)
         /\ MaxCost * Cardinality(S) <= MaxCost * Cardinality(T)
  <1>1. IsFiniteSet(T) /\ IsFiniteSet(S)
    BY WorkersAssumption, FS_Subset
  <1>2. /\ Cardinality(S) \in Nat /\ Cardinality(T) \in Nat
        /\ Cardinality(S) <= Cardinality(T)
    BY <1>1, FS_Subset, FS_CardinalityType
  <1> QED BY <1>2, TimesMonotone, CostsAssumption

\* Settling one debt frees at least its MaxCost.
LEMMA HandlerSettles ==
  ASSUME NEW S, NEW T, T \subseteq Handlers, NEW h \in T, S \subseteq T \ {h}
  PROVE  MaxCost * Cardinality(S) + MaxCost <= MaxCost * Cardinality(T)
  <1>1. IsFiniteSet(T)
    BY WorkersAssumption, FS_Subset
  <1>2. Cardinality(T \ {h}) = Cardinality(T) - 1
    BY <1>1, FS_RemoveElement
  <1>3. T \ {h} \subseteq Handlers
    OBVIOUS
  <1>4. Cardinality(S) <= Cardinality(T \ {h}) /\ Cardinality(S) \in Nat /\ Cardinality(T) \in Nat
    BY <1>1, <1>3, HandlerCount
  <1> QED BY <1>2, <1>4, TimesPredecessor, CostsAssumption

\* With the spend below the allowance there is room for any set of handlers.
LEMMA RoomForAll ==
  ASSUME NEW S \in SUBSET Handlers, NEW spend \in Int, NEW a \in Int, spend <= a - 1
  PROVE  spend + MaxCost * Cardinality(S) <= a - 1 + MaxCost * Cardinality(Handlers)
  <1> DEFINE s == MaxCost * Cardinality(S)
             c == MaxCost * Cardinality(Handlers)
  <1>1. s \in Nat /\ c \in Nat /\ s <= c
    BY HandlerCount, CostsAssumption
  <1> HIDE DEF s, c
  <1>2. spend + s <= a - 1 + c
    BY <1>1
  <1> QED BY <1>2 DEF s, c

\* A worker that moves on without a new claim on b adds nobody to b's debtors.
LEMMA NoNewDebtor ==
  ASSUME TypeOK, NEW w \in Workers, NEW j, Become(w, j), NEW b \in Budgets,
         budget'[b].tenant = budget[b].tenant, budget'[b].project = budget[b].project,
         w \in Handlers => (MayCharge(j, b) => Owes(w, b))
  PROVE  Debtors(b)' \subseteq Debtors(b)
  <1> SUFFICES ASSUME NEW h \in Handlers, Owes(h, b)' PROVE Owes(h, b)
    BY DEF Debtors
  <1>1. MayCharge(job'[h], b)
    BY DEF Owes, MayCharge, Covers
  <1>2. CASE h = w
    BY <1>1, <1>2 DEF Become, TypeOK
  <1>3. CASE h # w
    BY <1>1, <1>3 DEF Become, TypeOK, Owes, Workers
  <1> QED BY <1>2, <1>3

\* A request that ends owes nothing.
LEMMA FinishDebtors ==
  ASSUME TypeOK, NEW w \in Workers, Finish(w), UNCHANGED budget, NEW b \in Budgets
  PROVE  Debtors(b)' \subseteq Debtors(b)
  <1>1. ~MayCharge(IdleJob, b)
    BY DEF MayCharge, IdleJob, NewJob, Unlisted, Charging
  <1> QED BY <1>1, NoNewDebtor DEF Finish

\* Moving to a later pc of the same phase makes no new claim.
LEMMA GotoDebtors ==
  ASSUME TypeOK, NEW w \in Workers, NEW pc, Goto(w, pc), UNCHANGED budget, NEW b \in Budgets,
         \/ pc \in Unlisted /\ job[w].pc \in Unlisted
         \/ pc \in Charging /\ job[w].pc \in Charging
  PROVE  Debtors(b)' \subseteq Debtors(b)
  <1> DEFINE j == [job[w] EXCEPT !.pc = pc]
  <1>1. job[w] \in Job
    BY DEF TypeOK
  <1>2. /\ j.pc = pc /\ j.tenant = job[w].tenant /\ j.project = job[w].project
        /\ j.todo = job[w].todo
    BY <1>1 DEF Job
  <1>3. MayCharge(j, b) => Owes(w, b)
    BY <1>2 DEF MayCharge, Owes, Unlisted, Charging
  <1> HIDE DEF j
  <1>4. Become(w, j)
    BY DEF Goto, j
  <1> QED BY <1>3, <1>4, NoNewDebtor

\* Going on to the next budget makes no new claim.
LEMMA NextBudgetDebtors ==
  ASSUME TypeOK, NEW w \in Workers, job[w].pc \in Charging, NextBudget(w), UNCHANGED budget,
         NEW b \in Budgets
  PROVE  Debtors(b)' \subseteq Debtors(b)
  <1>1. CASE job[w].todo = {}
    BY <1>1, FinishDebtors DEF NextBudget
  <1>2. CASE job[w].todo # {}
    BY <1>2, GotoDebtors DEF NextBudget, Charging
  <1> QED BY <1>1, <1>2

\* Before anything is recorded only an admission makes a new claim.
LEMMA ProxyDebtors ==
  ASSUME TypeOK, NEW h \in Handlers, NEW b \in Budgets,
         \/ Arrive(h) \/ Deny(h) \/ NothingToRecord(h) \/ Capture(h) \/ Disconnect(h)
  PROVE  Debtors(b)' \subseteq Debtors(b)
  <1> h \in Workers
    BY DEF Workers
  <1>1. CASE Arrive(h)
    <2>1. PICK t \in Tenants, p \in Scopes : Become(h, NewJob("admission", t, p, 0))
      BY <1>1 DEF Arrive
    <2>2. ~MayCharge(NewJob("admission", t, p, 0), b)
      BY DEF MayCharge, NewJob, Unlisted, Charging
    <2> QED BY <1>1, <2>1, <2>2, NoNewDebtor DEF Arrive, tables
  <1>2. CASE Deny(h)
    BY <1>2, FinishDebtors DEF Deny, tables
  <1>3. CASE NothingToRecord(h)
    BY <1>3, FinishDebtors DEF NothingToRecord, tables
  <1>4. CASE Capture(h)
    <2>1. PICK c \in Costs : Become(h, [job[h] EXCEPT !.pc = "insert", !.cost = c])
      BY <1>4 DEF Capture
    <2> DEFINE j == [job[h] EXCEPT !.pc = "insert", !.cost = c]
    <2>2. job[h] \in Job
      BY DEF TypeOK
    <2>3. /\ j.pc = "insert" /\ j.tenant = job[h].tenant /\ j.project = job[h].project
      BY <2>2 DEF Job
    <2>4. MayCharge(j, b) => Owes(h, b)
      BY <1>4, <2>3 DEF Capture, MayCharge, Owes, Unlisted, Charging
    <2>5. UNCHANGED budget
      BY <1>4 DEF Capture, tables
    <2> HIDE DEF j
    <2>6. Become(h, j)
      BY <2>1 DEF j
    <2> QED BY <2>4, <2>5, <2>6, NoNewDebtor
  <1>5. CASE Disconnect(h)
    BY <1>5 DEF Disconnect, Debtors, Owes, MayCharge, tables
  <1> QED BY <1>1, <1>2, <1>3, <1>4, <1>5

\* No step of recording makes a new claim on a budget.
LEMMA RecordDebtors ==
  ASSUME TypeOK, NEW w \in Workers, NEW b \in Budgets, Record(w)
  PROVE  Debtors(b)' \subseteq Debtors(b)
  <1>1. CASE InsertRow(w)
    BY <1>1, GotoDebtors DEF InsertRow, Unlisted
  <1>2. CASE RollHourly(w)
    BY <1>2, GotoDebtors DEF RollHourly, Unlisted
  <1>3. CASE RollDaily(w)
    BY <1>3, GotoDebtors DEF RollDaily, Unlisted
  <1>4. CASE RecordFails(w)
    BY <1>4, FinishDebtors DEF RecordFails, tables
  <1>5. CASE ListApplicable(w)
    <2> DEFINE j == [job[w] EXCEPT !.pc = "update", !.todo = Applicable(w)]
    <2>1. UNCHANGED budget
      BY <1>5 DEF ListApplicable, tables
    <2>2. CASE Applicable(w) = {}
      BY <1>5, <2>1, <2>2, FinishDebtors DEF ListApplicable
    <2>3. CASE Applicable(w) # {}
      <3>1. job[w] \in Job
        BY DEF TypeOK
      <3>2. j.pc = "update" /\ j.todo = Applicable(w)
        BY <3>1 DEF Job
      <3>3. MayCharge(j, b) => Owes(w, b)
        BY <1>5, <3>2 DEF ListApplicable, MayCharge, Owes, Applicable, Unlisted, Charging
      <3> HIDE DEF j
      <3>4. Become(w, j)
        BY <1>5, <2>3 DEF ListApplicable, j
      <3> QED BY <2>1, <3>3, <3>4, NoNewDebtor
    <2> QED BY <2>2, <2>3
  <1>6. CASE ChargeBudget(w)
    <2>1. PICK x \in Budgets :
            /\ budget' = [budget EXCEPT ![x].spend = @ + job[w].cost]
            /\ Become(w, [job[w] EXCEPT !.pc = "reread", !.cur = x, !.todo = @ \ {x}])
      BY <1>6 DEF ChargeBudget
    <2> DEFINE j == [job[w] EXCEPT !.pc = "reread", !.cur = x, !.todo = @ \ {x}]
    <2>2. job[w] \in Job
      BY DEF TypeOK
    <2>3. j.pc = "reread" /\ j.todo = job[w].todo \ {x}
      BY <2>2 DEF Job
    <2>4. MayCharge(j, b) => Owes(w, b)
      BY <1>6, <2>3 DEF ChargeBudget, MayCharge, Owes, Unlisted, Charging
    <2>5. budget'[b].tenant = budget[b].tenant /\ budget'[b].project = budget[b].project
      BY <2>1 DEF TypeOK, Budget
    <2> HIDE DEF j
    <2>6. Become(w, j)
      BY <2>1 DEF j
    <2> QED BY <2>4, <2>5, <2>6, NoNewDebtor
  <1>7. CASE ChargeFails(w)
    <2>1. PICK x \in Budgets :
            IF job[w].todo = {x}
            THEN Finish(w)
            ELSE Become(w, [job[w] EXCEPT !.todo = @ \ {x}]) /\ UNCHANGED gone
      BY <1>7 DEF ChargeFails
    <2> DEFINE j == [job[w] EXCEPT !.todo = @ \ {x}]
    <2>2. UNCHANGED budget
      BY <1>7 DEF ChargeFails, tables
    <2>3. CASE job[w].todo = {x}
      BY <2>1, <2>2, <2>3, FinishDebtors
    <2>4. CASE job[w].todo # {x}
      <3>1. job[w] \in Job
        BY DEF TypeOK
      <3>2. j.pc = job[w].pc /\ j.todo = job[w].todo \ {x}
        BY <3>1 DEF Job
      <3>3. MayCharge(j, b) => Owes(w, b)
        BY <1>7, <3>2 DEF ChargeFails, MayCharge, Owes, Unlisted, Charging
      <3> HIDE DEF j
      <3>4. Become(w, j)
        BY <2>1, <2>4 DEF j
      <3> QED BY <2>2, <3>3, <3>4, NoNewDebtor
    <2> QED BY <2>3, <2>4
  <1>8. CASE Reread(w)
    <2> DEFINE level == LevelOf(budget[job[w].cur])
               j == [job[w] EXCEPT !.pc = "notify", !.level = level]
    <2>1. UNCHANGED budget /\ job[w].pc \in Charging
      BY <1>8 DEF Reread, tables, Charging
    <2>2. CASE level = "none"
      BY <1>8, <2>1, <2>2, NextBudgetDebtors DEF Reread
    <2>3. CASE level # "none"
      <3>1. job[w] \in Job
        BY DEF TypeOK
      <3>2. j.pc = "notify" /\ j.todo = job[w].todo
        BY <3>1 DEF Job
      <3>3. MayCharge(j, b) => Owes(w, b)
        BY <2>1, <3>2 DEF MayCharge, Owes, Unlisted, Charging
      <3>4. Become(w, j)
        BY <1>8, <2>3 DEF Reread
      <3> HIDE DEF j
      <3> QED BY <2>1, <3>3, <3>4, NoNewDebtor
    <2> QED BY <2>2, <2>3
  <1>9. CASE RereadFails(w)
    BY <1>9, NextBudgetDebtors DEF RereadFails, tables, Charging
  <1>10. CASE Notify(w)
    BY <1>10, NextBudgetDebtors DEF Notify, tables, Charging
  <1>11. CASE UnheardRow(w)
    BY <1>11, FinishDebtors DEF UnheardRow
  <1>12. CASE UnheardCharge(w)
    <2>1. PICK x \in Budgets, j \in Job : UnheardTo(w, x, j)
      BY <1>12, UnheardChargeStep
    <2>2. MayCharge(j, b) => Owes(w, b)
      BY <2>1 DEF UnheardTo, MayCharge, Owes, IdleJob, NewJob, Unlisted, Charging
    <2>3. budget'[b].tenant = budget[b].tenant /\ budget'[b].project = budget[b].project
      BY <2>1 DEF TypeOK, Budget, UnheardTo
    <2>4. Become(w, j)
      BY <2>1 DEF UnheardTo
    <2> QED BY <2>2, <2>3, <2>4, NoNewDebtor
  <1> QED
    BY <1>1, <1>2, <1>3, <1>4, <1>5, <1>6, <1>7, <1>8, <1>9, <1>10, <1>11, <1>12 DEF Record

\* A step that leaves b's spend and allowance alone and adds no debtor keeps the bound of b.
LEMMA UnspentKeeps ==
  ASSUME TypeOK, TypeOK', NEW b \in Budgets,
         budget[b].spend + Reserved(b) <= Ceiling(b),
         budget'[b].spend = budget[b].spend, allowance'[b] = allowance[b],
         Debtors(b)' \subseteq Debtors(b)
  PROVE  budget'[b].spend + Reserved(b)' <= Ceiling(b)'
  <1>1. Debtors(b) \subseteq Handlers
    BY DEF Debtors
  <1>2. MaxCost * Cardinality(Debtors(b)') <= MaxCost * Cardinality(Debtors(b))
        /\ Cardinality(Debtors(b)') \in Nat /\ Cardinality(Debtors(b)) \in Nat
    BY <1>1, HandlerCount
  <1>3. Cardinality(Handlers) \in Nat
    BY HandlerCount
  <1> DEFINE r == MaxCost * Cardinality(Debtors(b))
             rr == MaxCost * Cardinality(Debtors(b)')
             c == MaxCost * Cardinality(Handlers)
  <1>4. r \in Nat /\ rr \in Nat /\ c \in Nat /\ rr <= r
    BY <1>2, <1>3, CostsAssumption
  <1>5. Reserved(b) = r /\ Reserved(b)' = rr /\ Ceiling(b) = allowance[b] - 1 + c
        /\ Ceiling(b)' = allowance'[b] - 1 + c
    BY DEF Reserved, Ceiling
  <1>6. budget[b].spend \in Nat /\ allowance[b] \in Int
    BY DEF TypeOK
  <1> HIDE DEF r, rr, c
  <1> QED BY <1>4, <1>5, <1>6

\* A handler is admitted with every applicable budget below its limit, hence below its
\* allowance, and then all handlers together fit under the ceiling.
LEMMA AdmitKeeps ==
  ASSUME TypeOK, TypeOK', DenyOnExceed, NEW h \in Handlers, Admit(h), NEW b \in defined,
         budget[b].limit <= allowance[b],
         budget[b].spend + Reserved(b) <= Ceiling(b)
  PROVE  budget'[b].spend + Reserved(b)' <= Ceiling(b)'
  <1> b \in Budgets /\ h \in Workers
    BY DEF TypeOK, Workers
  <1>1. UNCHANGED <<budget, allowance>>
    BY DEF Admit, tables, history
  <1>2. CASE Covers(budget[b], job[h].tenant, job[h].project)
    <2>1. b \in Applicable(h)
      BY <1>2 DEF Applicable
    <2>2. budget[b].spend <= allowance[b] - 1
      BY <2>1 DEF Admit, Exceeded, TypeOK, Budget
    <2>3. /\ budget'[b].spend <= allowance'[b] - 1
          /\ budget'[b].spend \in Int /\ allowance'[b] \in Int
      BY <1>1, <2>2 DEF TypeOK
    <2>4. Debtors(b)' \in SUBSET Handlers
      BY DEF Debtors
    <2> QED BY <2>3, <2>4, RoomForAll DEF Reserved, Ceiling
  <1>3. CASE ~Covers(budget[b], job[h].tenant, job[h].project)
    <2> DEFINE j == [job[h] EXCEPT !.pc = "upstream"]
    <2>1. job[h] \in Job
      BY DEF TypeOK
    <2>2. j.pc = "upstream" /\ j.tenant = job[h].tenant /\ j.project = job[h].project
      BY <2>1 DEF Job
    <2>3. ~MayCharge(j, b)
      BY <1>3, <2>2 DEF MayCharge, Charging
    <2>4. Become(h, j)
      BY DEF Admit, Goto
    <2> HIDE DEF j
    <2>5. Debtors(b)' \subseteq Debtors(b)
      BY <1>1, <2>3, <2>4, NoNewDebtor
    <2> QED BY <1>1, <2>5, UnspentKeeps
  <1> QED BY <1>2, <1>3

\* A charge of at most MaxCost by a debtor is paid from what was set aside for it; what
\* `lcg track` adds raises the allowance by as much.
LEMMA SpendingKeeps ==
  ASSUME TypeOK, TypeOK', NEW w \in Workers, NEW x \in Budgets, NEW b \in Budgets,
         budget' = [budget EXCEPT ![x].spend = @ + job[w].cost],
         Debtors(b)' \subseteq Debtors(b),
         \/ w \in Trackers /\ allowance' = [allowance EXCEPT ![x] = @ + job[w].cost]
         \/ w \in Debtors(x) /\ w \notin Debtors(x)' /\ allowance' = allowance,
         budget[b].spend + Reserved(b) <= Ceiling(b)
  PROVE  budget'[b].spend + Reserved(b)' <= Ceiling(b)'
  <1>1. CASE x # b
    BY <1>1, UnspentKeeps DEF TypeOK
  <1>2. CASE x = b
    <2> DEFINE r == MaxCost * Cardinality(Debtors(b))
               rr == MaxCost * Cardinality(Debtors(b)')
               c == MaxCost * Cardinality(Handlers)
               cost == job[w].cost
    <2>1. Debtors(b) \subseteq Handlers
      BY DEF Debtors
    <2>2. r \in Nat /\ rr \in Nat /\ c \in Nat /\ rr <= r
      BY <2>1, HandlerCount, CostsAssumption
    <2>3. cost \in Nat /\ cost <= MaxCost
      BY CostsAssumption DEF TypeOK, Job
    <2>4. /\ Reserved(b) = r /\ Reserved(b)' = rr
          /\ Ceiling(b) = allowance[b] - 1 + c /\ Ceiling(b)' = allowance'[b] - 1 + c
      BY DEF Reserved, Ceiling
    <2>5. budget'[b].spend = budget[b].spend + cost
      BY <1>2 DEF TypeOK, Budget
    <2>6. budget[b].spend \in Nat /\ allowance[b] \in Int
      BY DEF TypeOK
    <2>7. CASE w \in Trackers /\ allowance' = [allowance EXCEPT ![x] = @ + job[w].cost]
      <3>1. allowance'[b] = allowance[b] + cost
        BY <1>2, <2>7 DEF TypeOK
      <3> HIDE DEF r, rr, c, cost
      <3> QED BY <2>2, <2>3, <2>4, <2>5, <2>6, <3>1
    <2>8. CASE w \in Debtors(x) /\ w \notin Debtors(x)' /\ allowance' = allowance
      <3>1. rr + MaxCost <= r
        BY <1>2, <2>1, <2>8, HandlerSettles
      <3>2. allowance' = allowance
        BY <2>8
      <3> HIDE DEF r, rr, c, cost
      <3> QED BY <2>2, <2>3, <2>4, <2>5, <2>6, <3>1, <3>2, CostsAssumption
    <2> QED BY <2>7, <2>8
  <1> QED BY <1>1, <1>2

\* The two ways in which a budget is charged: with an answer, and with one that is lost.
LEMMA ChargeKeeps ==
  ASSUME TypeOK, TypeOK', NEW w \in Workers, ChargeBudget(w) \/ UnheardCharge(w),
         NEW b \in Budgets, budget[b].spend + Reserved(b) <= Ceiling(b)
  PROVE  budget'[b].spend + Reserved(b)' <= Ceiling(b)'
  <1>1. Debtors(b)' \subseteq Debtors(b)
    BY RecordDebtors DEF Record
  <1>2. job[w] \in Job /\ job[w].pc = "update"
    BY DEF TypeOK, ChargeBudget, UnheardCharge
  <1>3. CASE ChargeBudget(w)
    <2>1. PICK x \in Budgets :
            /\ IsNext(w, x)
            /\ budget' = [budget EXCEPT ![x].spend = @ + job[w].cost]
            /\ Become(w, [job[w] EXCEPT !.pc = "reread", !.cur = x, !.todo = @ \ {x}])
            /\ allowance' = IF w \in Trackers
                            THEN [allowance EXCEPT ![x] = @ + job[w].cost]
                            ELSE allowance
      BY <1>3 DEF ChargeBudget
    <2>2. w \in Handlers => w \in Debtors(x)
      BY <1>2, <2>1 DEF Debtors, Owes, MayCharge, Charging, IsNext
    <2>3. w \notin Debtors(x)'
      <3> DEFINE j == [job[w] EXCEPT !.pc = "reread", !.cur = x, !.todo = @ \ {x}]
      <3>1. j.pc = "reread" /\ j.todo = job[w].todo \ {x}
        BY <1>2 DEF Job
      <3> HIDE DEF j
      <3>2. job'[w] = j
        BY <2>1 DEF j, Become, TypeOK
      <3> QED BY <3>1, <3>2 DEF Debtors, Owes, MayCharge, Unlisted
    <2>4. \/ w \in Trackers /\ allowance' = [allowance EXCEPT ![x] = @ + job[w].cost]
          \/ w \in Debtors(x) /\ w \notin Debtors(x)' /\ allowance' = allowance
      BY <2>1, <2>2, <2>3 DEF Workers
    <2> QED BY <1>1, <2>1, <2>4, SpendingKeeps
  <1>4. CASE UnheardCharge(w)
    <2>1. PICK x \in Budgets, j \in Job : UnheardTo(w, x, j)
      BY <1>4, UnheardChargeStep
    <2>2. w \in Debtors(x) /\ allowance' = allowance
      BY <1>4, <2>1 DEF UnheardCharge, UnheardTo, Debtors, Owes, MayCharge, Charging
    <2>3. job'[w] = j
      BY <2>1 DEF Become, TypeOK, UnheardTo
    <2>4. w \notin Debtors(x)'
      BY <2>1, <2>3
      DEF UnheardTo, Debtors, Owes, MayCharge, IdleJob, NewJob, Unlisted, Charging
    <2>5. budget' = [budget EXCEPT ![x].spend = @ + job[w].cost]
      BY <2>1 DEF UnheardTo
    <2> QED BY <1>1, <2>2, <2>4, <2>5, SpendingKeeps
  <1> QED BY <1>3, <1>4

\* A budget that is set keeps its spend.  If its scope stays, its debtors stay; if it is
\* new or re-scoped, the allowance starts over above the spend.
LEMMA SetBudgetKeeps ==
  ASSUME TypeOK, TypeOK',
         NEW x \in Budgets, NEW t \in Tenants, NEW p \in Scopes,
         NEW limit \in Limits, NEW a \in Thresholds, SetBudget(x, t, p, limit, a),
         NEW b \in defined',
         b \in defined => budget[b].spend + Reserved(b) <= Ceiling(b)
  PROVE  budget'[b].spend + Reserved(b)' <= Ceiling(b)'
  <1> b \in Budgets
    BY DEF TypeOK
  <1> DEFINE spend == IF x \in defined THEN budget[x].spend ELSE 0
             moves == x \notin defined \/ budget[x].tenant # t \/ budget[x].project # p
             row == [tenant |-> t, project |-> p, limit |-> limit, spend |-> spend, alertAt |-> a]
  <1>1. budget' = [budget EXCEPT ![x] = row]
    BY DEF SetBudget
  <1>2. /\ defined' = defined \cup {x} /\ UNCHANGED job
        /\ allowance' = [allowance EXCEPT ![x] =
                            Higher(@, IF moves THEN Higher(limit, spend + 1) ELSE limit)]
    BY DEF SetBudget
  <1>3. spend \in Nat /\ limit \in Int /\ allowance[x] \in Int
    BY LimitsAssumption DEF TypeOK
  <1>4. CASE b # x
    <2>1. budget'[b] = budget[b] /\ allowance'[b] = allowance[b] /\ b \in defined
      BY <1>1, <1>2, <1>4 DEF TypeOK
    <2>2. Debtors(b)' \subseteq Debtors(b)
      BY <1>2, <2>1 DEF Debtors, Owes, MayCharge, Covers
    <2> QED BY <2>1, <2>2, UnspentKeeps
  <1>5. CASE b = x /\ moves
    <2>1. budget'[b].spend = spend
      BY <1>1, <1>5 DEF TypeOK
    <2>2. allowance'[b] >= spend + 1 /\ allowance'[b] \in Int
      BY <1>2, <1>3, <1>5 DEF Higher, TypeOK
    <2>3. Debtors(b)' \in SUBSET Handlers
      BY DEF Debtors
    <2> HIDE DEF spend, moves, row
    <2>4. spend \in Int /\ spend <= allowance'[b] - 1
      BY <1>3, <2>2
    <2> QED BY <2>1, <2>2, <2>3, <2>4, RoomForAll DEF Reserved, Ceiling
  <1>6. CASE b = x /\ ~moves
    <2>1. /\ b \in defined
          /\ budget'[b].spend = budget[b].spend
          /\ budget'[b].tenant = budget[b].tenant /\ budget'[b].project = budget[b].project
      BY <1>1, <1>6 DEF TypeOK
    <2>2. allowance'[b] >= allowance[b] /\ allowance[b] \in Int /\ allowance'[b] \in Int
      BY <1>2, <1>3, <1>6 DEF Higher, TypeOK
    <2>3. Debtors(b)' = Debtors(b)
      BY <1>2, <2>1 DEF Debtors, Owes, MayCharge, Covers
    <2> DEFINE r == MaxCost * Cardinality(Debtors(b))
               c == MaxCost * Cardinality(Handlers)
    <2>4. /\ Reserved(b) = r /\ Reserved(b)' = r
          /\ Ceiling(b) = allowance[b] - 1 + c /\ Ceiling(b)' = allowance'[b] - 1 + c
      BY <2>3 DEF Reserved, Ceiling
    <2>5. r \in Nat /\ c \in Nat /\ budget[b].spend \in Nat
      BY HandlerCount, CostsAssumption DEF Debtors, TypeOK
    <2> HIDE DEF spend, moves, row, r, c
    <2> QED BY <2>1, <2>2, <2>4, <2>5
  <1> QED BY <1>4, <1>5, <1>6

LimitCovered == \A b \in defined : budget[b].limit <= allowance[b]

\* At the start nobody owes anything, and every allowance covers limit and spend.
LEMMA InitGate == Init => LimitCovered /\ GateInv
  <1> SUFFICES ASSUME Init PROVE LimitCovered /\ GateInv
    OBVIOUS
  <1>1. TypeOK
    BY InitType
  <1> SUFFICES ASSUME NEW b \in defined
               PROVE  budget[b].limit <= allowance[b] /\ budget[b].spend + Reserved(b) <= Ceiling(b)
    BY DEF LimitCovered, GateInv
  <1>2. b \in Budgets
    BY <1>1 DEF TypeOK
  <1>3. /\ allowance[b] = Higher(budget[b].limit, budget[b].spend + 1)
        /\ budget[b].limit \in Int /\ budget[b].spend \in Nat
    BY <1>2, InitAssumption DEF Init, Budget
  <1>4. /\ budget[b].limit <= allowance[b] /\ allowance[b] \in Int
        /\ budget[b].spend \in Int /\ budget[b].spend <= allowance[b] - 1
    BY <1>3 DEF Higher
  <1>5. Debtors(b) \in SUBSET Handlers
    BY DEF Debtors
  <1> QED BY <1>4, <1>5, RoomForAll DEF Reserved, Ceiling

\* No step raises a budget's limit above its allowance.
LEMMA LimitStep == TypeOK /\ LimitCovered /\ [Next]_vars => LimitCovered'
  <1> SUFFICES ASSUME TypeOK, LimitCovered, [Next]_vars, NEW b \in defined'
               PROVE  budget'[b].limit <= allowance'[b]
    BY DEF LimitCovered
  <1>1. CASE SetsBudget
    <2>1. PICK x \in Budgets, t \in Tenants, p \in Scopes, limit \in Limits, a \in Thresholds :
            SetBudget(x, t, p, limit, a)
      BY <1>1 DEF SetsBudget
    <2> DEFINE spend == IF x \in defined THEN budget[x].spend ELSE 0
    <2>2. spend \in Nat /\ limit \in Int /\ allowance[x] \in Int
      BY LimitsAssumption DEF TypeOK
    <2>3. CASE b = x
      BY <2>1, <2>2, <2>3 DEF SetBudget, Higher, TypeOK
    <2>4. CASE b # x
      BY <2>1, <2>4 DEF SetBudget, TypeOK, LimitCovered
    <2> QED BY <2>3, <2>4
  <1>2. CASE \E w \in Workers : ChargeBudget(w)
    <2>1. PICK w \in Workers : ChargeBudget(w)
      BY <1>2
    <2>2. job[w].cost \in Nat
      BY CostsAssumption DEF TypeOK, Job
    <2>3. defined' = defined /\ b \in Budgets
      BY <2>1 DEF ChargeBudget, TypeOK
    <2>4. budget'[b].limit = budget[b].limit /\ budget[b].limit \in Int
      BY <2>1, <2>3 DEF ChargeBudget, TypeOK, Budget
    <2>5. allowance'[b] >= allowance[b] /\ allowance[b] \in Int /\ allowance'[b] \in Int
      BY <2>1, <2>2, <2>3 DEF ChargeBudget, TypeOK
    <2> QED BY <2>3, <2>4, <2>5 DEF LimitCovered
  <1>3. CASE UNCHANGED <<budget, defined, allowance>>
    BY <1>3 DEF LimitCovered
  <1>4. CASE UNCHANGED vars
    BY <1>3, <1>4 DEF vars, tables, history
  <1>5. CASE \E w \in Workers : UnheardCharge(w)
    <2>1. PICK w \in Workers : UnheardCharge(w)
      BY <1>5
    <2>2. UNCHANGED <<defined, allowance>> /\ b \in Budgets
      BY <2>1 DEF UnheardCharge, TypeOK
    <2>3. budget'[b].limit = budget[b].limit
      <3>1. PICK x \in Budgets, j \in Job : UnheardTo(w, x, j)
        BY <2>1, UnheardChargeStep
      <3> QED BY <2>2, <3>1 DEF TypeOK, Budget, UnheardTo
    <2> QED BY <2>2, <2>3 DEF LimitCovered
  <1> QED
    BY <1>1, <1>2, <1>3, <1>4, <1>5
    DEF Next, Proxy, Record, Quiet, Arrive, Admit, Deny, NothingToRecord, Capture, Disconnect,
        StartTrack, InsertRow, RollHourly, RollDaily, RecordFails, UnheardRow, ListApplicable,
        ChargeFails, Reread, RereadFails, Notify, tables, history

\* Every step keeps the spend, with what is reserved, under the ceiling.
LEMMA GateStep == TypeOK /\ TypeOK' /\ LimitCovered /\ GateInv /\ [Next]_vars => GateInv'
  <1> SUFFICES ASSUME TypeOK, TypeOK', LimitCovered, [Next]_vars, DenyOnExceed, NEW b \in defined',
                      b \in defined => budget[b].spend + Reserved(b) <= Ceiling(b)
               PROVE  budget'[b].spend + Reserved(b)' <= Ceiling(b)'
    BY DEF GateInv
  <1> b \in Budgets
    BY DEF TypeOK
  <1>1. CASE SetsBudget
    BY <1>1, SetBudgetKeeps DEF SetsBudget
  <1>2. CASE \E w \in Workers : ChargeBudget(w) \/ UnheardCharge(w)
    BY <1>2, ChargeKeeps DEF ChargeBudget, UnheardCharge
  <1>3. CASE \E h \in Handlers : Admit(h)
    BY <1>3, AdmitKeeps DEF Admit, tables, LimitCovered
  <1>4. CASE /\ UNCHANGED <<budget, defined, allowance>>
             /\ Debtors(b)' \subseteq Debtors(b)
    BY <1>4, UnspentKeeps
  <1>5. CASE \E h \in Handlers : Proxy(h) /\ ~Admit(h)
    <2>1. UNCHANGED <<budget, defined, allowance>>
      BY <1>5 DEF Proxy, Arrive, Deny, NothingToRecord, Capture, Disconnect, tables, history
    <2>2. Debtors(b)' \subseteq Debtors(b)
      BY <1>5, ProxyDebtors DEF Proxy
    <2> QED BY <1>4, <2>1, <2>2
  <1>6. CASE \E w \in Trackers : StartTrack(w)
    <2>1. PICK w \in Trackers : StartTrack(w)
      BY <1>6
    <2>2. PICK t \in Tenants, p \in Scopes, c \in Costs : Become(w, NewJob("insert", t, p, c))
      BY <2>1 DEF StartTrack
    <2>3. UNCHANGED <<budget, defined, allowance>>
      BY <2>1 DEF StartTrack, tables, history
    <2>4. w \in Workers /\ w \notin Handlers
      BY WorkersAssumption DEF Workers
    <2>5. Debtors(b)' \subseteq Debtors(b)
      BY <2>2, <2>3, <2>4, NoNewDebtor
    <2> QED BY <1>4, <2>3, <2>5
  <1>7. CASE \E w \in Workers : Record(w) /\ ~ChargeBudget(w) /\ ~UnheardCharge(w)
    <2>1. PICK w \in Workers : Record(w) /\ ~ChargeBudget(w) /\ ~UnheardCharge(w)
      BY <1>7
    <2>2. UNCHANGED <<budget, defined, allowance>>
      BY <2>1 DEF Record, InsertRow, RollHourly, RollDaily, RecordFails, UnheardRow,
                  ListApplicable, ChargeFails, Reread, RereadFails, Notify, tables, history
    <2>3. Debtors(b)' \subseteq Debtors(b)
      BY <2>1, RecordDebtors
    <2> QED BY <1>4, <2>2, <2>3
  <1>8. CASE UNCHANGED vars
    <2>1. UNCHANGED <<budget, defined, allowance, job>>
      BY <1>8 DEF vars, tables, history
    <2>2. Debtors(b)' \subseteq Debtors(b)
      BY <2>1 DEF Debtors, Owes, MayCharge, Covers
    <2> QED BY <1>4, <2>1, <2>2
  <1> QED
    BY <1>1, <1>2, <1>3, <1>5, <1>6, <1>7, <1>8 DEF Next, Quiet

\* What is reserved is not negative, so the bound follows.
LEMMA GateImpliesBound == TypeOK /\ GateInv => OvershootBound
  <1> SUFFICES ASSUME TypeOK, DenyOnExceed, NEW b \in defined,
                      budget[b].spend + Reserved(b) <= Ceiling(b)
               PROVE  budget[b].spend <= allowance[b] - 1 + MaxCost * Cardinality(Handlers)
    BY DEF GateInv, OvershootBound
  <1> DEFINE r == MaxCost * Cardinality(Debtors(b))
             c == MaxCost * Cardinality(Handlers)
  <1>1. r \in Nat /\ c \in Nat
    BY HandlerCount, CostsAssumption DEF Debtors
  <1>2. budget[b].spend \in Nat /\ allowance[b] \in Int
    BY DEF TypeOK
  <1>3. budget[b].spend + r <= allowance[b] - 1 + c
    BY DEF Reserved, Ceiling
  <1> HIDE DEF r, c
  <1>4. budget[b].spend <= allowance[b] - 1 + c
    BY <1>1, <1>2, <1>3
  <1> QED BY <1>4 DEF c

\* With deny_on_exceed on, whatever the number of handlers, budgets, failures and CLI
\* commands, no budget's spend passes its allowance by more than MaxCost per handler.
THEOREM OvershootIsBounded == Spec => []OvershootBound
  <1>1. Init => TypeOK /\ LimitCovered /\ GateInv
    BY InitType, InitGate
  <1>2. TypeOK /\ LimitCovered /\ GateInv /\ [Next]_vars => (TypeOK /\ LimitCovered /\ GateInv)'
    BY NextType, LimitStep, GateStep
  <1>3. TypeOK /\ GateInv => OvershootBound
    BY GateImpliesBound
  <1> QED BY <1>1, <1>2, <1>3, PTL DEF Spec

-----------------------------------------------------------------------------
(* Alerts.  AlertNotMissed is inductive as it stands.                      *)

\* A worker that is not between an update and its alert may do anything to its own job
\* without making an alert missed.
LEMMA ElsewhereKeeps ==
  ASSUME TypeOK, AlertNotMissed, NEW w \in Workers, NEW j, Become(w, j),
         job[w].pc \notin {"reread", "notify"},
         UNCHANGED <<budget, defined, sent, unseen>>
  PROVE  AlertNotMissed'
  <1> SUFFICES ASSUME NEW b \in defined \ unseen, ~(LevelOf(budget[b]) \in sent[b] \cup {"none"})
               PROVE  \E x \in Workers : Checking(job[x], b)'
    BY DEF AlertNotMissed
  <1>1. PICK x \in Workers : Checking(job[x], b)
    BY DEF AlertNotMissed
  <1>2. x # w
    BY <1>1 DEF Checking
  <1>3. job'[x] = job[x]
    BY <1>2 DEF Become, TypeOK
  <1> QED BY <1>1, <1>3 DEF Checking

\* A worker at its alert or its re-read disturbs no other budget.
LEMMA OthersKept ==
  ASSUME TypeOK, AlertNotMissed, NEW w \in Workers, NEW j, Become(w, j),
         NEW b \in defined \ unseen, b # job[w].cur \/ job[w].pc = "update",
         budget'[b] = budget[b], sent'[b] = sent[b]
  PROVE  \/ LevelOf(budget'[b]) \in sent'[b] \cup {"none"}
         \/ \E x \in Workers : Checking(job[x], b)'
  <1> SUFFICES ASSUME ~(LevelOf(budget[b]) \in sent[b] \cup {"none"})
               PROVE  \E x \in Workers : Checking(job[x], b)'
    OBVIOUS
  <1>1. PICK x \in Workers : Checking(job[x], b)
    BY DEF AlertNotMissed
  <1>2. x # w
    BY <1>1 DEF Checking
  <1>3. job'[x] = job[x]
    BY <1>2 DEF Become, TypeOK
  <1> QED BY <1>1, <1>3 DEF Checking

\* NextBudget and Goto are changes of the worker's own job.
LEMMA NextBudgetBecomes ==
  ASSUME NEW w, NextBudget(w) PROVE \E j : Become(w, j)
  BY DEF NextBudget, Finish, Goto

\* A charge leaves its worker at the re-read of the budget it charged.
LEMMA ChargeAlerts ==
  ASSUME TypeOK, AlertNotMissed, NEW w \in Workers, ChargeBudget(w) PROVE AlertNotMissed'
  <1>1. PICK c \in Budgets :
          /\ budget' = [budget EXCEPT ![c].spend = @ + job[w].cost]
          /\ Become(w, [job[w] EXCEPT !.pc = "reread", !.cur = c, !.todo = @ \ {c}])
    BY DEF ChargeBudget
  <1> DEFINE j == [job[w] EXCEPT !.pc = "reread", !.cur = c, !.todo = @ \ {c}]
  <1>2. job[w] \in Job /\ job[w].pc = "update" /\ UNCHANGED <<defined, sent, unseen>>
    BY DEF TypeOK, ChargeBudget
  <1>3. j.pc = "reread" /\ j.cur = c
    BY <1>2 DEF Job
  <1>4. Become(w, j)
    BY <1>1
  <1> HIDE DEF j
  <1> SUFFICES ASSUME NEW b \in defined \ unseen
               PROVE  \/ LevelOf(budget'[b]) \in sent'[b] \cup {"none"}
                      \/ \E x \in Workers : Checking(job[x], b)'
    BY <1>2 DEF AlertNotMissed
  <1>5. CASE b = c
    <2>1. job'[w] = j
      BY <1>4 DEF Become, TypeOK
    <2>2. Checking(job[w], b)'
      BY <1>3, <1>5, <2>1 DEF Checking
    <2> QED BY <2>2
  <1>6. CASE b # c
    <2>1. budget'[b] = budget[b] /\ sent'[b] = sent[b]
      BY <1>1, <1>2, <1>6 DEF TypeOK
    <2> QED BY <1>2, <1>4, <2>1, OthersKept
  <1> QED BY <1>5, <1>6

\* A charge whose answer is lost marks the budget as not looked at.
LEMMA UnheardChargeAlerts ==
  ASSUME TypeOK, AlertNotMissed, NEW w \in Workers, UnheardCharge(w) PROVE AlertNotMissed'
  <1>1. PICK c \in Budgets, j \in Job : UnheardTo(w, c, j)
    BY UnheardChargeStep
  <1>2. /\ job[w].pc = "update" /\ Become(w, j) /\ unseen' = unseen \cup {c}
        /\ UNCHANGED <<defined, sent>> /\ \A b \in Budgets \ {c} : budget'[b] = budget[b]
    BY <1>1 DEF TypeOK, UnheardCharge, UnheardTo
  <1> SUFFICES ASSUME NEW b \in defined \ unseen'
               PROVE  \/ LevelOf(budget'[b]) \in sent'[b] \cup {"none"}
                      \/ \E x \in Workers : Checking(job[x], b)'
    BY <1>2 DEF AlertNotMissed
  <1>3. b \in defined \ unseen /\ budget'[b] = budget[b] /\ sent'[b] = sent[b]
    BY <1>2 DEF TypeOK
  <1> QED BY <1>2, <1>3, OthersKept

\* The re-read finds no alert to send, or hands the row's level to the notifiers.
LEMMA RereadAlerts ==
  ASSUME TypeOK, AlertNotMissed, NEW w \in Workers, Reread(w) PROVE AlertNotMissed'
  <1> DEFINE c == job[w].cur
             level == LevelOf(budget[c])
             j == [job[w] EXCEPT !.pc = "notify", !.level = level]
  <1>1. /\ job[w] \in Job /\ job[w].pc = "reread" /\ UNCHANGED <<budget, defined, sent>>
        /\ unseen' = unseen \ {c}
    BY DEF TypeOK, Reread, tables
  <1>2. \/ level = "none" /\ NextBudget(w)
        \/ level # "none" /\ Become(w, j)
    BY DEF Reread
  <1>3. j.pc = "notify" /\ j.cur = c /\ j.level = level
    BY <1>1 DEF Job
  <1> SUFFICES ASSUME NEW b \in defined \ unseen'
               PROVE  \/ LevelOf(budget'[b]) \in sent'[b] \cup {"none"}
                      \/ \E x \in Workers : Checking(job[x], b)'
    BY <1>1 DEF AlertNotMissed
  <1>4. PICK k : Become(w, k)
    BY <1>2, NextBudgetBecomes
  <1>5. CASE b = c /\ level = "none"
    BY <1>1, <1>5
  <1>6. CASE b = c /\ level # "none"
    <2> HIDE DEF j
    <2>1. job'[w] = j
      BY <1>2, <1>6 DEF Become, TypeOK
    <2>2. Checking(job[w], b)'
      BY <1>1, <1>3, <1>6, <2>1 DEF Checking
    <2> QED BY <2>2
  <1>7. CASE b # c
    BY <1>1, <1>4, <1>7, OthersKept
  <1> QED BY <1>5, <1>6, <1>7

\* A re-read that fails marks the budget as not looked at.
LEMMA RereadFailsAlerts ==
  ASSUME TypeOK, AlertNotMissed, NEW w \in Workers, RereadFails(w) PROVE AlertNotMissed'
  <1>1. UNCHANGED <<budget, defined, sent>> /\ unseen' = unseen \cup {job[w].cur}
    BY DEF RereadFails, tables
  <1>2. PICK k : Become(w, k)
    BY NextBudgetBecomes DEF RereadFails
  <1> SUFFICES ASSUME NEW b \in defined \ unseen'
               PROVE  \/ LevelOf(budget'[b]) \in sent'[b] \cup {"none"}
                      \/ \E x \in Workers : Checking(job[x], b)'
    BY <1>1 DEF AlertNotMissed
  <1> QED BY <1>1, <1>2, OthersKept

\* A worker that sends has sent its level; if the budget has moved on to another level
\* since, the alert was owed by somebody else, and still is.
LEMMA NotifyAlerts ==
  ASSUME TypeOK, AlertNotMissed, NEW w \in Workers, Notify(w) PROVE AlertNotMissed'
  <1> DEFINE c == job[w].cur
  <1>1. /\ job[w] \in Job /\ job[w].pc = "notify" /\ UNCHANGED <<budget, defined, unseen>>
        /\ sent' = [sent EXCEPT ![c] = @ \cup {job[w].level}]
    BY DEF TypeOK, Notify, tables
  <1>2. PICK k : Become(w, k)
    BY NextBudgetBecomes DEF Notify
  <1> SUFFICES ASSUME NEW b \in defined \ unseen, ~(LevelOf(budget[b]) \in sent'[b] \cup {"none"})
               PROVE  \E x \in Workers : Checking(job[x], b)'
    BY <1>1 DEF AlertNotMissed
  <1>3. sent[b] \subseteq sent'[b]
    BY <1>1 DEF TypeOK, Job
  <1>4. PICK x \in Workers : Checking(job[x], b)
    BY <1>3 DEF AlertNotMissed
  <1>5. x # w
    <2> SUFFICES ASSUME x = w PROVE FALSE
      OBVIOUS
    <2>1. b = c /\ job[w].level = LevelOf(budget[b])
      BY <1>1, <1>4 DEF Checking
    <2>2. job[w].level \in sent'[b]
      BY <1>1, <2>1 DEF TypeOK, Job
    <2> QED BY <2>1, <2>2
  <1>6. job'[x] = job[x]
    BY <1>2, <1>5 DEF Become, TypeOK
  <1> QED BY <1>1, <1>4, <1>6 DEF Checking

\* A budget that is set is looked at next by whoever charges it; the others are as before.
LEMMA SetBudgetAlerts ==
  ASSUME TypeOK, AlertNotMissed, SetsBudget PROVE AlertNotMissed'
  <1>1. PICK c \in Budgets, t \in Tenants, p \in Scopes, limit \in Limits, a \in Thresholds :
          SetBudget(c, t, p, limit, a)
    BY DEF SetsBudget
  <1>2. /\ UNCHANGED job /\ defined' = defined \cup {c} /\ unseen' = unseen \cup {c}
        /\ \A b \in Budgets \ {c} : budget'[b] = budget[b] /\ sent'[b] = sent[b]
    BY <1>1 DEF SetBudget, TypeOK
  <1> SUFFICES ASSUME NEW b \in defined' \ unseen'
               PROVE  \/ LevelOf(budget'[b]) \in sent'[b] \cup {"none"}
                      \/ \E x \in Workers : Checking(job[x], b)'
    BY DEF AlertNotMissed
  <1>3. b \in defined \ unseen /\ budget'[b] = budget[b] /\ sent'[b] = sent[b]
    BY <1>2 DEF TypeOK
  <1> QED BY <1>2, <1>3 DEF AlertNotMissed, Checking

\* Every step keeps AlertNotMissed.
LEMMA AlertStep == TypeOK /\ AlertNotMissed /\ [Next]_vars => AlertNotMissed'
  <1> SUFFICES ASSUME TypeOK, AlertNotMissed, [Next]_vars PROVE AlertNotMissed'
    OBVIOUS
  <1>1. CASE UNCHANGED <<budget, defined, sent, unseen, job>>
    BY <1>1 DEF AlertNotMissed, Checking
  <1>2. ASSUME NEW h \in Handlers, Proxy(h) PROVE AlertNotMissed'
    <2>1. CASE Disconnect(h)
      BY <1>1, <2>1 DEF Disconnect, tables, history
    <2>2. CASE Arrive(h) \/ Admit(h) \/ Deny(h) \/ NothingToRecord(h) \/ Capture(h)
      <3>1. PICK j : Become(h, j)
        BY <2>2 DEF Arrive, Admit, Deny, NothingToRecord, Capture, Goto, Finish
      <3>2. job[h].pc \notin {"reread", "notify"} /\ UNCHANGED <<budget, defined, sent, unseen>>
        BY <2>2 DEF Arrive, Admit, Deny, NothingToRecord, Capture, tables, history
      <3> QED BY <3>1, <3>2, ElsewhereKeeps DEF Workers
    <2> QED BY <1>2, <2>1, <2>2 DEF Proxy
  <1>3. ASSUME NEW w \in Trackers, StartTrack(w) PROVE AlertNotMissed'
    <2>1. PICK j : Become(w, j)
      BY <1>3 DEF StartTrack
    <2>2. job[w].pc \notin {"reread", "notify"} /\ UNCHANGED <<budget, defined, sent, unseen>>
      BY <1>3 DEF StartTrack, tables, history
    <2> QED BY <2>1, <2>2, ElsewhereKeeps DEF Workers
  <1>4. ASSUME NEW w \in Workers, Record(w) PROVE AlertNotMissed'
    <2>1. CASE \/ InsertRow(w) \/ RollHourly(w) \/ RollDaily(w) \/ RecordFails(w)
               \/ UnheardRow(w) \/ ListApplicable(w) \/ ChargeFails(w)
      <3>1. PICK j : Become(w, j)
        BY <2>1 DEF InsertRow, RollHourly, RollDaily, RecordFails, UnheardRow, ListApplicable,
                    ChargeFails, Goto, Finish
      <3>2. job[w].pc \notin {"reread", "notify"} /\ UNCHANGED <<budget, defined, sent, unseen>>
        BY <2>1 DEF InsertRow, RollHourly, RollDaily, RecordFails, UnheardRow, ListApplicable,
                    ChargeFails, tables, history
      <3> QED BY <3>1, <3>2, ElsewhereKeeps
    <2> QED
      BY <1>4, <2>1, ChargeAlerts, UnheardChargeAlerts, RereadAlerts, RereadFailsAlerts,
         NotifyAlerts DEF Record
  <1>5. CASE UNCHANGED vars
    BY <1>1, <1>5 DEF vars, tables, history
  <1> QED
    BY <1>2, <1>3, <1>4, <1>5, SetBudgetAlerts DEF Next, Quiet

\* However recorders of one budget interleave, and whichever of their statements fail, an
\* alert of the level a checked budget stands at has been attempted or is about to be.
THEOREM AlertsAreNotMissed == Spec => []AlertNotMissed
  <1>1. Init => AlertNotMissed
    <2> SUFFICES ASSUME Init PROVE AlertNotMissed
      OBVIOUS
    <2> QED BY InitAssumption DEF Init, AlertNotMissed
  <1>2. Spec => []TypeOK
    BY TypeCorrect
  <1>3. TypeOK /\ AlertNotMissed /\ [Next]_vars => AlertNotMissed'
    BY AlertStep
  <1> QED BY <1>1, <1>2, <1>3, PTL DEF Spec

-----------------------------------------------------------------------------
(* Money between two statements.  Both invariants that add up costs sum over *)
(* the workers at a certain point; as the sum over all workers of what each  *)
(* has there, it changes with one worker at a time.                          *)

\* What a job has between two statements of RecordUsage, for one series.
Carried(j, pc, s) == IF j.pc = pc /\ <<j.tenant, j.project>> = s THEN j.cost ELSE 0
Between(pc, s) == Total([w \in Workers |-> Carried(job[w], pc, s)], Workers)

LEMMA WorkersFinite == IsFiniteSet(Workers)
  BY WorkersAssumption, FS_Union DEF Workers

\* Between is the sum RollupsMatchUsage speaks of.
LEMMA BetweenIs ==
  ASSUME TypeOK, NEW pc, NEW s
  PROVE  Total(Cost, {w \in Workers : job[w].pc \in {pc} /\ SeriesOf(w) = s}) = Between(pc, s)
  <1> DEFINE f == [w \in Workers |-> Carried(job[w], pc, s)]
             T == {w \in Workers : job[w].pc \in {pc} /\ SeriesOf(w) = s}
  <1>1. \A w \in Workers : Cost[w] \in Int /\ f[w] = IF w \in T THEN Cost[w] ELSE 0
    BY CostsAssumption DEF TypeOK, Job, Cost, Carried, SeriesOf
  <1>2. T \in SUBSET Workers
    OBVIOUS
  <1> HIDE DEF f, T
  <1>3. Total(Cost, T) = Total(f, Workers)
    BY <1>1, <1>2, WorkersFinite, TotalWhere
  <1> QED BY <1>3 DEF f, T, Between

\* A worker that changes its job changes the sum by the difference it makes.
LEMMA BetweenChanges ==
  ASSUME TypeOK, TypeOK', NEW w \in Workers, NEW j, Become(w, j), NEW pc, NEW s
  PROVE  /\ Between(pc, s) \in Nat /\ Between(pc, s)' \in Nat
         /\ Carried(job[w], pc, s) \in Nat /\ Carried(j, pc, s) \in Nat
         /\ Between(pc, s)' = Between(pc, s) + Carried(j, pc, s) - Carried(job[w], pc, s)
  <1> DEFINE f == [x \in Workers |-> Carried(job[x], pc, s)]
             g == [x \in Workers |-> Carried(job'[x], pc, s)]
  <1>1. /\ \A x \in Workers : f[x] \in Nat /\ g[x] \in Nat
        /\ f[w] = Carried(job[w], pc, s)
    BY CostsAssumption DEF TypeOK, Job, Carried
  <1>2. job'[w] = j /\ \A x \in Workers \ {w} : job'[x] = job[x]
    BY DEF Become, TypeOK
  <1>3. /\ \A x \in Workers \ {w} : f[x] = g[x]
        /\ g[w] = Carried(j, pc, s)
    BY <1>2
  <1>4. Between(pc, s) = Total(f, Workers) /\ Between(pc, s)' = Total(g, Workers)
    BY DEF Between, Carried
  <1> HIDE DEF f, g
  <1>5. Total(g, Workers) = Total(f, Workers) + g[w] - f[w]
    BY <1>1, <1>3, WorkersFinite, TotalChanges
  <1>6. Total(f, Workers) \in Nat /\ Total(g, Workers) \in Nat
    BY <1>1, WorkersFinite, TotalNat
  <1> QED BY <1>1, <1>3, <1>4, <1>5, <1>6

\* RollupsMatchUsage for one series.
RollupsOf(s) ==
    /\ hourly[s] + Between("hourly", s) <= usage[s]
    /\ daily[s] + Between("daily", s) <= hourly[s]
    /\ ~faulted => /\ hourly[s] + Between("hourly", s) = usage[s]
                   /\ daily[s] + Between("daily", s) = hourly[s]

LEMMA RollupsBySeries ==
  TypeOK => (RollupsMatchUsage <=> \A s \in Series : RollupsOf(s))
  BY BetweenIs DEF RollupsMatchUsage, RollupsOf

\* In the next state as well.
LEMMA RollupsBySeriesNext ==
  TypeOK' => (RollupsMatchUsage' <=> \A s \in Series : RollupsOf(s)')
  <1>1. TypeOK => (RollupsMatchUsage <=> \A s \in Series : RollupsOf(s))
    BY RollupsBySeries
  <1>2. (TypeOK => (RollupsMatchUsage <=> \A s \in Series : RollupsOf(s)))'
    BY <1>1, PTL
  <1> QED BY <1>2

\* A worker that is between no two statements of RecordUsage, before or after, disturbs none.
LEMMA AsideRollups ==
  ASSUME TypeOK, TypeOK', NEW w \in Workers, NEW j, Become(w, j), NEW s, RollupsOf(s),
         job[w].pc \notin {"hourly", "daily"}, job'[w].pc \notin {"hourly", "daily"},
         UNCHANGED <<usage, hourly, daily>>, faulted => faulted'
  PROVE  RollupsOf(s)'
  <1>0. j = job'[w]
    BY DEF Become, TypeOK
  <1>1. \A pc \in {"hourly", "daily"} : Carried(job[w], pc, s) = 0 /\ Carried(j, pc, s) = 0
    BY <1>0 DEF Carried
  <1>2. \A pc \in {"hourly", "daily"} : Between(pc, s)' = Between(pc, s) /\ Between(pc, s) \in Nat
    BY <1>1, BetweenChanges
  <1> QED BY <1>2 DEF RollupsOf

\* Moving on takes what a job carries from one place to the next.
LEMMA GotoCarries ==
  ASSUME TypeOK, NEW w \in Workers, NEW to, NEW pc, NEW s
  PROVE  Carried([job[w] EXCEPT !.pc = to], pc, s) =
            IF to = pc /\ SeriesOf(w) = s THEN job[w].cost ELSE 0
  <1>1. job[w] \in Job
    BY DEF TypeOK
  <1> QED BY <1>1 DEF Carried, SeriesOf, Job

\* Each statement of RecordUsage hands the cost on to the next.
LEMMA RecordUsageRollups ==
  ASSUME TypeOK, TypeOK', NEW w \in Workers, NEW s \in Series, RollupsOf(s),
         InsertRow(w) \/ RollHourly(w) \/ RollDaily(w) \/ RecordFails(w) \/ UnheardRow(w)
  PROVE  RollupsOf(s)'
  <1> DEFINE c == IF SeriesOf(w) = s THEN job[w].cost ELSE 0
             h == Between("hourly", s)
             d == Between("daily", s)
  <1>1. /\ SeriesOf(w) \in Series /\ c \in Nat /\ job[w].cost \in Nat
        /\ usage \in [Series -> Nat] /\ hourly \in [Series -> Nat] /\ daily \in [Series -> Nat]
    BY CostsAssumption DEF TypeOK, Job, SeriesOf, Series
  <1>2. \A pc : Carried(job[w], pc, s) = IF job[w].pc = pc THEN c ELSE 0
    BY DEF Carried, SeriesOf
  <1>3. ASSUME NEW to, Goto(w, to)
        PROVE  /\ h \in Nat /\ d \in Nat /\ h' \in Nat /\ d' \in Nat
               /\ h' = h + (IF to = "hourly" THEN c ELSE 0) - (IF job[w].pc = "hourly" THEN c ELSE 0)
               /\ d' = d + (IF to = "daily" THEN c ELSE 0) - (IF job[w].pc = "daily" THEN c ELSE 0)
    <2> DEFINE j == [job[w] EXCEPT !.pc = to]
    <2>1. Become(w, j)
      BY <1>3 DEF Goto
    <2>2. \A pc : Carried(j, pc, s) = IF to = pc THEN c ELSE 0
      BY GotoCarries
    <2> HIDE DEF j, h, d
    <2>3. \A pc : /\ Between(pc, s) \in Nat /\ Between(pc, s)' \in Nat
                  /\ Between(pc, s)' = Between(pc, s) + Carried(j, pc, s) - Carried(job[w], pc, s)
      BY <2>1, BetweenChanges
    <2> QED BY <1>2, <2>2, <2>3 DEF h, d
  <1>4. CASE InsertRow(w)
    <2>1. usage'[s] = usage[s] + c
      BY <1>1, <1>4 DEF InsertRow
    <2>2. Goto(w, "hourly") /\ job[w].pc = "insert" /\ UNCHANGED <<hourly, daily, faulted>>
      BY <1>4 DEF InsertRow, history
    <2>3. h' = h + c /\ d' = d /\ h \in Nat /\ d \in Nat
      <3> HIDE DEF h, d, c
      <3> QED BY <1>1, <1>3, <2>2
    <2> HIDE DEF c
    <2> QED BY <1>1, <2>1, <2>2, <2>3 DEF RollupsOf
  <1>5. CASE RollHourly(w)
    <2>1. hourly'[s] = hourly[s] + c
      BY <1>1, <1>5 DEF RollHourly
    <2>2. Goto(w, "daily") /\ job[w].pc = "hourly" /\ UNCHANGED <<usage, daily, faulted>>
      BY <1>5 DEF RollHourly, history
    <2>3. h' = h - c /\ d' = d + c /\ h \in Nat /\ d \in Nat
      <3> HIDE DEF h, d, c
      <3> QED BY <1>1, <1>3, <2>2
    <2> HIDE DEF c
    <2> QED BY <1>1, <2>1, <2>2, <2>3 DEF RollupsOf
  <1>6. CASE RollDaily(w)
    <2>1. daily'[s] = daily[s] + c
      BY <1>1, <1>6 DEF RollDaily
    <2>2. Goto(w, "list") /\ job[w].pc = "daily" /\ UNCHANGED <<usage, hourly, faulted>>
      BY <1>6 DEF RollDaily, history
    <2>3. h' = h /\ d' = d - c /\ h \in Nat /\ d \in Nat
      <3> HIDE DEF h, d, c
      <3> QED BY <1>1, <1>3, <2>2
    <2> HIDE DEF c
    <2> QED BY <1>1, <2>1, <2>2, <2>3 DEF RollupsOf
  <1>7. CASE RecordFails(w) \/ UnheardRow(w)
    <2>1. Become(w, IdleJob) /\ faulted'
      BY <1>7 DEF RecordFails, UnheardRow, Finish
    <2>2. \A pc \in {"hourly", "daily"} : Carried(IdleJob, pc, s) = 0
      BY DEF Carried, IdleJob, NewJob
    <2>3. /\ h \in Nat /\ h' \in Nat /\ h' = h - (IF job[w].pc = "hourly" THEN c ELSE 0)
          /\ d \in Nat /\ d' \in Nat /\ d' = d - (IF job[w].pc = "daily" THEN c ELSE 0)
      <3> HIDE DEF h, d, c
      <3>1. \A pc \in {"hourly", "daily"} :
               /\ Between(pc, s) \in Nat /\ Between(pc, s)' \in Nat
               /\ Carried(job[w], pc, s) \in Nat
               /\ Between(pc, s)' = Between(pc, s) - Carried(job[w], pc, s)
        BY <2>1, <2>2, BetweenChanges
      <3> QED BY <1>2, <3>1 DEF h, d
    <2>4. \/ /\ usage'[s] - usage[s] \in {0, c} /\ daily'[s] = daily[s] /\ hourly'[s] = hourly[s]
          \/ /\ job[w].pc = "hourly" /\ hourly'[s] = hourly[s] + c
             /\ usage'[s] = usage[s] /\ daily'[s] = daily[s]
          \/ /\ job[w].pc = "daily" /\ daily'[s] = daily[s] + c
             /\ usage'[s] = usage[s] /\ hourly'[s] = hourly[s]
      BY <1>1, <1>7 DEF RecordFails, UnheardRow, tables
    <2>5. usage[s] \in Nat /\ usage'[s] \in Nat /\ hourly[s] \in Nat /\ daily[s] \in Nat
      BY DEF TypeOK
    <2> HIDE DEF c
    <2> QED BY <1>1, <2>1, <2>3, <2>4, <2>5 DEF RollupsOf
  <1> QED BY <1>4, <1>5, <1>6, <1>7

\* Every step keeps the rollups in line.
LEMMA RollupStep ==
  TypeOK /\ TypeOK' /\ RollupsMatchUsage /\ [Next]_vars => RollupsMatchUsage'
  <1> SUFFICES ASSUME TypeOK, TypeOK', [Next]_vars, NEW s \in Series, RollupsOf(s)
               PROVE  RollupsOf(s)'
    BY RollupsBySeries, RollupsBySeriesNext
  <1> DEFINE Off(x) == x.pc \notin {"hourly", "daily"}
             Same == UNCHANGED <<usage, hourly, daily>> /\ (faulted => faulted')
  <1>1. ASSUME NEW w \in Workers, \E j : Become(w, j), Off(job[w]), Off(job'[w]), Same
        PROVE  RollupsOf(s)'
    BY <1>1, AsideRollups
  <1>2. CASE UNCHANGED <<usage, hourly, daily, faulted, job>>
    BY <1>2 DEF RollupsOf, Between
  <1>3. ASSUME NEW w \in Workers, Off(job[w]),
               Finish(w) \/ NextBudget(w) \/ \E pc \in PCs \ {"hourly", "daily"} : Goto(w, pc)
        PROVE  Off(job'[w]) /\ \E j : Become(w, j)
    <2>1. CASE Finish(w)
      BY <2>1 DEF Finish, Become, IdleJob, NewJob, TypeOK
    <2>2. CASE \E pc \in PCs \ {"hourly", "daily"} : Goto(w, pc)
      <3>1. PICK pc \in PCs \ {"hourly", "daily"} : Become(w, [job[w] EXCEPT !.pc = pc])
        BY <2>2 DEF Goto
      <3>2. job'[w].pc = pc
        BY <3>1 DEF Become, TypeOK, Job
      <3> QED BY <3>1, <3>2
    <2> QED BY <1>3, <2>1, <2>2 DEF NextBudget, PCs
  <1>4. ASSUME NEW h \in Handlers, Proxy(h) PROVE RollupsOf(s)'
    <2> h \in Workers
      BY DEF Workers
    <2>1. CASE Disconnect(h)
      BY <1>2, <2>1 DEF Disconnect, tables, history
    <2>2. CASE Arrive(h)
      <3>1. PICK t, p : Become(h, NewJob("admission", t, p, 0))
        BY <2>2 DEF Arrive
      <3>2. Off(job[h]) /\ Off(job'[h])
        BY <2>2, <3>1 DEF Arrive, Become, NewJob, TypeOK
      <3> QED BY <1>1, <2>2, <3>1, <3>2 DEF Arrive, tables, history
    <2>3. CASE Admit(h) \/ Deny(h) \/ NothingToRecord(h)
      <3>1. Off(job[h]) /\ (Finish(h) \/ \E pc \in PCs \ {"hourly", "daily"} : Goto(h, pc))
        BY <2>3 DEF Admit, Deny, NothingToRecord, PCs
      <3> QED BY <1>1, <1>3, <2>3, <3>1 DEF Admit, Deny, NothingToRecord, tables, history
    <2>4. CASE Capture(h)
      <3>1. Off(job[h]) /\ Off(job'[h]) /\ \E j : Become(h, j)
        BY <2>4 DEF Capture, Become, TypeOK, Job
      <3> QED BY <1>1, <2>4, <3>1 DEF Capture, tables, history
    <2> QED BY <1>4, <2>1, <2>2, <2>3, <2>4 DEF Proxy
  <1>5. ASSUME NEW w \in Trackers, StartTrack(w) PROVE RollupsOf(s)'
    <2>1. PICK t, p, c : Become(w, NewJob("insert", t, p, c))
      BY <1>5 DEF StartTrack
    <2>2. w \in Workers /\ Off(job[w]) /\ Off(job'[w])
      BY <1>5, <2>1 DEF StartTrack, Become, NewJob, TypeOK, Workers
    <2> QED BY <1>1, <1>5, <2>1, <2>2 DEF StartTrack, tables, history
  <1>6. ASSUME NEW w \in Workers, Record(w) PROVE RollupsOf(s)'
    <2>1. CASE InsertRow(w) \/ RollHourly(w) \/ RollDaily(w) \/ RecordFails(w) \/ UnheardRow(w)
      BY <2>1, RecordUsageRollups
    <2>2. CASE \/ ListApplicable(w) \/ ChargeBudget(w) \/ ChargeFails(w) \/ UnheardCharge(w)
               \/ Reread(w) \/ RereadFails(w) \/ Notify(w)
      <3>1. Same
        <4>1. UNCHANGED <<usage, hourly, daily>>
          BY <2>2 DEF ListApplicable, ChargeBudget, ChargeFails, UnheardCharge, Reread, RereadFails,
                      Notify, tables
        <4>2. faulted' = faulted \/ faulted' = TRUE
          BY <2>2 DEF ListApplicable, ChargeBudget, ChargeFails, UnheardCharge, Reread, RereadFails,
                      Notify, history
        <4> QED BY <4>1, <4>2
      <3>2. Off(job[w])
        BY <2>2 DEF ListApplicable, ChargeBudget, ChargeFails, UnheardCharge, Reread, RereadFails,
                    Notify
      <3>3. Off(job'[w]) /\ \E j : Become(w, j)
        <4>1. CASE Finish(w) \/ NextBudget(w)
          BY <1>3, <3>2, <4>1
        <4>2. CASE ListApplicable(w)
          BY <4>1, <4>2 DEF ListApplicable, Become, TypeOK, Job
        <4>3. CASE ChargeBudget(w)
          <5>1. PICK b : Become(w, [job[w] EXCEPT !.pc = "reread", !.cur = b, !.todo = @ \ {b}])
            BY <4>3 DEF ChargeBudget
          <5>2. job'[w].pc = "reread"
            BY <5>1 DEF Become, TypeOK, Job
          <5> QED BY <5>1, <5>2
        <4>4. CASE ChargeFails(w)
          BY <4>1, <4>4, SMTT(30) DEF ChargeFails, Become, TypeOK, Job
        <4>5. CASE Reread(w) /\ ~NextBudget(w)
          <5>1. PICK level : Become(w, [job[w] EXCEPT !.pc = "notify", !.level = level])
            BY <4>5 DEF Reread
          <5>2. job'[w].pc = "notify"
            BY <5>1 DEF Become, TypeOK, Job
          <5> QED BY <5>1, <5>2
        <4>6. CASE UnheardCharge(w)
          <5>1. PICK b \in Budgets, j \in Job : UnheardTo(w, b, j)
            BY <4>6, UnheardChargeStep
          <5>2. Become(w, j) /\ j.pc \in {"idle", "update"}
            BY <5>1 DEF UnheardTo, IdleJob, NewJob
          <5>3. job'[w] = j
            BY <5>2 DEF Become, TypeOK
          <5> QED BY <5>2, <5>3
        <4> QED BY <2>2, <4>1, <4>2, <4>3, <4>4, <4>5, <4>6 DEF RereadFails, Notify
      <3> QED BY <1>1, <3>1, <3>2, <3>3
    <2> QED BY <1>6, <2>1, <2>2 DEF Record
  <1>7. CASE SetsBudget
    BY <1>2, <1>7 DEF SetsBudget, SetBudget
  <1>8. CASE UNCHANGED vars
    BY <1>2, <1>8 DEF vars, tables, history
  <1> QED BY <1>4, <1>5, <1>6, <1>7, <1>8 DEF Next, Quiet

LEMMA InitRollups == Init => RollupsMatchUsage
  <1> SUFFICES ASSUME Init PROVE RollupsMatchUsage
    OBVIOUS
  <1>1. \A pc \in {"hourly", "daily"}, s \in Series : Between(pc, s) = 0
    <2> SUFFICES ASSUME NEW pc \in {"hourly", "daily"}, NEW s \in Series PROVE Between(pc, s) = 0
      OBVIOUS
    <2> DEFINE f == [w \in Workers |-> Carried(job[w], pc, s)]
    <2>1. \A w \in Workers : f[w] = 0
      BY DEF Init, Carried, IdleJob, NewJob
    <2> HIDE DEF f
    <2> QED BY <2>1, WorkersFinite, TotalOfZeros DEF Between, f
  <1> QED BY <1>1, InitType, RollupsBySeries DEF Init, RollupsOf

\* However recorders interleave and fail between their statements, an aggregate never shows
\* usage that is not stored, and until something fails the gap is what is between two of them.
THEOREM RollupsFollowUsage == Spec => []RollupsMatchUsage
  <1>1. Spec => []TypeOK
    BY TypeCorrect
  <1> QED BY <1>1, InitRollups, RollupStep, PTL DEF Spec

-----------------------------------------------------------------------------
(* Spend against usage, for a budget that kept its scope. *)

\* What a job that is stored still owes a budget, and what all of them do.
Owing(j, b) == IF j.pc \notin {"upstream", "insert"} /\ MayCharge(j, b) THEN j.cost ELSE 0
Owed(b) == Total([w \in Workers |-> Owing(job[w], b)], Workers)

\* The series in a budget's scope, and the usage recorded there.
InScope(b) == {s \in Series : Covers(budget[b], s[1], s[2])}
Recorded(b) == Total(usage, InScope(b))

ChargesOf(b) ==
    /\ budget[b].spend - InitBudget[b].spend + Owed(b) <= Recorded(b)
    /\ ~faulted => budget[b].spend - InitBudget[b].spend + Owed(b) = Recorded(b)

LEMMA SeriesFinite == IsFiniteSet(Series)
  <1>1. IsFiniteSet(Scopes)
    BY SeriesAssumption, FS_Singleton, FS_Union DEF Scopes
  <1> QED BY <1>1, SeriesAssumption, FS_Product DEF Series

\* Owed is the sum ChargesMatchUsage speaks of.
LEMMA OwedIs ==
  ASSUME TypeOK, NEW b
  PROVE  Total(Cost, {w \in Workers : job[w].pc \notin {"upstream", "insert"} /\ Owes(w, b)}) = Owed(b)
  <1> DEFINE f == [w \in Workers |-> Owing(job[w], b)]
             T == {w \in Workers : job[w].pc \notin {"upstream", "insert"} /\ Owes(w, b)}
  <1>1. \A w \in Workers : Cost[w] \in Int /\ f[w] = IF w \in T THEN Cost[w] ELSE 0
    BY CostsAssumption DEF TypeOK, Job, Cost, Owing, Owes
  <1>2. T \in SUBSET Workers
    OBVIOUS
  <1> HIDE DEF f, T
  <1>3. Total(Cost, T) = Total(f, Workers)
    BY <1>1, <1>2, WorkersFinite, TotalWhere
  <1> QED BY <1>3 DEF f, T, Owed

LEMMA ChargesByBudget ==
  TypeOK => (ChargesMatchUsage <=> \A b \in InitDefined \ moved : ChargesOf(b))
  BY OwedIs DEF ChargesMatchUsage, ChargesOf, Recorded, InScope

\* In the next state as well.
LEMMA ChargesByBudgetNext ==
  TypeOK' => (ChargesMatchUsage' <=> \A b \in InitDefined \ moved' : ChargesOf(b)')
  <1>1. TypeOK => (ChargesMatchUsage <=> \A b \in InitDefined \ moved : ChargesOf(b))
    BY ChargesByBudget
  <1>2. (TypeOK => (ChargesMatchUsage <=> \A b \in InitDefined \ moved : ChargesOf(b)))'
    BY <1>1, PTL
  <1> QED BY <1>2

\* A worker that changes its job changes what is owed by the difference it makes.
LEMMA OwedChanges ==
  ASSUME TypeOK, TypeOK', NEW w \in Workers, NEW j, Become(w, j), NEW b \in Budgets,
         budget'[b].tenant = budget[b].tenant, budget'[b].project = budget[b].project
  PROVE  /\ Owed(b) \in Nat /\ Owed(b)' \in Nat
         /\ Owing(job[w], b) \in Nat /\ Owing(j, b) \in Nat
         /\ Owed(b)' = Owed(b) + Owing(j, b) - Owing(job[w], b)
  <1> DEFINE f == [x \in Workers |-> Owing(job[x], b)]
             g == [x \in Workers |-> Owing(job'[x], b)]
  <1>1. /\ \A x \in Workers : f[x] \in Nat /\ g[x] \in Nat
        /\ f[w] = Owing(job[w], b)
    BY CostsAssumption DEF TypeOK, Job, Owing
  <1>2. job'[w] = j /\ \A x \in Workers \ {w} : job'[x] = job[x]
    BY DEF Become, TypeOK
  <1>3. /\ \A x \in Workers \ {w} : f[x] = g[x]
        /\ g[w] = Owing(j, b)
    BY <1>2
  <1>4. Owed(b) = Total(f, Workers)
    BY DEF Owed
  <1>5. Owed(b)' = Total(g, Workers)
    BY DEF Owed, Owing, MayCharge, Covers
  <1> HIDE DEF f, g
  <1>6. Total(g, Workers) = Total(f, Workers) + g[w] - f[w]
    BY <1>1, <1>3, WorkersFinite, TotalChanges
  <1>7. Total(f, Workers) \in Nat /\ Total(g, Workers) \in Nat
    BY <1>1, WorkersFinite, TotalNat
  <1> QED BY <1>1, <1>3, <1>4, <1>5, <1>6, <1>7

\* What is recorded in a scope is a natural number.
LEMMA RecordedType == ASSUME TypeOK, NEW b PROVE Recorded(b) \in Nat
  <1>1. \A s \in Series : usage[s] \in Nat
    BY DEF TypeOK
  <1> QED BY <1>1, SeriesFinite, TotalNat DEF Recorded, InScope

\* What is settled or written off between two states keeps the account of a budget.
LEMMA SettledKeeps ==
  ASSUME TypeOK, TypeOK', NEW w \in Workers, \E j : Become(w, j), NEW b \in Budgets, ChargesOf(b),
         UNCHANGED usage,
         budget'[b].tenant = budget[b].tenant, budget'[b].project = budget[b].project,
         NEW paid \in Nat, budget'[b].spend = budget[b].spend + paid,
         \/ paid + Owing(job'[w], b) = Owing(job[w], b) /\ (faulted => faulted')
         \/ paid + Owing(job'[w], b) <= Owing(job[w], b) /\ faulted'
  PROVE  ChargesOf(b)'
  <1> DEFINE o == Owing(job[w], b)
             p == Owing(job'[w], b)
  <1>1. PICK j : Become(w, j)
    OBVIOUS
  <1>2. j = job'[w]
    BY <1>1 DEF Become, TypeOK
  <1>3. /\ Owed(b) \in Nat /\ Owed(b)' \in Nat /\ o \in Nat /\ p \in Nat
        /\ Owed(b)' = Owed(b) + p - o
    BY <1>1, <1>2, OwedChanges
  <1>4. Recorded(b)' = Recorded(b)
    BY DEF Recorded, InScope, Covers
  <1>5. Recorded(b) \in Nat
    BY RecordedType
  <1>6. budget[b].spend \in Nat /\ budget'[b].spend \in Nat /\ InitBudget[b].spend \in Nat
    BY InitAssumption DEF TypeOK
  <1> HIDE DEF o, p
  <1>7. \/ paid + p = o /\ (faulted => faulted')
        \/ paid + p <= o /\ faulted'
    BY DEF o, p
  <1> QED BY <1>3, <1>4, <1>5, <1>6, <1>7 DEF ChargesOf

\* Whose budgets and usage stay as they are keeps every account.
LEMMA UntouchedKeeps ==
  ASSUME NEW b, ChargesOf(b), UNCHANGED <<usage, job, faulted>>,
         budget'[b].tenant = budget[b].tenant, budget'[b].project = budget[b].project,
         budget'[b].spend = budget[b].spend
  PROVE  ChargesOf(b)'
  <1>1. Owed(b)' = Owed(b)
    BY DEF Owed, Owing, MayCharge, Covers
  <1>2. Recorded(b)' = Recorded(b)
    BY DEF Recorded, InScope, Covers
  <1> QED BY <1>1, <1>2 DEF ChargesOf

\* A row adds its cost to what is recorded in every scope its series is in.
LEMMA RecordedGrows ==
  ASSUME TypeOK, TypeOK', NEW w \in Workers, NEW b \in Budgets, UNCHANGED budget,
         usage' = [usage EXCEPT ![SeriesOf(w)] = @ + job[w].cost]
  PROVE  /\ Recorded(b) \in Nat
         /\ Recorded(b)' = Recorded(b) + (IF SeriesOf(w) \in InScope(b) THEN job[w].cost ELSE 0)
  <1>1. SeriesOf(w) \in Series /\ job[w].cost \in Nat
    BY CostsAssumption DEF TypeOK, Job, SeriesOf, Series
  <1>2. InScope(b)' = InScope(b)
    BY DEF InScope
  <1> DEFINE S == InScope(b)
             y == SeriesOf(w)
             added == usage'
  <1>3. S \subseteq Series /\ IsFiniteSet(S)
    BY SeriesFinite, FS_Subset DEF InScope
  <1>4. usage \in [Series -> Nat] /\ added \in [Series -> Nat]
    BY DEF TypeOK
  <1>5. Recorded(b) = Total(usage, S) /\ Recorded(b)' = Total(added, S) /\ Recorded(b) \in Nat
    BY <1>2, RecordedType DEF Recorded
  <1>6. /\ \A s \in S : usage[s] \in Int /\ added[s] \in Int
        /\ \A s \in S \ {y} : usage[s] = added[s]
        /\ added[y] = usage[y] + job[w].cost /\ usage[y] \in Nat
    <2> HIDE DEF S
    <2> QED BY <1>1, <1>3, <1>4
  <1> HIDE DEF S, y, added
  <1>7. CASE y \in S
    <2>1. Total(added, S) = Total(usage, S) + added[y] - usage[y]
      BY <1>3, <1>6, <1>7, TotalChanges
    <2> QED BY <1>1, <1>5, <1>6, <1>7, <2>1 DEF S, y
  <1>8. CASE y \notin S
    <2>1. Total(usage, S) = Total(added, S)
      BY <1>3, <1>6, <1>8, TotalSame
    <2> QED BY <1>1, <1>5, <1>8, <2>1 DEF S, y
  <1> QED BY <1>7, <1>8

\* A row that is stored owes what it adds to the usage in a budget's scope.
LEMMA InsertCharges ==
  ASSUME TypeOK, TypeOK', NEW w \in Workers, InsertRow(w), NEW b \in Budgets, ChargesOf(b)
  PROVE  ChargesOf(b)'
  <1> DEFINE j == [job[w] EXCEPT !.pc = "hourly"]
             c == IF SeriesOf(w) \in InScope(b) THEN job[w].cost ELSE 0
  <1>1. job[w] \in Job /\ SeriesOf(w) \in Series /\ job[w].cost \in Nat /\ c \in Nat
    BY CostsAssumption DEF TypeOK, Job, SeriesOf, Series
  <1>2. Become(w, j) /\ UNCHANGED <<budget, faulted>> /\ job[w].pc = "insert"
    BY DEF InsertRow, Goto, history
  <1>3. Owing(job[w], b) = 0
    BY <1>2 DEF Owing
  <1>4. Owing(j, b) = c
    BY <1>1 DEF Owing, MayCharge, Unlisted, Charging, SeriesOf, InScope, Job, Covers
  <1> HIDE DEF j
  <1>5. Owed(b)' = Owed(b) + c /\ Owed(b) \in Nat /\ Owed(b)' \in Nat
    <2>1. /\ Owed(b)' = Owed(b) + Owing(j, b) - Owing(job[w], b)
          /\ Owed(b) \in Nat /\ Owed(b)' \in Nat
      BY <1>2, OwedChanges
    <2> QED BY <1>1, <1>3, <1>4, <2>1
  <1>6. Recorded(b)' = Recorded(b) + c /\ Recorded(b) \in Nat
    <2>1. usage' = [usage EXCEPT ![SeriesOf(w)] = @ + job[w].cost] /\ UNCHANGED budget
      BY <1>2 DEF InsertRow
    <2> QED BY <2>1, RecordedGrows
  <1>7. budget[b].spend \in Nat /\ InitBudget[b].spend \in Nat
    BY InitAssumption DEF TypeOK
  <1> HIDE DEF c
  <1> QED BY <1>1, <1>2, <1>5, <1>6, <1>7 DEF ChargesOf

\* A row that is stored without its caller knowing owes nothing: it is recorded only.
LEMMA UnheardRowCharges ==
  ASSUME TypeOK, TypeOK', NEW w \in Workers, UnheardRow(w), job[w].pc = "insert",
         NEW b \in Budgets, ChargesOf(b)
  PROVE  ChargesOf(b)'
  <1>1. Become(w, IdleJob) /\ UNCHANGED budget /\ faulted' = TRUE
    BY DEF UnheardRow, Finish
  <1>2. usage' = [usage EXCEPT ![SeriesOf(w)] = @ + job[w].cost] /\ job[w].cost \in Nat
    BY CostsAssumption DEF UnheardRow, TypeOK, Job
  <1>3. Owing(job[w], b) = 0 /\ Owing(IdleJob, b) = 0
    BY DEF Owing, MayCharge, IdleJob, NewJob, Unlisted, Charging
  <1>4. Owed(b)' = Owed(b) /\ Owed(b) \in Nat
    BY <1>1, <1>3, OwedChanges
  <1>5. Recorded(b) \in Nat /\ Recorded(b)' \in Nat /\ Recorded(b) <= Recorded(b)'
    <2> DEFINE c == IF SeriesOf(w) \in InScope(b) THEN job[w].cost ELSE 0
    <2>1. Recorded(b) \in Nat /\ Recorded(b)' = Recorded(b) + c
      BY <1>1, <1>2, RecordedGrows
    <2>2. c \in Nat
      BY <1>2
    <2> HIDE DEF c
    <2> QED BY <2>1, <2>2
  <1>6. budget[b].spend \in Nat /\ InitBudget[b].spend \in Nat
    BY InitAssumption DEF TypeOK
  <1> QED BY <1>1, <1>4, <1>5, <1>6 DEF ChargesOf

\* Going on to the next budget, or out of the loop, leaves as much to be charged.
LEMMA NextBudgetOwing ==
  ASSUME TypeOK, NEW w \in Workers, NextBudget(w), job[w].pc \in Charging, NEW b \in Budgets
  PROVE  Owing(job'[w], b) = Owing(job[w], b) /\ \E j : Become(w, j)
  <1>1. CASE job[w].todo = {}
    <2>1. job'[w] = IdleJob /\ Become(w, IdleJob)
      BY <1>1 DEF NextBudget, Finish, Become, TypeOK
    <2>2. Owing(IdleJob, b) = 0
      BY DEF Owing, MayCharge, IdleJob, NewJob, Unlisted, Charging
    <2>3. Owing(job[w], b) = 0
      BY <1>1 DEF Owing, MayCharge, Unlisted, Charging
    <2> QED BY <2>1, <2>2, <2>3
  <1>2. CASE job[w].todo # {}
    <2> DEFINE j == [job[w] EXCEPT !.pc = "update"]
    <2>1. job'[w] = j /\ Become(w, j)
      BY <1>2 DEF NextBudget, Goto, Become, TypeOK
    <2>2. job[w] \in Job
      BY DEF TypeOK
    <2>3. j.pc = "update" /\ j.todo = job[w].todo /\ j.cost = job[w].cost
      BY <2>2 DEF Job
    <2> HIDE DEF j
    <2>4. Owing(j, b) = Owing(job[w], b)
      BY <2>3 DEF Owing, MayCharge, Unlisted, Charging
    <2> QED BY <2>1, <2>4
  <1> QED BY <1>1, <1>2

\* A request that ends owes nothing.
LEMMA FinishOwing ==
  ASSUME TypeOK, NEW w \in Workers, Finish(w), NEW b \in Budgets
  PROVE  Owing(job'[w], b) = 0 /\ \E j : Become(w, j)
  BY DEF Finish, Become, TypeOK, Owing, MayCharge, IdleJob, NewJob, Unlisted, Charging

\* The steps before the row is stored, and the two rollups, change nothing that is owed.
LEMMA BeforeListOwing ==
  ASSUME TypeOK, NEW w \in Workers, NEW b \in Budgets,
         \/ w \in Handlers /\ (Arrive(w) \/ Admit(w) \/ Deny(w) \/ NothingToRecord(w) \/ Capture(w))
         \/ w \in Trackers /\ StartTrack(w)
         \/ RollHourly(w) \/ RollDaily(w)
  PROVE  Owing(job'[w], b) = Owing(job[w], b) /\ \E j : Become(w, j)
  <1> job[w] \in Job
    BY DEF TypeOK
  <1>1. CASE Arrive(w) \/ StartTrack(w)
    <2>1. PICK pc \in {"admission", "insert"} : \E t, p, c : Become(w, NewJob(pc, t, p, c))
      BY <1>1 DEF Arrive, StartTrack
    <2>2. job'[w].pc \in {"admission", "insert"} /\ job[w].pc = "idle"
      BY <1>1, <2>1 DEF Arrive, StartTrack, Become, NewJob, TypeOK
    <2> QED BY <2>1, <2>2 DEF Owing, MayCharge, Unlisted, Charging
  <1>2. CASE Deny(w) \/ NothingToRecord(w)
    <2>1. Finish(w) /\ job[w].pc \in {"admission", "upstream"}
      BY <1>2 DEF Deny, NothingToRecord
    <2>2. Owing(job[w], b) = 0
      BY <2>1 DEF Owing, MayCharge, Unlisted, Charging
    <2> QED BY <2>1, <2>2, FinishOwing
  <1>3. CASE Admit(w) \/ Capture(w)
    <2>1. \E j : Become(w, j)
      BY <1>3 DEF Admit, Capture, Goto
    <2>2. job[w].pc \in {"admission", "upstream"} /\ job'[w].pc \in {"upstream", "insert"}
      BY <1>3 DEF Admit, Capture, Goto, Become, TypeOK, Job
    <2> QED BY <2>1, <2>2 DEF Owing, MayCharge, Unlisted, Charging
  <1>4. CASE RollHourly(w) \/ RollDaily(w)
    <2>1. PICK pc \in {"daily", "list"} : Become(w, [job[w] EXCEPT !.pc = pc])
      BY <1>4 DEF RollHourly, RollDaily, Goto
    <2>2. job'[w] = [job[w] EXCEPT !.pc = pc] /\ job[w].pc \in {"hourly", "daily"}
      BY <1>4, <2>1 DEF RollHourly, RollDaily, Become, TypeOK
    <2>3. /\ job'[w].pc = pc /\ job'[w].cost = job[w].cost
          /\ job'[w].tenant = job[w].tenant /\ job'[w].project = job[w].project
      BY <2>2 DEF Job
    <2> QED BY <2>1, <2>2, <2>3 DEF Owing, MayCharge, Unlisted, Charging
  <1> QED BY <1>1, <1>2, <1>3, <1>4

\* The list has a budget for which the request is stored, if and only if it is in scope.
LEMMA ListOwing ==
  ASSUME TypeOK, NEW w \in Workers, ListApplicable(w), NEW b \in defined
  PROVE  Owing(job'[w], b) = Owing(job[w], b) /\ \E j : Become(w, j)
  <1>1. job[w] \in Job /\ job[w].pc = "list" /\ b \in Budgets
    BY DEF TypeOK, ListApplicable
  <1>2. Owing(job[w], b) = IF b \in Applicable(w) THEN job[w].cost ELSE 0
    BY <1>1 DEF Owing, MayCharge, Unlisted, Charging, Applicable
  <1>3. CASE Applicable(w) = {}
    BY <1>1, <1>2, <1>3, FinishOwing DEF ListApplicable
  <1>4. CASE Applicable(w) # {}
    <2>1. Become(w, [job[w] EXCEPT !.pc = "update", !.todo = Applicable(w)])
      BY <1>4 DEF ListApplicable
    <2>2. job'[w].pc = "update" /\ job'[w].todo = Applicable(w) /\ job'[w].cost = job[w].cost
      BY <1>1, <2>1 DEF Become, TypeOK, Job
    <2>3. Owing(job'[w], b) = IF b \in Applicable(w) THEN job[w].cost ELSE 0
      BY <2>2 DEF Owing, MayCharge, Unlisted, Charging
    <2> QED BY <1>2, <2>1, <2>3
  <1> QED BY <1>3, <1>4

\* The update moves what is owed into the spend, whether its answer is heard or not.
LEMMA ChargeCharges ==
  ASSUME TypeOK, TypeOK', NEW w \in Workers, ChargeBudget(w) \/ UnheardCharge(w),
         NEW b \in Budgets, ChargesOf(b)
  PROVE  ChargesOf(b)'
  <1>2. job[w] \in Job /\ job[w].pc = "update" /\ UNCHANGED usage /\ job[w].cost \in Nat
    <2>1. job[w].pc = "update" /\ UNCHANGED usage
      BY DEF ChargeBudget, UnheardCharge
    <2> QED BY <2>1, CostsAssumption DEF TypeOK, Job
  <1>3. faulted => faulted'
    BY DEF ChargeBudget, UnheardCharge
  <1>1. PICK c \in Budgets :
          /\ c \in job[w].todo /\ \E j : Become(w, j)
          /\ budget' = [budget EXCEPT ![c].spend = @ + job[w].cost]
          /\ Owing(job'[w], b) = (IF b \in job[w].todo \ {c} THEN job[w].cost ELSE 0)
    <2>1. CASE ChargeBudget(w)
      <3>1. PICK c \in Budgets :
              /\ IsNext(w, c)
              /\ budget' = [budget EXCEPT ![c].spend = @ + job[w].cost]
              /\ Become(w, [job[w] EXCEPT !.pc = "reread", !.cur = c, !.todo = @ \ {c}])
        BY <2>1 DEF ChargeBudget
      <3>2. /\ job'[w].pc = "reread" /\ job'[w].todo = job[w].todo \ {c}
            /\ job'[w].cost = job[w].cost
        BY <1>2, <3>1 DEF Become, TypeOK, Job
      <3>3. Owing(job'[w], b) = (IF b \in job[w].todo \ {c} THEN job[w].cost ELSE 0)
        BY <3>2 DEF Owing, MayCharge, Unlisted, Charging
      <3> QED BY <3>1, <3>3 DEF IsNext
    <2>2. CASE UnheardCharge(w)
      <3>1. PICK c \in Budgets, j \in Job : UnheardTo(w, c, j)
        BY <2>2, UnheardChargeStep
      <3>2. /\ c \in job[w].todo /\ Become(w, j) /\ job'[w] = j
            /\ budget' = [budget EXCEPT ![c].spend = @ + job[w].cost]
        BY <3>1 DEF UnheardTo, Become, TypeOK
      <3>3. Owing(j, b) = (IF b \in job[w].todo \ {c} THEN job[w].cost ELSE 0)
        BY <3>1 DEF UnheardTo, Owing, MayCharge, IdleJob, NewJob, Unlisted, Charging
      <3> QED BY <3>2, <3>3
    <2> QED BY <2>1, <2>2
  <1>5. budget \in [Budgets -> Budget]
    BY DEF TypeOK
  <1>6. budget'[b].tenant = budget[b].tenant /\ budget'[b].project = budget[b].project
    BY <1>1, <1>5 DEF Budget
  <1>7. Owing(job[w], b) = (IF b \in job[w].todo THEN job[w].cost ELSE 0)
    BY <1>2 DEF Owing, MayCharge, Unlisted, Charging
  <1>9. CASE b = c
    <2>1. budget'[b].spend = budget[b].spend + job[w].cost
      BY <1>1, <1>5, <1>9 DEF Budget
    <2>2. job[w].cost + Owing(job'[w], b) = Owing(job[w], b)
      BY <1>1, <1>2, <1>7, <1>9
    <2> QED BY <1>1, <1>2, <1>3, <1>6, <2>1, <2>2, SettledKeeps
  <1>10. CASE b # c
    <2>1. budget'[b].spend = budget[b].spend + 0
      BY <1>1, <1>5, <1>10 DEF TypeOK
    <2>2. 0 + Owing(job'[w], b) = Owing(job[w], b)
      BY <1>1, <1>2, <1>7, <1>10
    <2> QED BY <1>1, <1>2, <1>3, <1>6, <2>1, <2>2, SettledKeeps
  <1> QED BY <1>9, <1>10

\* A step that fails writes off what its request still owed, or one budget's part of it.
LEMMA FailureCharges ==
  ASSUME TypeOK, TypeOK', NEW w \in Workers, NEW b \in Budgets, ChargesOf(b),
         RecordFails(w) \/ ChargeFails(w) \/ (UnheardRow(w) /\ UNCHANGED usage)
  PROVE  ChargesOf(b)'
  <1>1. /\ job[w] \in Job /\ UNCHANGED <<usage, budget>> /\ faulted'
        /\ budget[b].spend \in Nat /\ job[w].cost \in Nat
    BY CostsAssumption DEF TypeOK, RecordFails, ChargeFails, UnheardRow, tables, Job
  <1>2. Owing(job[w], b) \in Nat
    BY <1>1 DEF Owing
  <1>3. Owing(job'[w], b) <= Owing(job[w], b) /\ \E j : Become(w, j)
    <2>1. CASE Finish(w)
      BY <1>2, <2>1, FinishOwing
    <2>2. CASE ChargeFails(w) /\ ~Finish(w)
      <3>1. PICK c \in Budgets : Become(w, [job[w] EXCEPT !.todo = @ \ {c}])
        BY <2>2 DEF ChargeFails
      <3>2. /\ job'[w].pc = job[w].pc /\ job[w].pc = "update"
            /\ job'[w].todo \subseteq job[w].todo /\ job'[w].cost = job[w].cost
        BY <1>1, <2>2, <3>1 DEF ChargeFails, Become, TypeOK, Job
      <3>3. Owing(job'[w], b) = Owing(job[w], b) \/ Owing(job'[w], b) = 0
        BY <3>2 DEF Owing, MayCharge, Unlisted, Charging
      <3> QED BY <1>2, <3>1, <3>3
    <2> QED BY <2>1, <2>2 DEF RecordFails, UnheardRow
  <1>4. 0 + Owing(job'[w], b) <= Owing(job[w], b)
    <2>1. Owing(job'[w], b) \in Nat
      BY CostsAssumption DEF TypeOK, Job, Owing
    <2> QED BY <1>2, <1>3, <2>1
  <1>5. budget'[b].spend = budget[b].spend + 0
    BY <1>1
  <1> QED BY <1>1, <1>3, <1>4, <1>5, SettledKeeps

\* A step that only moves a request along keeps every account.
LEMMA MovingCharges ==
  ASSUME TypeOK, TypeOK', NEW w \in Workers, NEW b \in Budgets, ChargesOf(b),
         Owing(job'[w], b) = Owing(job[w], b), \E j : Become(w, j),
         UNCHANGED <<usage, budget, faulted>>
  PROVE  ChargesOf(b)'
  <1>1. Owing(job'[w], b) \in Nat /\ Owing(job[w], b) \in Nat
    BY CostsAssumption DEF TypeOK, Job, Owing
  <1>2. 0 + Owing(job'[w], b) = Owing(job[w], b) /\ (faulted => faulted')
    BY <1>1
  <1>3. budget'[b].spend = budget[b].spend + 0
    BY DEF TypeOK
  <1> QED BY <1>2, <1>3, SettledKeeps

\* Every step keeps the accounts of the budgets that keep their scope.
LEMMA ChargeStep ==
  /\ TypeOK /\ TypeOK' /\ InitDefined \subseteq defined /\ ChargesMatchUsage /\ [Next]_vars
  => InitDefined \subseteq defined' /\ ChargesMatchUsage'
  <1> SUFFICES ASSUME TypeOK, TypeOK', InitDefined \subseteq defined, ChargesMatchUsage, [Next]_vars
               PROVE  InitDefined \subseteq defined' /\ ChargesMatchUsage'
    OBVIOUS
  <1>1. defined \subseteq defined' /\ moved \subseteq moved'
    BY ZenonT(40) DEF Next, Proxy, Record, Quiet, Arrive, Admit, Deny, NothingToRecord, Capture, Disconnect,
        StartTrack, InsertRow, RollHourly, RollDaily, RecordFails, UnheardRow, ListApplicable,
        ChargeBudget, ChargeFails, UnheardCharge, Reread, RereadFails, Notify, SetsBudget, SetBudget,
        vars, tables, history
  <1> SUFFICES ASSUME NEW b \in InitDefined \ moved' PROVE ChargesOf(b)'
    BY <1>1, ChargesByBudgetNext
  <1>2. b \in Budgets /\ b \in defined /\ ChargesOf(b)
    BY <1>1, InitAssumption, ChargesByBudget
  <1>3. CASE UNCHANGED <<usage, budget, job, faulted>>
    BY <1>2, <1>3, UntouchedKeeps
  <1>4. ASSUME NEW h \in Handlers, Proxy(h) PROVE ChargesOf(b)'
    <2>1. CASE Disconnect(h)
      BY <1>3, <2>1 DEF Disconnect, tables, history
    <2>2. CASE Arrive(h) \/ Admit(h) \/ Deny(h) \/ NothingToRecord(h) \/ Capture(h)
      <3>1. UNCHANGED <<usage, budget, faulted>>
        BY <2>2 DEF Arrive, Admit, Deny, NothingToRecord, Capture, tables, history
      <3> QED BY <1>2, <2>2, <3>1, BeforeListOwing, MovingCharges DEF Workers
    <2> QED BY <1>4, <2>1, <2>2 DEF Proxy
  <1>5. ASSUME NEW w \in Trackers, StartTrack(w) PROVE ChargesOf(b)'
    <2>1. UNCHANGED <<usage, budget, faulted>>
      BY <1>5 DEF StartTrack, tables, history
    <2> QED BY <1>2, <1>5, <2>1, BeforeListOwing, MovingCharges DEF Workers
  <1>6. ASSUME NEW w \in Workers, Record(w) PROVE ChargesOf(b)'
    <2>1. CASE InsertRow(w)
      BY <1>2, <2>1, InsertCharges
    <2>2. CASE RollHourly(w) \/ RollDaily(w)
      <3>1. UNCHANGED <<usage, budget, faulted>>
        BY <2>2 DEF RollHourly, RollDaily, history
      <3> QED BY <1>2, <2>2, <3>1, BeforeListOwing, MovingCharges
    <2>3. CASE ListApplicable(w)
      <3>1. UNCHANGED <<usage, budget, faulted>>
        BY <2>3 DEF ListApplicable, tables, history
      <3> QED BY <1>2, <2>3, <3>1, ListOwing, MovingCharges
    <2>4. CASE ChargeBudget(w) \/ UnheardCharge(w)
      BY <1>2, <2>4, ChargeCharges
    <2>5. CASE RecordFails(w) \/ ChargeFails(w)
      BY <1>2, <2>5, FailureCharges
    <2>7. CASE UnheardRow(w)
      <3>1. CASE job[w].pc = "insert"
        BY <1>2, <2>7, <3>1, UnheardRowCharges
      <3>2. CASE job[w].pc # "insert"
        BY <1>2, <2>7, <3>2, FailureCharges DEF UnheardRow
      <3> QED BY <3>1, <3>2
    <2>6. CASE Reread(w) \/ RereadFails(w) \/ Notify(w)
      <3>1. UNCHANGED <<usage, budget, faulted>> /\ job[w].pc \in Charging /\ job[w] \in Job
        BY <2>6 DEF Reread, RereadFails, Notify, tables, Charging, TypeOK
      <3>2. CASE NextBudget(w)
        BY <1>2, <3>1, <3>2, NextBudgetOwing, MovingCharges
      <3>3. CASE Reread(w) /\ ~NextBudget(w)
        <4>1. PICK level : Become(w, [job[w] EXCEPT !.pc = "notify", !.level = level])
          BY <3>3 DEF Reread
        <4>2. job'[w].pc = "notify" /\ job'[w].todo = job[w].todo /\ job'[w].cost = job[w].cost
          BY <3>1, <4>1 DEF Become, TypeOK, Job
        <4>3. Owing(job'[w], b) = Owing(job[w], b)
          BY <3>1, <4>2 DEF Owing, MayCharge, Unlisted, Charging
        <4> QED BY <1>2, <3>1, <4>1, <4>3, MovingCharges
      <3> QED BY <2>6, <3>2, <3>3 DEF RereadFails, Notify
    <2> QED BY <1>6, <2>1, <2>2, <2>3, <2>4, <2>5, <2>6, <2>7 DEF Record
  <1>7. CASE SetsBudget
    <2>1. PICK c \in Budgets, t \in Tenants, p \in Scopes, limit \in Limits, a \in Thresholds :
            SetBudget(c, t, p, limit, a)
      BY <1>7 DEF SetsBudget
    <2>2. UNCHANGED <<usage, job, faulted>> /\ budget \in [Budgets -> Budget]
      BY <2>1 DEF SetBudget, TypeOK
    <2>3. /\ budget'[b].tenant = budget[b].tenant /\ budget'[b].project = budget[b].project
          /\ budget'[b].spend = budget[b].spend
      <3>1. CASE b = c
        BY <1>2, <2>1, <2>2, <3>1 DEF SetBudget
      <3>2. CASE b # c
        BY <2>1, <2>2, <3>2 DEF SetBudget
      <3> QED BY <3>1, <3>2
    <2> QED BY <1>2, <2>2, <2>3, UntouchedKeeps
  <1>8. CASE UNCHANGED vars
    BY <1>3, <1>8 DEF vars, tables, history
  <1> QED BY <1>4, <1>5, <1>6, <1>7, <1>8 DEF Next, Quiet

\* What the steps keep: a budget of the start is never forgotten, and the accounts balance.
ChargeInv == InitDefined \subseteq defined /\ ChargesMatchUsage

\* Nothing is spent, recorded or owed at the start.
LEMMA InitCharges == Init => ChargeInv
  <1> SUFFICES ASSUME Init PROVE InitDefined \subseteq defined /\ ChargesMatchUsage
    BY DEF ChargeInv
  <1> SUFFICES ASSUME NEW b \in InitDefined PROVE ChargesOf(b)
    BY InitType, ChargesByBudget DEF Init
  <1>1. Owed(b) = 0
    <2> DEFINE f == [w \in Workers |-> Owing(job[w], b)]
    <2>1. \A w \in Workers : f[w] = 0
      BY DEF Init, Owing, MayCharge, IdleJob, NewJob, Unlisted, Charging
    <2> HIDE DEF f
    <2> QED BY <2>1, WorkersFinite, TotalOfZeros DEF Owed, f
  <1>2. Recorded(b) = 0
    <2>1. \A s \in Series : usage[s] = 0
      BY DEF Init
    <2>2. IsFiniteSet(InScope(b)) /\ InScope(b) \subseteq Series
      BY SeriesFinite, FS_Subset DEF InScope
    <2> QED BY <2>1, <2>2, TotalOfZeros DEF Recorded
  <1>3. budget[b].spend = InitBudget[b].spend /\ InitBudget[b].spend \in Nat
    BY InitAssumption DEF Init
  <1> QED BY <1>1, <1>2, <1>3 DEF ChargesOf

\* For any budgets, workers, costs and failures: a budget that keeps its scope has never been
\* charged more than the usage recorded in its scope, with what stored requests still owe it,
\* and exactly that as long as nothing has failed.
THEOREM ChargesFollowUsage == Spec => []ChargesMatchUsage
  <1>1. Spec => []TypeOK
    BY TypeCorrect
  <1>2. TypeOK /\ TypeOK' /\ ChargeInv /\ [Next]_vars => ChargeInv'
    BY ChargeStep DEF ChargeInv
  <1>3. ChargeInv => ChargesMatchUsage
    BY DEF ChargeInv
  <1> QED BY <1>1, <1>2, <1>3, InitCharges, PTL DEF Spec

-----------------------------------------------------------------------------
(* SpendPipeline implements SpendLedger.                                     *)

\* A request that has a price has one of the prices there are.
Priced == \A w \in Workers : job[w].pc = "insert" => job[w].cost \in Costs

\* Every step of a worker is a change of its own job, or of no job.
LEMMA WorkerBecomes ==
  ASSUME NEW w \in Workers, Record(w) \/ (w \in Handlers /\ Proxy(w)) \/ (w \in Trackers /\ StartTrack(w))
  PROVE  (\E j : Become(w, j)) \/ UNCHANGED job
  <1>1. CASE Record(w)
    BY <1>1 DEF Record, InsertRow, RollHourly, RollDaily, RecordFails, UnheardRow, ListApplicable,
       ChargeBudget, ChargeFails, UnheardCharge, Reread, RereadFails, Notify, NextBudget, Goto, Finish
  <1>2. CASE Proxy(w)
    BY <1>2 DEF Proxy, Arrive, Admit, Deny, NothingToRecord, Capture, Disconnect, Goto, Finish
  <1>3. CASE StartTrack(w)
    BY <1>3 DEF StartTrack
  <1> QED BY <1>1, <1>2, <1>3

\* Only Capture and StartTrack take a job to "insert".
LEMMA PricedWorker ==
  ASSUME TypeOK, NEW w \in Workers, job'[w].pc = "insert", job[w].pc # "insert" \/ job'[w] # job[w],
         Record(w) \/ (w \in Handlers /\ Proxy(w)) \/ (w \in Trackers /\ StartTrack(w))
  PROVE  job'[w].cost \in Costs
  <1>0. job \in [Workers -> Job] /\ job[w] \in Job /\ IdleJob.pc = "idle"
    BY DEF TypeOK, IdleJob, NewJob
  <1>1. CASE Capture(w)
    BY <1>0, <1>1 DEF Capture, Become, Job
  <1>2. CASE StartTrack(w)
    BY <1>0, <1>2 DEF StartTrack, Become, NewJob
  <1>3. ASSUME NEW pc \in PCs \ {"insert"}, Goto(w, pc) PROVE FALSE
    BY <1>0, <1>3 DEF Goto, Become, Job
  <1>4. ASSUME Finish(w) PROVE FALSE
    BY <1>0, <1>4 DEF Finish, Become
  <1>5. ASSUME NextBudget(w) PROVE FALSE
    BY <1>3, <1>4, <1>5 DEF NextBudget, PCs
  <1>6. CASE Proxy(w) /\ ~Capture(w)
    <2>1. CASE Arrive(w)
      BY <1>0, <2>1 DEF Arrive, Become, NewJob
    <2>2. CASE Disconnect(w)
      BY <2>2 DEF Disconnect
    <2> QED BY <1>3, <1>4, <1>6, <2>1, <2>2 DEF Proxy, Admit, Deny, NothingToRecord, PCs
  <1>7. CASE Record(w)
    <2>1. CASE ListApplicable(w)
      BY <1>0, <1>4, <2>1 DEF ListApplicable, Become, Job
    <2>2. CASE ChargeBudget(w)
      BY <1>0, <2>2 DEF ChargeBudget, Become, Job
    <2>3. CASE ChargeFails(w)
      BY <1>0, <1>4, <2>3 DEF ChargeFails, Become, Job
    <2>4. CASE Reread(w)
      BY <1>0, <1>5, <2>4 DEF Reread, Become, Job
    <2>5. CASE UnheardCharge(w)
      BY <1>0, <1>4, <2>5 DEF UnheardCharge, Become, Job
    <2> QED BY <1>3, <1>4, <1>5, <1>7, <2>1, <2>2, <2>3, <2>4, <2>5
            DEF Record, InsertRow, RollHourly, RollDaily, RecordFails, UnheardRow, RereadFails,
                Notify, PCs
  <1> QED BY <1>1, <1>2, <1>6, <1>7

LEMMA PricedStep == TypeOK /\ Priced /\ [Next]_vars => Priced'
  <1> SUFFICES ASSUME TypeOK, Priced, [Next]_vars, NEW v \in Workers, job'[v].pc = "insert"
               PROVE  job'[v].cost \in Costs
    BY DEF Priced
  <1>1. ASSUME NEW w \in Workers,
               Record(w) \/ (w \in Handlers /\ Proxy(w)) \/ (w \in Trackers /\ StartTrack(w))
        PROVE  job'[v].cost \in Costs
    <2>1. CASE job'[v] = job[v]
      BY <2>1 DEF Priced
    <2>2. CASE job'[v] # job[v]
      <3>1. v = w
        BY <1>1, <2>2, WorkerBecomes DEF Become, TypeOK
      <3> QED BY <1>1, <2>2, <3>1, PricedWorker
    <2> QED BY <2>1, <2>2
  <1>2. CASE SetsBudget \/ UNCHANGED vars
    BY <1>2 DEF SetsBudget, SetBudget, vars, Priced
  <1> QED BY <1>1, <1>2 DEF Next, Quiet, Workers

-----------------------------------------------------------------------------
(* Each step of a worker is a step of its account, or a stutter.           *)

\* The two specifications mean the same by a scope, a budget that covers and one that is
\* exceeded.
LEMMA SameRules ==
  /\ Ledger!Scopes = Scopes
  /\ \A t, p : Ledger!Covering(t, p) = {b \in defined : Covers(budget[b], t, p)}
  /\ \A b : Ledger!Exceeded(budget[b]) <=> Exceeded(budget[b])
  BY DEF Ledger!Scopes, Scopes, Ledger!Covering, Ledger!Covers, Covers, Ledger!Exceeded, Exceeded

\* The account of a worker whose job changes is the account of its new job.
LEMMA AccountMoves ==
  ASSUME TypeOK, NEW w \in Workers, NEW j, Become(w, j)
  PROVE  account' = [account EXCEPT ![w] = AccountOf(j)]
  BY DEF TypeOK, Become, account

\* A change of job that the account does not show.
LEMMA AccountStays ==
  ASSUME TypeOK, NEW w \in Workers, NEW j, Become(w, j), AccountOf(j) = AccountOf(job[w])
  PROVE  account' = account
  BY DEF TypeOK, Become, account

\* What a job's account shows of it.
LEMMA AccountByPC ==
  ASSUME NEW j
  PROVE  /\ j.pc \in {"idle", "admission"} => AccountOf(j) = [state |-> "none"]
         /\ j.pc \in {"upstream", "insert"} =>
               AccountOf(j) = [state |-> "open", tenant |-> j.tenant, project |-> j.project]
         /\ j.pc \in {"hourly", "daily", "list"} =>
               AccountOf(j) = [state |-> "stored", tenant |-> j.tenant, project |-> j.project,
                               cost |-> j.cost]
         /\ j.pc \in Charging => AccountOf(j) = Ledger!Billed(j, j.todo)
  BY DEF AccountOf, Charging, Ledger!Billed, Ledger!NoAccount

\* A worker that is done has no account.
LEMMA IdleAccount == AccountOf(IdleJob) = Ledger!NoAccount
  BY AccountByPC DEF IdleJob, NewJob, Ledger!NoAccount

\* The end of RecordSpend's loop and a further round of it look alike from outside.
LEMMA NextBudgetStays ==
  ASSUME TypeOK, NEW w \in Workers, job[w].pc \in {"reread", "notify"}, NextBudget(w)
  PROVE  account' = account
  <1> DEFINE j == [job[w] EXCEPT !.pc = "update"]
  <1>1. job[w] \in Job /\ AccountOf(job[w]) = Ledger!Billed(job[w], job[w].todo)
    BY AccountByPC DEF TypeOK, Charging
  <1>2. CASE job[w].todo = {}
    BY <1>1, <1>2, IdleAccount, AccountStays DEF NextBudget, Finish, Ledger!Billed
  <1>3. CASE job[w].todo # {}
    <2>1. Become(w, j)
      BY <1>3 DEF NextBudget, Goto
    <2>2. AccountOf(j) = Ledger!Billed(j, j.todo)
      BY <1>1, AccountByPC DEF Job, Charging
    <2>3. Ledger!Billed(j, j.todo) = Ledger!Billed(job[w], job[w].todo)
      BY <1>1 DEF Job, Ledger!Billed
    <2> HIDE DEF j
    <2> QED BY <1>1, <2>1, <2>2, <2>3, AccountStays
  <1> QED BY <1>2, <1>3

\* The steps of a handler before there is anything to record.
LEMMA ProxyRefines ==
  ASSUME TypeOK, NEW h \in Handlers, Proxy(h)
  PROVE  [Ledger!LedgerNext]_(Ledger!ledgerVars)
  <1>0. h \in Workers /\ job[h] \in Job /\ account[h] = AccountOf(job[h])
    BY DEF TypeOK, Workers, account
  <1>1. CASE Arrive(h)
    <2>1. PICK t \in Tenants, p \in Scopes : Become(h, NewJob("admission", t, p, 0))
      BY <1>1 DEF Arrive
    <2>2. AccountOf(NewJob("admission", t, p, 0)) = AccountOf(job[h])
      BY <1>1, AccountByPC DEF Arrive, NewJob
    <2> QED BY <1>0, <1>1, <2>1, <2>2, AccountStays DEF Arrive, Ledger!ledgerVars, tables, history
  <1>2. CASE Admit(h)
    <2> DEFINE j == [job[h] EXCEPT !.pc = "upstream"]
               t == job[h].tenant
               p == job[h].project
    <2>1. AccountOf(j) = Ledger!Opened(t, p) /\ account[h].state = "none"
      BY <1>0, <1>2, AccountByPC DEF Admit, Job, Ledger!Opened
    <2>2. account' = [account EXCEPT ![h] = Ledger!Opened(t, p)]
      BY <1>0, <1>2, <2>1, AccountMoves DEF Admit, Goto
    <2>3. Ledger!Covering(t, p) = Applicable(h)
      BY SameRules DEF Applicable
    <2>4. Ledger!Enter(h, t, p)
      BY <1>2, <2>1, <2>2, <2>3, SameRules DEF Admit, Ledger!Enter, tables, history
    <2>5. t \in Tenants /\ p \in Scopes
      BY <1>0 DEF Job
    <2> HIDE DEF j, t, p
    <2> QED BY <1>0, <2>4, <2>5, SameRules DEF Ledger!LedgerNext
  <1>3. CASE Deny(h)
    BY <1>0, <1>3, AccountByPC, IdleAccount, AccountStays
       DEF Deny, Finish, Ledger!ledgerVars, Ledger!NoAccount, tables, history
  <1>4. CASE NothingToRecord(h)
    <2>1. account[h].state = "open"
      BY <1>0, <1>4, AccountByPC DEF NothingToRecord
    <2>2. account' = [account EXCEPT ![h] = Ledger!NoAccount]
      BY <1>0, <1>4, IdleAccount, AccountMoves DEF NothingToRecord, Finish
    <2>3. Ledger!Leave(h)
      BY <1>4, <2>1, <2>2 DEF NothingToRecord, Ledger!Leave, tables, history
    <2> QED BY <1>0, <2>3 DEF Ledger!LedgerNext
  <1>5. CASE Capture(h)
    <2>1. PICK c \in Costs : Become(h, [job[h] EXCEPT !.pc = "insert", !.cost = c])
      BY <1>5 DEF Capture
    <2> DEFINE j == [job[h] EXCEPT !.pc = "insert", !.cost = c]
    <2>2. j.pc = "insert" /\ j.tenant = job[h].tenant /\ j.project = job[h].project
      BY <1>0 DEF Job
    <2> HIDE DEF j
    <2>3. AccountOf(j) = AccountOf(job[h])
      BY <1>5, <2>2, AccountByPC DEF Capture
    <2>4. Become(h, j)
      BY <2>1 DEF j
    <2> QED BY <1>0, <1>5, <2>3, <2>4, AccountStays DEF Capture, Ledger!ledgerVars, tables, history
  <1>6. CASE Disconnect(h)
    BY <1>6 DEF Disconnect, account, Ledger!ledgerVars, tables, history
  <1> QED BY <1>1, <1>2, <1>3, <1>4, <1>5, <1>6 DEF Proxy

\* `lcg track` enters unchecked.
LEMMA StartTrackRefines ==
  ASSUME TypeOK, NEW w \in Trackers, StartTrack(w)
  PROVE  [Ledger!LedgerNext]_(Ledger!ledgerVars)
  <1>0. w \in Workers /\ w \notin Handlers /\ account[w] = AccountOf(job[w])
    BY WorkersAssumption DEF Workers, account
  <1>1. PICK t \in Tenants, p \in Scopes, c \in Costs : Become(w, NewJob("insert", t, p, c))
    BY DEF StartTrack
  <1>2. AccountOf(NewJob("insert", t, p, c)) = Ledger!Opened(t, p)
    BY AccountByPC DEF NewJob, Ledger!Opened
  <1>3. account' = [account EXCEPT ![w] = Ledger!Opened(t, p)]
    BY <1>0, <1>1, <1>2, AccountMoves
  <1>4. account[w].state = "none"
    BY <1>0, AccountByPC DEF StartTrack
  <1>5. Ledger!Enter(w, t, p)
    BY <1>0, <1>3, <1>4 DEF StartTrack, Ledger!Enter, tables, history
  <1> QED BY <1>0, <1>5, SameRules DEF Ledger!LedgerNext

-----------------------------------------------------------------------------
(* Recording.                                                              *)

\* The statements of RecordUsage: the INSERT stores the account, the rollups do not show, a
\* failure leaves an open account or writes off a stored one, and a row nobody heard of is
\* stored with no account.
LEMMA RecordUsageRefines ==
  ASSUME TypeOK, Priced, NEW w \in Workers,
         InsertRow(w) \/ RollHourly(w) \/ RollDaily(w) \/ RecordFails(w) \/ UnheardRow(w)
  PROVE  [Ledger!LedgerNext]_(Ledger!ledgerVars)
  <1>0. job[w] \in Job /\ account[w] = AccountOf(job[w])
    BY DEF TypeOK, account
  <1>1. ASSUME NEW pc \in PCs, Goto(w, pc)
        PROVE  /\ pc \in {"hourly", "daily", "list"} =>
                    account' = [account EXCEPT ![w] = Ledger!Stored(job[w], job[w].cost)]
               /\ pc \in {"hourly", "daily", "list"} /\ job[w].pc \in {"hourly", "daily", "list"} =>
                    account' = account
    <2> DEFINE j == [job[w] EXCEPT !.pc = pc]
    <2>1. /\ j.pc = pc /\ j.tenant = job[w].tenant /\ j.project = job[w].project
          /\ j.cost = job[w].cost
      BY <1>0 DEF Job
    <2>2. Become(w, j)
      BY <1>1 DEF Goto
    <2> HIDE DEF j
    <2>3. pc \in {"hourly", "daily", "list"} => AccountOf(j) = Ledger!Stored(job[w], job[w].cost)
      BY <2>1, AccountByPC DEF Ledger!Stored
    <2>4. job[w].pc \in {"hourly", "daily", "list"} =>
            AccountOf(job[w]) = Ledger!Stored(job[w], job[w].cost)
      BY AccountByPC DEF Ledger!Stored
    <2> QED BY <2>2, <2>3, <2>4, AccountMoves, AccountStays
  <1>2. CASE InsertRow(w)
    <2>1. /\ account[w] = [state |-> "open", tenant |-> job[w].tenant, project |-> job[w].project]
          /\ job[w].cost \in Costs
      BY <1>0, <1>2, AccountByPC DEF InsertRow, Priced
    <2>2. account' = [account EXCEPT ![w] = Ledger!Stored(job[w], job[w].cost)]
      BY <1>1, <1>2 DEF InsertRow, PCs
    <2>3. Ledger!Store(w, job[w].cost)
      BY <1>2, <2>1, <2>2 DEF InsertRow, SeriesOf, Ledger!Store, Ledger!Stored, history
    <2> QED BY <2>1, <2>3 DEF Ledger!LedgerNext
  <1>3. CASE RollHourly(w)
    <2>1. account' = account
      BY <1>1, <1>3 DEF RollHourly, PCs
    <2> QED BY <1>3, <2>1 DEF RollHourly, Ledger!ledgerVars, history
  <1>4. CASE RollDaily(w)
    <2>1. account' = account
      BY <1>1, <1>4 DEF RollDaily, PCs
    <2> QED BY <1>4, <2>1 DEF RollDaily, Ledger!ledgerVars, history
  <1>5. CASE RecordFails(w)
    <2>1. account' = [account EXCEPT ![w] = Ledger!NoAccount]
      BY <1>5, IdleAccount, AccountMoves DEF RecordFails, Finish
    <2>2. UNCHANGED <<budget, defined, usage>> /\ faulted' = TRUE
      BY <1>5 DEF RecordFails, tables
    <2>3. CASE job[w].pc = "insert"
      <3>1. account[w].state = "open"
        BY <1>0, <2>3, AccountByPC
      <3> QED BY <2>1, <2>2, <3>1 DEF Ledger!Leave, Ledger!LedgerNext
    <2>4. CASE job[w].pc \in {"hourly", "daily", "list"}
      <3>1. account[w].state = "stored"
        BY <1>0, <2>4, AccountByPC
      <3> QED BY <2>1, <2>2, <3>1 DEF Ledger!WriteOff, Ledger!LedgerNext
    <2> QED BY <1>5, <2>3, <2>4 DEF RecordFails
  <1>6. CASE UnheardRow(w)
    <2>1. account' = [account EXCEPT ![w] = Ledger!NoAccount]
      BY <1>6, IdleAccount, AccountMoves DEF UnheardRow, Finish
    <2>2. UNCHANGED <<budget, defined>> /\ faulted' = TRUE
      BY <1>6 DEF UnheardRow
    <2>3. CASE job[w].pc = "insert"
      <3>1. /\ account[w] = [state |-> "open", tenant |-> job[w].tenant, project |-> job[w].project]
            /\ job[w].cost \in Costs
        BY <1>0, <2>3, AccountByPC DEF Priced
      <3>2. usage' = [usage EXCEPT ![SeriesOf(w)] = @ + job[w].cost]
        BY <1>6, <2>3 DEF UnheardRow
      <3>3. Ledger!StoreUnbilled(w, job[w].cost)
        BY <2>1, <2>2, <3>1, <3>2 DEF SeriesOf, Ledger!StoreUnbilled
      <3> QED BY <3>1, <3>3 DEF Ledger!LedgerNext
    <2>4. CASE job[w].pc \in {"hourly", "daily"}
      <3>1. account[w].state = "stored"
        BY <1>0, <2>4, AccountByPC
      <3>2. UNCHANGED usage
        BY <1>6, <2>4 DEF UnheardRow
      <3>3. Ledger!WriteOff(w)
        BY <2>1, <2>2, <3>1, <3>2 DEF Ledger!WriteOff
      <3> QED BY <3>3 DEF Ledger!LedgerNext
    <2> QED BY <1>6, <2>3, <2>4 DEF UnheardRow
  <1> QED BY <1>2, <1>3, <1>4, <1>5, <1>6

\* ListApplicable bills the account to what covers it at that moment.
LEMMA ListRefines ==
  ASSUME TypeOK, NEW w \in Workers, ListApplicable(w)
  PROVE  [Ledger!LedgerNext]_(Ledger!ledgerVars)
  <1> DEFINE t == job[w].tenant
             p == job[w].project
             due == Ledger!Covering(t, p)
             j == [job[w] EXCEPT !.pc = "update", !.todo = due]
  <1>0. job[w] \in Job /\ account[w] = AccountOf(job[w])
    BY DEF TypeOK, account
  <1>1. account[w] = [state |-> "stored", tenant |-> t, project |-> p, cost |-> job[w].cost]
    BY <1>0, AccountByPC DEF ListApplicable
  <1>2. due = Applicable(w)
    BY SameRules DEF Applicable
  <1>3. account' = [account EXCEPT ![w] = Ledger!Billed(account[w], due)]
    <2>1. CASE due = {}
      <3>1. Become(w, IdleJob)
        BY <1>2, <2>1 DEF ListApplicable, Finish
      <3> QED BY <2>1, <3>1, IdleAccount, AccountMoves DEF Ledger!Billed
    <2>2. CASE due # {}
      <3>1. Become(w, j)
        BY <1>2, <2>2 DEF ListApplicable
      <3>2. /\ j.pc = "update" /\ j.todo = due /\ j.tenant = t /\ j.project = p
            /\ j.cost = job[w].cost
        BY <1>0 DEF Job
      <3> HIDE DEF j
      <3>3. AccountOf(j) = Ledger!Billed(account[w], due)
        BY <1>1, <3>2, AccountByPC DEF Charging, Ledger!Billed
      <3> QED BY <3>1, <3>3, AccountMoves
    <2> QED BY <2>1, <2>2
  <1>4. Ledger!Bill(w)
    BY <1>1, <1>3 DEF ListApplicable, Ledger!Bill, tables, history
  <1> QED BY <1>4 DEF Ledger!LedgerNext

\* A charge pays the account at one budget, a failed one writes it off there, and the
\* threshold check that follows does not show.
LEMMA ChargingRefines ==
  ASSUME TypeOK, NEW w \in Workers,
         \/ ChargeBudget(w) \/ ChargeFails(w) \/ UnheardCharge(w)
         \/ Reread(w) \/ RereadFails(w) \/ Notify(w)
  PROVE  [Ledger!LedgerNext]_(Ledger!ledgerVars)
  <1>0. job[w] \in Job /\ account[w] = AccountOf(job[w])
    BY DEF TypeOK, account
  <1>1. ASSUME NEW b \in job[w].todo, job[w].pc = "update"
        PROVE  /\ account[w].state = "billed" /\ b \in account[w].due
               /\ account[w].cost = job[w].cost
               /\ \A due : Ledger!Billed(account[w], due) = Ledger!Billed(job[w], due)
               /\ account[w].due = job[w].todo
    BY <1>0, <1>1, AccountByPC DEF Charging, Ledger!Billed
  <1>2. CASE ChargeBudget(w)
    <2>1. PICK b \in Budgets :
            /\ IsNext(w, b)
            /\ budget' = [budget EXCEPT ![b].spend = @ + job[w].cost]
            /\ Become(w, [job[w] EXCEPT !.pc = "reread", !.cur = b, !.todo = @ \ {b}])
      BY <1>2 DEF ChargeBudget
    <2> DEFINE j == [job[w] EXCEPT !.pc = "reread", !.cur = b, !.todo = @ \ {b}]
    <2>2. /\ j.pc = "reread" /\ j.todo = job[w].todo \ {b} /\ j.tenant = job[w].tenant
          /\ j.project = job[w].project /\ j.cost = job[w].cost
      BY <1>0 DEF Job
    <2>3. Become(w, j)
      BY <2>1
    <2> HIDE DEF j
    <2>4. AccountOf(j) = Ledger!Billed(job[w], job[w].todo \ {b})
      BY <2>2, AccountByPC DEF Charging, Ledger!Billed
    <2>5. b \in job[w].todo /\ job[w].pc = "update"
      BY <1>2, <2>1 DEF IsNext, ChargeBudget
    <2>6. account' = [account EXCEPT ![w] = Ledger!Billed(account[w], account[w].due \ {b})]
      BY <1>1, <2>3, <2>4, <2>5, AccountMoves
    <2>7. Ledger!Pay(w, b)
      BY <1>1, <1>2, <2>1, <2>5, <2>6 DEF ChargeBudget, Ledger!Pay
    <2> QED BY <2>7 DEF Ledger!LedgerNext
  <1>3. CASE ChargeFails(w)
    <2>1. PICK b \in Budgets :
            /\ IsNext(w, b)
            /\ IF job[w].todo = {b} THEN Finish(w)
               ELSE Become(w, [job[w] EXCEPT !.todo = @ \ {b}])
      BY <1>3 DEF ChargeFails
    <2>2. b \in job[w].todo /\ job[w].pc = "update"
      BY <1>3, <2>1 DEF IsNext, ChargeFails
    <2>3. account' = [account EXCEPT ![w] = Ledger!Billed(account[w], account[w].due \ {b})]
      <3>1. CASE job[w].todo = {b}
        <4>1. Become(w, IdleJob) /\ job[w].todo \ {b} = {}
          BY <2>1, <3>1 DEF Finish
        <4>2. Ledger!Billed(account[w], account[w].due \ {b}) = Ledger!NoAccount
          BY <1>1, <2>2, <4>1 DEF Ledger!Billed
        <4> QED BY <4>1, <4>2, IdleAccount, AccountMoves
      <3>2. CASE job[w].todo # {b}
        <4> DEFINE j == [job[w] EXCEPT !.todo = @ \ {b}]
        <4>1. /\ j.pc = "update" /\ j.todo = job[w].todo \ {b} /\ j.tenant = job[w].tenant
              /\ j.project = job[w].project /\ j.cost = job[w].cost
          BY <1>0, <2>2 DEF Job
        <4>2. Become(w, j)
          BY <2>1, <3>2
        <4> HIDE DEF j
        <4>3. AccountOf(j) = Ledger!Billed(job[w], job[w].todo \ {b})
          BY <4>1, AccountByPC DEF Charging, Ledger!Billed
        <4> QED BY <1>1, <2>2, <4>2, <4>3, AccountMoves
      <3> QED BY <3>1, <3>2
    <2>4. Ledger!WriteOff(w)
      BY <1>1, <1>3, <2>2, <2>3 DEF ChargeFails, Ledger!WriteOff, tables
    <2> QED BY <2>4 DEF Ledger!LedgerNext
  <1>4. CASE Reread(w)
    <2>1. account' = account
      <3>1. CASE NextBudget(w)
        BY <1>4, <3>1, NextBudgetStays DEF Reread
      <3>2. CASE ~NextBudget(w)
        <4> DEFINE level == LevelOf(budget[job[w].cur])
                   j == [job[w] EXCEPT !.pc = "notify", !.level = level]
        <4>1. /\ j.pc = "notify" /\ j.todo = job[w].todo /\ j.tenant = job[w].tenant
              /\ j.project = job[w].project /\ j.cost = job[w].cost
          BY <1>0 DEF Job
        <4>2. Become(w, j) /\ job[w].pc = "reread"
          BY <1>4, <3>2 DEF Reread
        <4> HIDE DEF j
        <4>3. AccountOf(j) = AccountOf(job[w])
          BY <4>1, <4>2, AccountByPC DEF Charging, Ledger!Billed
        <4> QED BY <4>2, <4>3, AccountStays
      <3> QED BY <3>1, <3>2
    <2> QED BY <1>4, <2>1 DEF Reread, Ledger!ledgerVars, tables
  <1>5. CASE RereadFails(w)
    <2>1. account' = account
      BY <1>5, NextBudgetStays DEF RereadFails
    <2> QED BY <1>5, <2>1 DEF RereadFails, Ledger!ledgerVars, tables
  <1>6. CASE Notify(w)
    <2>1. account' = account
      BY <1>6, NextBudgetStays DEF Notify
    <2> QED BY <1>6, <2>1 DEF Notify, Ledger!ledgerVars, tables
  <1>7. CASE UnheardCharge(w)
    <2>1. PICK b \in Budgets, j \in Job : UnheardTo(w, b, j)
      BY <1>7, UnheardChargeStep
    <2>2. b \in job[w].todo /\ job[w].pc = "update" /\ Become(w, j)
      BY <2>1 DEF UnheardTo
    <2>3. AccountOf(j) = Ledger!Billed(job[w], job[w].todo \ {b})
      <3>1. CASE j = IdleJob /\ job[w].todo = {b}
        BY <3>1, IdleAccount DEF Ledger!Billed
      <3>2. CASE ~(j = IdleJob /\ job[w].todo = {b})
        <4>1. /\ j.todo = job[w].todo \ {b} /\ j.pc = "update" /\ j.cost = job[w].cost
              /\ j.tenant = job[w].tenant /\ j.project = job[w].project
          BY <2>1, <3>2 DEF UnheardTo
        <4> QED BY <4>1, AccountByPC DEF Charging, Ledger!Billed
      <3> QED BY <3>1, <3>2
    <2>4. account' = [account EXCEPT ![w] = Ledger!Billed(account[w], account[w].due \ {b})]
      BY <1>1, <2>2, <2>3, AccountMoves
    <2>5. Ledger!Pay(w, b)
      BY <1>1, <1>7, <2>1, <2>2, <2>4 DEF UnheardCharge, UnheardTo, Ledger!Pay
    <2> QED BY <2>5 DEF Ledger!LedgerNext
  <1> QED BY <1>2, <1>3, <1>4, <1>5, <1>6, <1>7

\* `lcg budget set` redefines a budget and leaves its spend.
LEMMA SetsBudgetRefines ==
  ASSUME TypeOK, SetsBudget PROVE [Ledger!LedgerNext]_(Ledger!ledgerVars)
  <1>1. PICK b \in Budgets, t \in Tenants, p \in Scopes, limit \in Limits, a \in Thresholds :
          SetBudget(b, t, p, limit, a)
    BY DEF SetsBudget
  <1> DEFINE spend == IF b \in defined THEN budget[b].spend ELSE 0
             rules == [tenant |-> t, project |-> p, limit |-> limit, spend |-> spend, alertAt |-> a]
  <1>2. rules \in Ledger!Rules({0, budget[b].spend})
    BY SameRules DEF Ledger!Rules
  <1>3. /\ budget' = [budget EXCEPT ![b] = rules] /\ defined' = defined \cup {b}
        /\ UNCHANGED <<usage, job, faulted>>
    BY <1>1 DEF SetBudget
  <1>4. account' = account
    BY <1>3 DEF account
  <1>5. rules.spend = spend
    OBVIOUS
  <1> HIDE DEF rules
  <1>6. Ledger!Redefine(b, rules)
    BY <1>3, <1>4, <1>5 DEF Ledger!Redefine
  <1> QED BY <1>2, <1>6 DEF Ledger!LedgerNext

-----------------------------------------------------------------------------
\* Every behaviour of the spend pipeline is, seen through its accounts, a behaviour of the
\* ledger: admitted on one look, stored once, billed once, each due budget paid once or
\* written off with a fault.
THEOREM PipelineImplementsLedger == Spec => LedgerImplemented
  <1>1. Init => Ledger!LedgerInit
    <2> SUFFICES ASSUME Init PROVE Ledger!LedgerInit
      OBVIOUS
    <2>1. \A w \in Workers : job[w] = IdleJob
      BY DEF Init
    <2>2. account = [w \in Workers |-> Ledger!NoAccount]
      BY <2>1, IdleAccount DEF account
    <2> QED BY <2>2, SameRules DEF Init, Series, Ledger!LedgerInit
  <1>2. Init => TypeOK /\ Priced
    <2>1. IdleJob.pc = "idle"
      BY DEF IdleJob, NewJob
    <2> QED BY <2>1, InitType DEF Init, Priced
  <1>3. TypeOK /\ Priced /\ [Next]_vars => TypeOK' /\ Priced'
    BY NextType, PricedStep
  <1>4. TypeOK /\ Priced /\ [Next]_vars => [Ledger!LedgerNext]_(Ledger!ledgerVars)
    <2> SUFFICES ASSUME TypeOK, Priced, [Next]_vars
                 PROVE  [Ledger!LedgerNext]_(Ledger!ledgerVars)
      OBVIOUS
    <2>1. CASE \E h \in Handlers : Proxy(h)
      BY <2>1, ProxyRefines
    <2>2. CASE \E w \in Trackers : StartTrack(w)
      BY <2>2, StartTrackRefines
    <2>3. CASE \E w \in Workers : Record(w)
      BY <2>3, RecordUsageRefines, ListRefines, ChargingRefines DEF Record
    <2>4. CASE SetsBudget
      BY <2>4, SetsBudgetRefines
    <2>5. CASE UNCHANGED vars
      BY <2>5 DEF vars, tables, history, account, Ledger!ledgerVars
    <2> QED BY <2>1, <2>2, <2>3, <2>4, <2>5 DEF Next, Quiet
  <1> QED BY <1>1, <1>2, <1>3, <1>4, PTL DEF Spec, LedgerImplemented, Ledger!LedgerSpec

-----------------------------------------------------------------------------
(* What a recording still has to do only shrinks.                           *)

Less(k, j) == Ahead(k) \subseteq Ahead(j) /\ Ahead(k) # Ahead(j)

\* A budget that was charged is not in the list any more.
Taken == \A w \in Workers : job[w].pc \in {"reread", "notify"} => job[w].cur \notin job[w].todo

\* Nothing is ahead of a worker at rest, and something of every other.
LEMMA RestIsLess ==
  ASSUME NEW j \in Job, j.pc \in Recording, j.pc = "update" => j.todo # {}
  PROVE  Less(IdleJob, j)
  <1>1. Ahead(IdleJob) = {}
    BY DEF Ahead, IdleJob, NewJob, Unlisted
  <1>2. j.cur \in Budgets /\ j.todo \subseteq Budgets
    BY DEF Job
  <1>3. CASE j.pc \in {"insert", "hourly", "daily", "list"}
    <2>1. <<"list", j.cur>> \in Ahead(j)
      BY <1>2, <1>3 DEF Ahead
    <2> QED BY <1>1, <2>1 DEF Less
  <1>4. CASE j.pc = "update"
    <2>1. PICK b \in j.todo : TRUE
      BY <1>4
    <2>2. <<"update", b>> \in Ahead(j)
      BY <1>4, <2>1 DEF Ahead, Unlisted, Charging
    <2> QED BY <1>1, <2>2 DEF Less
  <1>5. CASE j.pc \in {"reread", "notify"}
    <2>1. <<"notify", j.cur>> \in Ahead(j)
      BY <1>5 DEF Ahead
    <2> QED BY <1>1, <2>1 DEF Less
  <1> QED BY <1>3, <1>4, <1>5 DEF Recording

\* RecordUsage's statements, each of which is done with when the next one comes.
LEMMA NextStatementIsLess ==
  ASSUME NEW j \in Job, NEW pc,
         <<j.pc, pc>> \in {<<"insert", "hourly">>, <<"hourly", "daily">>, <<"daily", "list">>}
  PROVE  Less([j EXCEPT !.pc = pc], j)
  <1> DEFINE k == [j EXCEPT !.pc = pc]
  <1>1. k.pc = pc /\ k.todo = j.todo /\ k.cur = j.cur /\ j.cur \in Budgets
    BY DEF Job
  <1>2. <<j.pc, j.cur>> \in Ahead(j) /\ <<j.pc, j.cur>> \notin Ahead(k)
    BY <1>1 DEF Ahead, Unlisted, Charging
  <1>3. Ahead(k) \subseteq Ahead(j)
    BY <1>1 DEF Ahead, Unlisted, Charging
  <1> QED BY <1>2, <1>3 DEF Less

\* The list that is read is one of budgets there are.
LEMMA ListIsLess ==
  ASSUME NEW j \in Job, j.pc = "list", NEW found \in SUBSET Budgets
  PROVE  Less([j EXCEPT !.pc = "update", !.todo = found], j)
  <1> DEFINE k == [j EXCEPT !.pc = "update", !.todo = found]
  <1>1. k.pc = "update" /\ k.todo = found /\ k.cur = j.cur /\ j.cur \in Budgets
    BY DEF Job
  <1>2. <<"list", j.cur>> \in Ahead(j) /\ <<"list", j.cur>> \notin Ahead(k)
    BY <1>1 DEF Ahead, Unlisted, Charging
  <1>3. Ahead(k) \subseteq Ahead(j)
    BY <1>1 DEF Ahead, Unlisted, Charging
  <1> QED BY <1>2, <1>3 DEF Less

\* A budget of the list is charged, or given up.
LEMMA TakingIsLess ==
  ASSUME NEW j \in Job, NEW k, j.pc = "update", NEW b \in j.todo, k.todo = j.todo \ {b},
         k.pc = "update" \/ (k.pc = "reread" /\ k.cur = b)
  PROVE  Less(k, j)
  <1>1. <<"update", b>> \in Ahead(j) /\ <<"update", b>> \notin Ahead(k)
    BY DEF Ahead, Unlisted, Charging
  <1>2. Ahead(k) \subseteq Ahead(j)
    BY DEF Ahead, Unlisted, Charging
  <1> QED BY <1>1, <1>2 DEF Less

\* The budget that was charged is looked at, and left.
LEMMA LeavingIsLess ==
  ASSUME NEW j \in Job, NEW k, j.pc \in {"reread", "notify"}, j.cur \notin j.todo,
         k.todo = j.todo,
         k.pc = "update" \/ (j.pc = "reread" /\ k.pc = "notify" /\ k.cur = j.cur)
  PROVE  Less(k, j)
  <1>1. <<j.pc, j.cur>> \in Ahead(j) /\ <<j.pc, j.cur>> \notin Ahead(k)
    BY DEF Ahead, Unlisted, Charging
  <1>2. Ahead(k) \subseteq Ahead(j)
    BY DEF Ahead, Unlisted, Charging
  <1> QED BY <1>1, <1>2 DEF Less

\* A step of a recording leaves less to do, and a charged budget behind.
LEMMA RecordIsLess ==
  ASSUME TypeOK, Taken, NEW w \in Workers, Record(w)
  PROVE  /\ Less(job'[w], job[w])
         /\ job'[w].pc \in {"reread", "notify"} => job'[w].cur \notin job'[w].todo
  <1> DEFINE j == job[w]
  <1>0. j \in Job /\ job' = [job EXCEPT ![w] = job'[w]] /\ IdleJob.pc = "idle"
    BY WorkerBecomes DEF TypeOK, Become, IdleJob, NewJob
  <1>a. ASSUME NEW k, Become(w, k) PROVE job'[w] = k
    BY <1>a DEF Become, TypeOK
  <1>b. ASSUME Finish(w), j.pc \in Recording, j.pc = "update" => j.todo # {}
        PROVE  Less(job'[w], j) /\ job'[w].pc = "idle"
    BY <1>0, <1>a, <1>b, RestIsLess DEF Finish
  <1>c. ASSUME NextBudget(w), j.pc \in {"reread", "notify"}
        PROVE  Less(job'[w], j) /\ job'[w].pc \in {"idle", "update"}
    <2>1. CASE j.todo = {}
      BY <1>b, <1>c, <2>1 DEF NextBudget, Recording
    <2>2. CASE j.todo # {}
      <3>1. job'[w] = [j EXCEPT !.pc = "update"]
        BY <1>a, <1>c, <2>2 DEF NextBudget, Goto
      <3>2. job'[w].pc = "update" /\ job'[w].todo = j.todo
        BY <1>0, <3>1 DEF Job
      <3> QED BY <1>0, <1>c, <3>2, LeavingIsLess DEF Taken
    <2> QED BY <2>1, <2>2
  <1>1. CASE InsertRow(w) \/ RollHourly(w) \/ RollDaily(w)
    <2>1. PICK pc \in {"hourly", "daily", "list"} :
             /\ <<j.pc, pc>> \in {<<"insert", "hourly">>, <<"hourly", "daily">>, <<"daily", "list">>}
             /\ Goto(w, pc)
      BY <1>1 DEF InsertRow, RollHourly, RollDaily
    <2>2. job'[w] = [j EXCEPT !.pc = pc]
      BY <1>a, <2>1 DEF Goto
    <2> QED BY <1>0, <2>1, <2>2, NextStatementIsLess DEF Job
  <1>2. CASE RecordFails(w) \/ UnheardRow(w)
    BY <1>2, <1>b DEF RecordFails, UnheardRow, Recording
  <1>3. CASE ListApplicable(w)
    <2>1. CASE Applicable(w) = {}
      BY <1>3, <1>b, <2>1 DEF ListApplicable, Recording
    <2>2. CASE Applicable(w) # {}
      <3>1. job'[w] = [j EXCEPT !.pc = "update", !.todo = Applicable(w)] /\ j.pc = "list"
        BY <1>3, <1>a, <2>2 DEF ListApplicable
      <3>2. Applicable(w) \in SUBSET Budgets
        BY DEF Applicable, TypeOK
      <3>3. job'[w].pc = "update"
        BY <1>0, <3>1 DEF Job
      <3>4. Less([j EXCEPT !.pc = "update", !.todo = Applicable(w)], j)
        BY <1>0, <3>1, <3>2, ListIsLess
      <3> QED BY <3>1, <3>3, <3>4
    <2> QED BY <2>1, <2>2
  <1>4. CASE ChargeBudget(w)
    <2>1. PICK b \in j.todo :
             job'[w] = [j EXCEPT !.pc = "reread", !.cur = b, !.todo = @ \ {b}]
      BY <1>4, <1>a DEF ChargeBudget, IsNext
    <2>2. job'[w].pc = "reread" /\ job'[w].cur = b /\ job'[w].todo = j.todo \ {b}
      BY <1>0, <2>1 DEF Job
    <2> QED BY <1>0, <1>4, <2>2, TakingIsLess DEF ChargeBudget
  <1>5. CASE ChargeFails(w) \/ UnheardCharge(w)
    <2>1. PICK b \in j.todo :
             Finish(w) \/ Become(w, [j EXCEPT !.todo = @ \ {b}])
      BY <1>5 DEF ChargeFails, UnheardCharge, IsNext
    <2>2. j.pc = "update"
      BY <1>5 DEF ChargeFails, UnheardCharge
    <2>3. CASE Finish(w)
      BY <1>b, <2>1, <2>2, <2>3 DEF Recording
    <2>4. CASE Become(w, [j EXCEPT !.todo = @ \ {b}])
      <3>1. job'[w] = [j EXCEPT !.todo = @ \ {b}]
        BY <1>a, <2>4
      <3>2. job'[w].pc = "update" /\ job'[w].todo = j.todo \ {b}
        BY <1>0, <2>2, <3>1 DEF Job
      <3> QED BY <1>0, <2>1, <2>2, <3>2, TakingIsLess
    <2> QED BY <2>1, <2>3, <2>4
  <1>6. CASE Reread(w)
    <2>1. CASE NextBudget(w)
      BY <1>6, <1>c, <2>1 DEF Reread
    <2>2. CASE ~NextBudget(w)
      <3>1. PICK l : job'[w] = [j EXCEPT !.pc = "notify", !.level = l]
        BY <1>6, <1>a, <2>2 DEF Reread
      <3>2. job'[w].pc = "notify" /\ job'[w].cur = j.cur /\ job'[w].todo = j.todo
        BY <1>0, <3>1 DEF Job
      <3>3. j.pc = "reread" /\ j.cur \notin j.todo
        BY <1>6 DEF Reread, Taken
      <3> QED BY <1>0, <3>2, <3>3, LeavingIsLess
    <2> QED BY <2>1, <2>2
  <1>7. CASE RereadFails(w) \/ Notify(w)
    BY <1>7, <1>c DEF RereadFails, Notify
  <1> QED BY <1>1, <1>2, <1>3, <1>4, <1>5, <1>6, <1>7 DEF Record

\* No other step touches the job of a worker that is recording.
LEMMA OthersLeaveRecording ==
  ASSUME TypeOK, NEW w \in Workers, job[w].pc \in Recording, [Next]_vars, ~Record(w)
  PROVE  job'[w] = job[w]
  <1>1. ASSUME NEW v \in Workers, v # w,
               Record(v) \/ (v \in Handlers /\ Proxy(v)) \/ (v \in Trackers /\ StartTrack(v))
        PROVE  job'[w] = job[w]
    BY <1>1, WorkerBecomes DEF Become, TypeOK
  <1>2. CASE w \in Handlers /\ Proxy(w)
    BY <1>2 DEF Proxy, Arrive, Admit, Deny, NothingToRecord, Capture, Disconnect, Recording
  <1>3. ~StartTrack(w)
    BY DEF StartTrack, Recording
  <1>4. CASE SetsBudget \/ UNCHANGED vars
    BY <1>4 DEF SetsBudget, SetBudget, vars
  <1> QED BY <1>1, <1>2, <1>3, <1>4 DEF Next, Quiet, Workers

\* A budget that is being looked at stays off the list.
LEMMA TakenStep == TypeOK /\ Taken /\ [Next]_vars => Taken'
  <1> SUFFICES ASSUME TypeOK, Taken, [Next]_vars, NEW w \in Workers,
                      job'[w].pc \in {"reread", "notify"}
               PROVE  job'[w].cur \notin job'[w].todo
    BY DEF Taken
  <1>1. CASE Record(w)
    BY <1>1, RecordIsLess
  <1>2. CASE ~Record(w) /\ job[w].pc \in Recording
    BY <1>2, OthersLeaveRecording DEF Taken
  <1>3. CASE ~Record(w) /\ job[w].pc \notin Recording
    <2>1. CASE job'[w] = job[w]
      BY <1>3, <2>1 DEF Recording
    <2>2. CASE job'[w] # job[w]
      <3>1. PICK v \in Workers : /\ \E j : Become(v, j)
                                 /\ \/ Record(v)
                                    \/ v \in Handlers /\ Proxy(v)
                                    \/ v \in Trackers /\ StartTrack(v)
        <4>1. ~(SetsBudget \/ UNCHANGED vars)
          BY <2>2 DEF SetsBudget, SetBudget, vars
        <4>2. PICK v \in Workers : \/ Record(v)
                                   \/ v \in Handlers /\ Proxy(v)
                                   \/ v \in Trackers /\ StartTrack(v)
          BY <4>1 DEF Next, Quiet, Workers
        <4> QED BY <2>2, <4>2, WorkerBecomes
      <3>2. v = w
        BY <2>2, <3>1 DEF Become, TypeOK
      <3>3. job \in [Workers -> Job] /\ job[w] \in Job /\ IdleJob.pc = "idle"
        BY DEF TypeOK, IdleJob, NewJob
      <3>4. job'[w].pc \notin {"reread", "notify"}
        <4>1. ASSUME NEW pc \in PCs \ {"reread", "notify"}, Goto(w, pc) PROVE job'[w].pc = pc
          BY <3>3, <4>1 DEF Goto, Become, Job
        <4>2. ASSUME Finish(w) PROVE job'[w].pc = "idle"
          BY <3>3, <4>2 DEF Finish, Become
        <4>3. CASE StartTrack(w)
          BY <3>3, <4>3 DEF StartTrack, Become, NewJob
        <4>4. CASE Arrive(w)
          BY <3>3, <4>4 DEF Arrive, Become, NewJob
        <4>5. CASE Capture(w)
          BY <3>3, <4>5 DEF Capture, Become, Job
        <4>6. CASE Admit(w) \/ Deny(w) \/ NothingToRecord(w)
          BY <4>1, <4>2, <4>6 DEF Admit, Deny, NothingToRecord, PCs
        <4>7. CASE Disconnect(w)
          BY <2>2, <4>7 DEF Disconnect
        <4> QED BY <1>3, <3>1, <3>2, <4>3, <4>4, <4>5, <4>6, <4>7 DEF Proxy
      <3> QED BY <3>4
    <2> QED BY <2>1, <2>2
  <1> QED BY <1>1, <1>2, <1>3

\* However many workers record, whatever fails and whatever is set meanwhile, a recording
\* only gets shorter: what RecordingEnds has to be fair about is that its steps are taken.
THEOREM RecordingsAdvance == Spec => RecordingAdvances
  <1>1. Init => TypeOK /\ Taken
    <2>1. IdleJob.pc = "idle"
      BY DEF IdleJob, NewJob
    <2> QED BY <2>1, InitType DEF Init, Taken
  <1>2. TypeOK /\ Taken /\ [Next]_vars => TypeOK' /\ Taken'
    BY NextType, TakenStep
  <1>3. TypeOK /\ Taken /\ [Next]_vars =>
          [\A w \in Workers : job[w].pc \in Recording =>
             IF Record(w)
             THEN Ahead(job'[w]) \subseteq Ahead(job[w]) /\ Ahead(job'[w]) # Ahead(job[w])
             ELSE job'[w] = job[w]]_vars
    BY RecordIsLess, OthersLeaveRecording DEF Less
  <1> QED BY <1>1, <1>2, <1>3, PTL DEF Spec, RecordingAdvances
=============================================================================
